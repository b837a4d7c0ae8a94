# Verification of apstra-go-sdk

TLA+ models of the Apstra SDK for Go (`src/apstra`), the TLC runs that check them and TLAPS proofs
about them. The SDK is a client library: most of its 230 files convert a structure to JSON, make one
HTTP request and convert the reply back. What is hard in it is of two kinds. In a few files goroutines
of the SDK and of the application share a client, and the server's answers come late, twice or never.
In all others, hundreds of fields, words and handlers that look alike are written by hand, and reads
are decided upon while other clients change what was read.

## 1. The system

All parts share one `apstra.Client` per application and one server per client.

| Part | State it keeps | Operations | Interacts through |
|---|---|---|---|
| Task monitor (`task_monitor.go`) | map blueprint -> task -> reply channel, timer, lock, shutdown flag | `run`, `check`, `add`, `del`, `waitForTaskCompletion` | `taskMonChan`, reply channels, `tmQuit`, `ErrChan`, status requests |
| Login session (`api_user.go`) | auth token in the shared headers, `tmQuit`, user ID | `login`, `logout`, start and stop of the monitor | headers under the lock "http headers"; `tmQuit` unguarded |
| Transport (`talk_to_apstra.go`) | none of its own | `talkToApstra`: URL, deadline, request, 401 -> login -> retry, error or task ID | the session, the monitor |
| Client core (`client.go`) | named mutexes, tuning parameters, HTTP client | `lock`, `unlock`, waits, methods that forward | every read-modify-write below |
| Blueprint mutex (`two_stage_l3_clos_mutex.go`) | `tagId` | `Lock`, `TryLock`, `Unlock` | a design tag on the server, the blueprint's lock status |
| Streaming receiver (`stream_target.go`) | listener, three channels, wait group | `Start`, `Stop`, `receive`, `handleClientConn` | TCP connections from the server; unbuffered channels to the application |
| Polling loops (`api_ready.go`, `api_system_agents.go`, `api_blueprints.go`, `api_iba_*.go`) | none | wait until ready / cabled / a job ends; bounded retries | transport |
| Rule lists, template assignments (`two_stage_l3_clos_policy_rules.go`, `freeform_config_template_assignment.go`) | none (the server's lists) | read, change, write back | named mutexes |
| Blueprint nodes (`..._tags.go`, `..._switch_system_links.go`, `..._fabric_settings.go`) | `nodeIdsByType`, a cache | several requests that depend on one another | graph queries, other clients |
| Connectivity templates and where they are used | trees and maps in the caller's hands | flatten, parse, position; collect pages | transport |
| Objects of design, platform, blueprint and freeform APIs | none | create, read, update, delete, look up by name; conversions | transport |

What makes the parts correct:

* *Task monitor*: a call that created a task returns, once, when the task has ended, with that task's
  result; no poll is lost; shutdown waits for what was accepted.
* *Session*: a logged-in client has a monitor; a logged-out one has let go of it; channels are closed
  once; an expired token costs one login and one retry.
* *Transport*: nil means that what was asked for was done; a deadline ends the call; a retry repeats
  nothing that was carried out.
* *Named locks*: one holder per name; every call of `lock` returns; `unlock` never panics.
* *Blueprint mutex*: one holder; only the holder releases it; a failed call leaves nothing locked that
  nobody can unlock.
* *Streaming receiver*: what was read is delivered or reported; one connection's failure is not
  another's; shutdown ends everything.
* *Read-modify-write*: no update of the same client is lost; the change lands where it was asked for.
* *Polling*: each loop ends for the reason its comment gives, or when the context does; nothing is
  created twice.
* *Lookups, pages, several requests*: what a call reports was so at some moment while it ran.
* *Trees, tables, fields*: what is written is what is read; reading and sending back changes nothing.

PROJECT.json lists the hazards by line, each with the properties that would notice it going wrong.

## 2. The modules

| Module | What it models | Run |
|---|---|---|
| `TaskMonitor`, `AsyncCalls` | the monitor, its callers, its timer and the server's tasks; the promise it implements | `goroutines`, `monitor_*` |
| `Session` | login, logout, 401 and retry, monitors started and stopped | `client`, `session_*` |
| `BlueprintMutex` | the mutex made of a design tag, over an unreliable network | `blueprint_mutex`, `unlock_missing_tag` |
| `StreamTarget` | accept loop, connection handlers, shutdown | `goroutines`, `stream_stop`, `stream_live` |
| `NamedLock`, `AbstractLock` | `Client.lock` and `unlock`; the lock per name they implement | `requests` |
| `Polling` | calls that make requests until something happens | `requests`, `ready` |
| `Transport` | one `talkToApstra`, or several with one URL | `requests` |
| `BlueprintNodes` | calls of several requests on a blueprint's nodes | `requests` |
| `RuleList`, `TemplateAssignments` | read, change, write back under a named lock | `client` |
| `Objects` | create, read, update, delete, look up, for every kind of object | `client` |
| `ApplicationPoints` | maps collected page by page | `client` |
| `ConnectivityTemplate` | trees of primitives and the flat policies that stand for them | `client` |
| `WireTables` | 52 enumerations and their words, 101 tables | `client` |
| `Conversions` | what becomes of each field on its way there and back | `client` |
| `MC...` | instances for TLC | |
| `...Proofs` | the theorems (section 4) | |

`MCGoroutines`, `MCRequests` and `MCClient` put components that do not interact into one run: `part` says which one a
behaviour belongs to, so that the state spaces add up instead of multiplying. Each component keeps its
own variables and its own specification (`LockSpec`, `RuleSpec`, ...), which the theorems are about.

### TaskMonitor

`runPc` is where `run` is: at the test for exit (`LoopTop`), in `select` (`SelectTimer`, `SelectTask`,
`SelectQuit`), or between the statements of the new-task case (`StopTimer` and `DrainTimer` for
`stopTimer`, `RunLock`, `Add`, `StartTimer`). `pendingTaskData` is two variables because the code's map
has two levels and `del` removes an inner map when it becomes empty: `bpKeys` (outer keys) and `tasks`.
Several `check` goroutines may have been started; all but the one with the lock are alike, so
`queued` counts them and `checkPc` follows the holder: `CheckLock` takes the lock and copies the
blueprint list, `ListOk`/`ListFail` are one status request, `StillRunning`/`Respond`/`Del` one turn of
the inner loop, `Rearm` the timer's restart, `CheckUnlock` the end. `ErrTaken` is a send on the
application's error channel completing, with the lock held, as in the code. The timer follows
Go 1.22 (go.mod): an event may sit in the one-element channel after `Stop`, hence `DrainTimer`.
The statuses "init" and "in_progress" are one value; so are, in the runs, which have one final status,
"succeeded", "failed" and "timeout", which `check` treats alike. That a call gets its own task's
status and not another's is proved for any number of them (`ResultsAreFinal`). A call's task is named by the call.

### Session

A worker is a goroutine of the application or the check goroutine of a monitor, which uses
`talkToApstra` like any other and may log in itself. `pc` walks through `talkToApstra` (`headers`,
`http`), `login` (`auth`, `store`), `startTaskMonitor` (`findMonitor`, `makeQuit`, `launch`) and
`logout` (`findToken` ... `clearQuit`); a step is what happens between two accesses to shared state,
because `tmQuit` is read and written with no lock. `LogoutAlone` says how the application behaves:
TRUE is the usual program, which logs out when its calls have returned. A monitor is seen from
outside: it takes tasks, owes answers, and leaves when its channel is closed and it owes nothing;
`TaskMonitor` justifies that (`QuitEndsRun`, `ImplementsCalls`).

### BlueprintMutex

The server's side is `tag`, the ID of the tag with the blueprint's label, and `bpLock`. A request and
its reply are two steps (`CreateTag`/`Created`, `DeleteTag`/`Deleted`); any may fail, or be given up
and be carried out later (`LateCreate`, `LateDelete`), or be carried out with the reply lost
(`CreatedLost`, `DeletedLost`). `ForceUnlock` is an administrator deleting the tag. `held`, `forced`
and `orphans` are history: they say what the application believes and what happened to tags. Tag IDs
are never reused. `Cancel` is the context's end while waiting for either ticker.

### StreamTarget

`pc` follows each connection's handler, `recv` the accept loop, `shut` the anonymous shutdown
goroutine, `stopper` the caller of `Stop`. Both channels are unbuffered: a send is one step with a
receiver. A read may succeed, end with `io.EOF` (only between messages), or fail otherwise, inside a
message or on a connection we closed. After an error other than `io.EOF` the handler goes on, as the
code does, with no bytes (`Empty`). No bytes are no message: an `AosMessage` has required fields
(`streaming-telemetry.proto:659-660`), so `Unmarshal` fails, the handler sends that error, too
(`sendParseErr`), and reads again. `CloseListener` may succeed or leave an error to send
(`SendCloseErr`). At `Stop` the application may keep receiving or not. Once `panicked`, the program
is gone.

### NamedLock and AbstractLock

`sync` is the set of names in `Client.sync`, `mutex` the mutex of each, `syncLock` the holder of
`Client.syncLock`. `EnterLock`, then `Found` and `Locked`, or `Created`, are the two paths through
`lock`: a mutex that is made is locked before `syncLock` is given back, one that is found after.
`Unlock` asks for no `syncLock`, as in the code, and panics if the mutex is missing or nobody's. A
goroutine that holds a name may ask for "http headers", which every request does, and for no other:
that is how the callers use it, and what keeps two goroutines from waiting for each other.
`AbstractLock` has one lock per name, taken and given back; `BlueprintMutex` implements it, too, with one
name.

### Transport

`Craft` joins the URL, sets the deadline and copies the headers; `SendFails`, `Unauthorized`, `Login`,
`LoginRefused`, `Refuse`, `Answer` and `Accept` are how a request may end; `TaskEnds` and `TaskReported`
follow the task of an asynchronous answer. The input (`tin`) is every combination of an own URL, a
login and `doNotLogin`, a writer, a response structure and a blueprint in the URL. `executions` and
`operation` are the server's side: what was carried out. `prefixes` counts how often the base path
stands in the caller's URL, which the code changes in place.

### Polling

One call at a time, of 13 kinds. `pollPc` is the loop the call is in; each turn of a loop is a request
(`Asks`), and the server's side (`job`, `agent`, `system`, `connection`, `blueprint`, `cabling`)
changes by itself. `RequestFails` ends a call when its context has ended, or by a refusal. Retries are
counted where the code counts them. `waitUntilReady` is translated as it is written, which is the
opposite of its comment (run `ready`).

### BlueprintNodes

`subject` says which of three families a behaviour is about. *Tags*: `QueryTags`, `GetNode` when the
answer is empty, `PostTags` with the differences. *Generic systems*: `QueryLinks`, `DeleteLinks`, whose
refusal names links or aggregates that have connectivity templates, `FindLag`, which asks for the
aggregate's ID afterwards (`lagIdFromMemberIds`), `DeleteExternal`. *Fabric settings*: one request in
later versions, four places in 4.2.0, two of which are found through the cached node IDs
(`NodeIdsByType`, `RefreshNodeIds`). A `Setting` is a group of fields that share a fate. The virtual
network policy has three: the limits on routes, which have no `omitempty` and go out as null when they
are not given (`Patch`; the server may take null for no limit or for no change); the overlay control
protocol, which `setVirtualNetworkPolicy420` does not copy, so that 4.2.0 is never sent it
(`PatchPlace`); and the rest. `Others` is a change by another client between any two requests.
A behaviour starts in any blueprint the constants allow, with any cache the client may have filled.

### RuleList and TemplateAssignments

`policyLock` and `assignLock` are names of `NamedLock`, which justifies using them as plain mutexes.
`AddedRules` is the switch of `addPolicyRule` with the overlapping halves it appends; `Inserted` is what
its comment says. `Difference` is the request map of `UpdateConfigTemplateAssignmentsByTemplate`;
`Giving` what its comment says. `Outside` and `Foreign` are other clients, who know of no lock; `raced`
and `overtaken` record that one came between a read and its write.

### Objects

The handlers of the kinds of objects share a shape: one request for reading all, one, creating,
updating, deleting; and a lookup by name that reads the list, or a list of IDs and then each object,
counts matches and may read the match again. `Apis` records kind by kind which operations there are,
what a lookup gathers, whether several matches are an error and how a missing one is reported. While a
call runs, other clients rename, create and delete objects.

### ApplicationPoints

`AskPoints` starts one of the three calls that read, with the points and template they are for,
`ReadPage` is one turn of the loop over pages, which ends at a page that is not full; `PatchPoints`,
`Revalidate` and `MovePoints` are the writes of this and other clients. `was` holds what was so at some
moment of the call, `always` what was so all the time.

### ConnectivityTemplate

`EditCt` changes the tree in the caller's hands, `LayOut` gives IDs and positions (`setIds`, `positions`), `WriteCt` flattens
it into policies and stores them; policies that no longer belong to the tree the server keeps or drops.
`ReadCt` follows the pointers of an export back into a tree. Primitives are numbered from the root down.

### WireTables

Each enumeration has two tables in the code, kept by hand: constant to word and word to constant. The
module has both, transcribed, and two actions, `Encode` and `Decode`, over all of them. The empty
string, the word of a few constants, is written `"empty"`.

### Conversions

`Structs` records, for every struct that crosses the wire, the fields and what the two conversions do
with each: sent always, unless zero, never, by another name, without its prefix, cut; read always, if
known, instead of another, not at all; the head of the module explains each kind. `ReadField`, `SetField`, `CreateField`, `UpdateField` and `ServerChanges` move one field of one struct between server and caller. A
value is zero (empty, or a nil pointer), usual or odd (a word with no constant, a speed that is no whole
number of gigabits, a network with host bits, an address without its prefix, a package without a version).
The rows of a struct are about its own conversion: a struct that is held by a pointer is taken to be there,
and what is inside a field is lost with the field. `a ++ b` joins rows of fields that have different names.

## 3. The runs

| Run | Properties | Shows |
|---|---|---|
| `goroutines` | `TypeOK NoLostWakeup WaitersKnown NoSendToFinishedCall FinalResultsOnly OuterMapExact` | the monitor: three calls on two blueprints, failing requests, tasks the server drops (of two calls), shutdown at any time |
| | `NothingLost ServesUntilStop` | the receiver: two connections, two messages in all and cut ones, `Stop` at any time |
| `monitor_live` | `ImplementsCalls ImplementsFairCalls OfferedIsServed QuitEndsRun` | two calls with an error channel: the monitor refines `AsyncCalls` with its fairness |
| `monitor_map_race` | `LockGuardsMap` (violated) | the exit test reads the map while `check` changes it |
| `session_live` | `EveryCallReturns` | three operations, under fairness |
| `session_race` | `TokenMeansMonitor` (violated) | a login that overlaps a logout leaves a token without a monitor |
| `blueprint_mutex` | `IInv MutualExclusion HeldTagIsSafe ImplementsOneLock CallsReturn` | two clients, three lock attempts, one faulty request, one tag removed by hand |
| `unlock_missing_tag` | `UnlockReleases` (violated) | `Unlock` of a mutex whose tag is gone |
| `stream_stop` | `NoSendOnClosedErrChan` (violated) | `receive` sends on `errChan` after it was closed |
| `stream_live` | `StopEndsHandlers` (violated) | a handler whose connection `Stop` closed never ends, though the application receives |
| `requests` | `LockExclusion ImplementsLock LockReturns` | two goroutines, two names |
| | `WaitsAreOver CreatesAtMostOnce PollReturns` | two polling calls in a row, every kind |
| | `NilMeansDone DeadlineEndsCall` | `talkToApstra` with every input, two calls with one URL |
| | `AnswersWereTrue` | a call of several requests, a change by others between any two |
| `ready` | `ReadyMeansReady` (violated) | `WaitUntilReady` returns nil because the server is not ready |
| `client` | `TokenMeansMonitor NoTokenNoChannel NoPanic NoAuthErrWhileTokensLive` | four session operations of two goroutines, one expired token, failing logins and logouts |
| | `NoRuleLost RulePlaced AssignmentsSerial` | two goroutines and a stranger edit one list |
| | `LookupHonest PagedReadComplete` | lookups and paged reads while others write |
| | `ReadsWhatWasWritten TreesUnfold` | trees of four primitives, edited twice, written and read |
| | `TablesInvert FieldsSurvive` | every word of every table; every field of every struct |

The six violated properties are disagreements between the code and its own comments; PROJECT.json
quotes the lines under "findings".

**Bounds.** Two blueprints with three calls let one inner map empty while another does not, and let a
task arrive while `check` is between two others; the server drops tasks, or ends them in a status of no
known name, on the first of the two (`Steady`). `MaxQueued = 1` is one check goroutine waiting
besides the one that holds the lock: that is where timer events meet; the theorems hold for any bound.
Four session operations are the fewest that close a second channel (login, logout, login, logout);
three monitors are then enough. One fault and one removal by hand in `BlueprintMutex` are enough to
lose a reply, to retry, and to have another client lock meanwhile; the theorems lift the bounds. In
`StreamTarget` the second message on a connection is the first that an earlier failure could lose; in the
run `goroutines` two messages are sent in all (`MaxSent`), both on one connection or one on each.

Two goroutines and two names of `NamedLock` are the smallest instance in which one waits for a name
while it holds another. `MaxRetries = 1` has the first attempt, the retry and the limit; `MaxCalls = 2`
a call that starts from what the one before left. `MaxPages = 2` uses a URL twice. One call and one
change by others (`MaxNodeCalls`, `MaxNodeChanges`) from every blueprint and cache put a change between
any two requests; what a second call would add is already among the starts. `stream_live` has one connection and one message, the fewest
with which a handler can be kept from ending. Three rules, one change
from outside and one deletion reach every branch of the switch of positions (first, last, in between,
past the end), a rule that another goroutine adds in between, and a lookup by a label that is there
twice. Two IDs, two names and two changes by others let two objects trade names during a lookup. Two
points with `PageSize = 1` make three pages, the last one empty, and two changes shift them. Four
primitives are the fewest with a root, siblings and a grandchild; two edits move one and bring it back.
The constants in `WireTables` and `Conversions` are the code's own and complete.

Sets of like elements are symmetric in the safety runs only. Deadlock is not checked: when the bound
on operations is used up, and in `StreamTarget` after `Stop`, there may be nothing left to do.

**Exceptions.** `FieldsSurvive` does not hold of every field: five sets list, by struct and name, those
for which it does not. `Forgotten` by an update are the label of the templates' primitives, all of a
device profile (the struct that sends it has no names for the server, `api_device_profiles.go:338`), the
speed of access-access links (read only where there is a link), an SVI's addresses (read with
`ParseCIDR`, sent without the prefix) and requirements (not in the server's answers), the gateway's
password and two durations of the widgets. `Rounded` are odd values only: speeds, networks with host
bits, addresses without a prefix, packages without a version. `NeverCleared` are fields that an empty
value leaves alone, because of `omitempty` in a PATCH. `WriteOnly` are credentials and what is sent at first or for some objects only, the
overlay control protocol of 4.2.0 among them. `Dereferenced` are pointers whose conversion asks for no
nil: a policy's application points (`two_stage_l3_clos_policies.go:106`), speeds, logical devices.
The lists are part of the property: a field that leaves the code's conversions must be added for the property to
hold again. `LookupHonest` promises less of lists gathered from several reads, `PagedReadComplete`
of pages that shifted, `AnswersWereTrue` of links that changed aggregates and of the overlay control
protocol in 4.2.0 (`Unsent`: `two_stage_l3_clos_virtual_network_policy.go:59-72` copies every field but that one, and
`SetFabricSettings` returns nil, although its comment says that it "sets the specified fabric settings"), `NoRuleLost` and
`AssignmentsSerial` of writes by another client between a read and its write.

**Fairness.** `TaskMonitor`: a goroutine that can run does; a ready case of `select` is eventually
drawn (strong fairness: Go chooses at random among ready cases, so a case that is ready again and
again is not passed over for ever); the server finishes tasks, a request repeated for ever succeeds at
some time, the application reads its error channel. `Session`: goroutines run, requests are answered,
a poll and a login repeated for ever are accepted at some time; the application is never obliged to
start anything. `BlueprintMutex`: calls go on, whoever holds the mutex unlocks it and repeats a failed
`Unlock`, and the blueprint is unlocked at some poll if it is unlocked again and again. Nothing is
assumed about who wins a race for the tag: `CallsReturn` rests on the bounded number of lock attempts,
which says "once the others stop coming back". `NamedLock`: a mutex that is free again and again is
obtained at some time (Go's `sync.Mutex` hands it over to a waiter that has starved for 1 ms), and
whoever holds a lock unlocks it, every `unlock` in the code being deferred or immediate. `Polling`:
requests are made and answered, a job, a deletion and a disconnection come to an end, and the
context's end is assumed only for the two loops that nothing else ends, the wait for an agent's
connection and that for a ready server. `StreamTarget` (`StreamFairSpec`): goroutines run, and the error of
a closed listener is read; the peer may send, end its connection or do nothing, and `Accept` may fail or
not. That the application receives is the condition of `StopEndsHandlers`, and no fairness. `Transport`: time passes and tasks end; that a request is
answered is *not* assumed, since `DeadlineEndsCall` is about exactly that.

## 4. The proofs

The theorems hold for every value of the constants, under the assumptions named in the modules.

**TaskMonitorProofs.** `IInv` is inductive. Its parts say where the goroutines are (`LockInv`: the lock
is held exactly in `add` and during a check; `IncomingInv`: run holds a request between receiving
and adding it, and its caller waits; `CallerInv`; `VisitInv`: the tasks a check has still to visit are
in the map, and only the one just answered has been) and what they have said (`AnswerInv`: listings,
replies and results are true of the server's task). Without them `NoLostWakeup` and `WaitersKnown`
are not inductive: that a check re-arms the timer when it leaves tasks behind is only known because
the map does not grow under its lock. From `IInv`: `TypeCorrect`, `WakeupNeverLost`,
`WaitersNeverForgotten`, `SendsAreSafe`, `OuterMapIsExact`, `ResultsAreFinal`, and
`MonitorImplementsCalls`: the initial states and steps of the monitor are those of `AsyncCalls` under
the mapping `callPhase`, `callAnswer`. `NobodyIsStuck` is what the liveness properties need besides
fairness, that nobody waits for each other: while a call waits for its answer, whoever holds the lock can go
on, or the lock is free and wanted, or run is about to arm the timer, or the timer will fire and run is where it
takes the tick; and a call that offers its task meets run in its loop, unless run has left for good. The
reason is that check finds each reply channel empty (`NoSendToFinishedCall`); only an error
channel that the application does not read can hold it up, and that is left to the application.

**BlueprintMutexProofs.** `IInv`: no two mutexes know the same tag and a tag just made is known to its
maker alone (`OwnersDistinct`), lock attempts run on unlocked mutexes, a deleted tag does not come
back, and the tag of a locked mutex is the server's, or was removed by hand, with no late deletion
pending for it (`HeldIsLive`, `FreshIsLive`). `DeletedIsGone` is what makes `TagHasOwner` inductive:
between the server's deletion and `tagId = ""` the mutex must not own a newer tag. `Exclusion` follows:
two locked mutexes would have the same tag. `HeldTagsAreSafe` is the action property. `TagIsALock` puts
them together: under the mapping that takes for the owner the mutexes locked by a tag nobody removed by
hand, every step is a step of `AbstractLock` with one name, or a stutter. The step to think about is one
that would hand the lock from one mutex to another; `OneHolder` before and after it leaves only `Created` to
lock a mutex, and that frees nobody.

**SessionProofs** has `TypeCorrect`, and proves the four session properties of the run `client` under
the assumption `LogoutAlone`; `session_race` shows that they fail without it. The
invariant `SessionIInv` says that a logout is alone (`LogoutIsAlone`), which MayStart gives at its
beginning and the monitors, who owe nothing then, keep; that the token is there from `store` to
`dropToken` (`TokenStored`); that a quit channel is open unless about to be forgotten and has a monitor
that listens, or a goroutine about to launch one (`ChannelHeld`); and that the server accepts the token
the client holds while none has expired (`TokensLive`). Two logins that both find no channel are the
case to think about: the second channel replaces the first before the first monitor reads `tmQuit`, or
after; either way some monitor listens to the one that is kept. `EveryCallIsServed` is the part of
`EveryCallReturns` that needs no fairness: the task of an asynchronous call is offered while a monitor
listens or one is about to be launched, and a monitor that has taken it runs until it has answered. It rests on
`OwnersRun`, that a request which carries a token goes on in the session that gave it.

**NamedLockProofs.** `LockIInv`: what a goroutine believes to hold is what the mutexes say
(`BeliefIsTrue`), a name is held once (`TakenOnce`), a mutex in use or waited for is in the map
(`UsedIsMapped`, `WaitsForMapped`), and `unlock` is called for the name taken last (`UnlocksLast`). From
it: `ExclusionHolds`, panics included, and `MapIsOneLockPerName`, the refinement of `AbstractLock`.
`NobodyWaitsInACircle` is the part of `LockReturns` that needs no fairness: whoever holds the map's lock
waits for nothing (`MapHolderLooksUp`), and whoever asks for a second lock asks for "http headers", which is
taken last (`HeadersLast`), so that a chain of goroutines that wait for each other has three links at most
and ends at one that runs. It rests on how the callers take locks, which `CallLock` states.

*Template assignments* and *policy rules* are in **NamedLockProofs**, too, since they are edited under its
locks. For the assignments, `DifferenceSuffices` is the algebra: the difference to a list, carried out on that
list, gives what was asked for. `ReadIsTrue` says that what the lock's holder has read still holds when
it writes, unless another client came between. `AssignmentsAreSerial` follows.

For the rules, the lemmas say what the sequence operations do: `AddedIsInserted`, that the four
ways of `addPolicyRule` are one insertion (`Between`, `SameInserted`), and `RemoveAtRemoves`;
`InsertedIds` and `RemovedIds`, what that does to the IDs. The invariant `Good` holds until another
client has come between a read and its PUT (`RInv`): whoever is past the lock holds it (`Held`), what it
is about to write over is still the server's list (`ReadIsCurrent`), and the list has the expected IDs,
once each, all older than the next one (`Kept`). `NoRuleLostTheorem` and `RulePlacedTheorem` follow.

**StreamTargetProofs.** `StreamIInv`: the message in a handler's hand is the one it has read last or is
about to read (`NextInHand`), and `io.EOF` is in hand only at the end of the connection (`EndIsEnd`),
which must hold for the error of a cut message too; what is sent as a message was read as one, and after a failed
read there is no message in hand. From it `EverythingIsDelivered` and
`ServesUntilStopHolds`, for any connections and any number of messages. `DeliveredInOrder` says
more of what is delivered: each message read goes to one of the two channels, once (`ExactlyOnce`), and
those of a connection in the order in which they were sent (`InOrder`), parse errors in their
places. `HandlersAreCounted`: `clientWG` is the number of handlers that run, so that `Done` never makes it negative;
hence `StopWaitsForHandlers`: neither `Stop` nor the shutdown goroutine passes its `Wait` while one runs.
A handler that `receive` starts after that, for a connection accepted before, is not waited for, and
`receive` itself is not: that it may send on `errChan` after its close is what `stream_stop` shows.

**RequestProofs**, *polling*. `PollIInv` says which request belongs to which call (`RequestFitsCall`), that
what a loop has waited for stays so until the call returns (`WaitedFor`: a job that has exited does not
start again, an agent that is deleted does not come back, and that the agent was connected is remembered
when the connection drops), and that before the attempt that ends a retry loop nothing is made
(`NothingMadeYet`). Hence `WaitsAreOverHolds` and `CreatesAtMostOnceHolds`, for any `MaxRetries` and `MaxCalls`.

*Transport.* `OncePerPage` is the heart of `NilMeansDoneHolds`: before each request the server has begun
what was asked for before, and nothing of this page; a 401 does not count, because the server looks at
the token before it does anything. `OneLoginPerPage` bounds the retries: a token may
die at any moment, the one a login has just given too, but `doNotLogin` is set by then, and a second 401
ends the call; the next page, a call of its own, may log in again. `DeadlinesHold` is the part of
`DeadlineEndsCall` that needs no fairness: the deadline once set stays, through the login and the retry, until
the next page sets its own; once it has passed, the call has the server do nothing more and returns an
error in two steps at most, unless a task monitor has it already.

*Blueprint nodes.* `NodeIInv` ties what a call has read to the history `seen` of what was so since it
began. `TagsWereRead`: when `SetNodeTags` sends its differences, each tag was as it was read, so each is as it
was asked for afterwards, whether it is in the difference or not. `LinksWereGone`: a system is deleted
after links that were gone. `RefusalWasTrue`: what `lagIdFromMemberIds` finds for a refused aggregate
is the aggregate the refusal was about, as long as no link changes its aggregate meanwhile, which is
the exception the property makes. `SettingsWereThere`: the places before the one that is to be written
(`Written`) or read (`ReadSoFar`) have had their turn, in the order of the code, which is not the same
for writing and for reading. What a place had not sent is no part of it: a null for a limit that was not given
changes nothing that was, and the overlay control protocol of 4.2.0 is excepted. `AnswersWereTrueHolds` follows for any links, tags and aggregates.

**LookupProofs.** The first two properties are about the *order* in which a server lists things, so the proofs
begin with lemmas on numbers: a set of them has a least one (`LeastNumber`), a listing of a finite set
has each element once (`ListsOf`), the k-th element of a set exists if there are k of them
(`EveryNumberTaken`), so that a stretch of numbers that ends before the set does is full (`FullStretch`).
*Lookups*: `HistoryIsUpToDate` says that while a call runs its history knows the present, and `ReadEarlier`
what earlier reads of the same call are worth; `ScanFinds` that the scan takes an element with the name
and, unless the first will do, the only one. Hence `LookupHonestHolds`, for every kind of object and
every order of the list. *Pages*: `NothingAfterShortPage` is why the loop may stop: what the server has and
is not on a page that is not full was on an earlier one. `Collected` is the invariant: what was listed
all the time, and has a number below the pages read, is in the map, unless the pages shifted. Hence
`PagedReadCompleteHolds`, for any page size.
*Trees*: `ServerHasTree` is the invariant: for every template on the server there is a tree, one of those that
may have been written, whose batches and pipelines are there, besides others that nothing points at; each of those may
point anywhere, in circles too, so `BelowIs` (what `parsePrimitiveTreeByPipelineId` finds satisfies its
recursive equation) is proved through the set of what can be reached. `ReadFinds` then takes the greatest primitive
below which a read would go astray, and the least one it would miss, and finds neither; `TreeRead` is
what an export that lacks a batch costs. Hence `ReadsWhatWasWrittenHolds`.
*Layout*: recursion over a tree is made first-order by ranks. `InOrder` is induction over ranks with a set
in the place of a formula, `Recursion` the existence of a function whose value at an element depends on
elements of lower rank, with a function in the place of the equation's right side. From them: sums do not
depend on the order of the fold (`Totals`), a tree is as wide as its children's together (`WidthIs`),
siblings have columns of their own inside their parent's (`Columns`), and two primitives in one row of one
tree are `Apart` because their parents are, or because they are siblings (`RowsUnfold`). `OnlyTreesDrawn` makes it
inductive: what is drawn is in a tree. Hence `TreesUnfoldHolds`. The top-level trees themselves may overlap (the
width in `SetUserData` grows only by a tree that is wider than all before it), and the property does not say otherwise.

`RequestProofs` and `LookupProofs` assume that `MaxRetries`, `MaxCalls` and `MaxPages` are natural numbers and pages are not empty, that in the
beginning the server has finitely many objects and points, and that primitives are numbered from one, are
finitely many and no templates (`HomeAssumption`); the absence of a policy is no policy (`NoPolicyAssumption`).

**ConversionProofs**, *enumerations*. `EnumerationsInvert` goes through the tables one by one: each constant has a
word that is read back as that constant, and each word a constant that is written as that word
(`SentOnly` for those that are never read). `WireIInv` lifts this to histories: the value and the word are
those of the datum's first appearance, however often it goes to and fro. Hence `TablesInvertHolds`.
*Fields*: what a conversion can lose depends on its kind alone, whatever struct the field is of.
`ConvIInv` says what the value in the caller's hands tells of the server's: after a read (`ReadIs`), a
setting (`SetIs`) and a request (`WrittenIs`), up to what the kind loses. From it `KindsDecideHolds`: an
update changes what was only read, a read differs from what was written, and a conversion panics, only where
`Kept`, `Returned` and `MayPanic` of the kind allow it. The lemmas from `OrdinaryStructs` to `UnreadStructs` then go through
the table struct by struct, for the fields of such a kind (`TableFine`): each is in a list of exceptions. Hence
`FieldsSurviveHolds`, for the code's own table and any history of reads, settings, requests and changes by others.

Only model-checked: liveness (`ImplementsFairCalls`, `OfferedIsServed`, `QuitEndsRun`, `EveryCallReturns`,
`CallsReturn`, `LockReturns`, `PollReturns`, `DeadlineEndsCall`), which with ENABLED is beyond the prover.
Of some of these the part that needs no fairness is proved: `ImplementsCalls` and `NobodyIsStuck` for the monitor, `EveryCallIsServed`, `NobodyWaitsInACircle` and `DeadlinesHold`. Every other property of a passing run has a
theorem. The violated properties are, of course, not proved; what holds instead is said above.

## 5. Not modelled

Formatting, logging, JSON and TLS; the wording of errors, and their classification from error bodies
other than 404 and the refusal to delete links. Data races of Go as such: the models interleave the single accesses and
look for their consequences; `LockGuardsMap` names one race directly. Starvation of the poll by a
steady stream of new tasks needs unboundedly many calls. Two goroutines that use one mutex object at
the same time are outside `BlueprintMutex`, and so are `SetMessage` and read-only mutexes. `Register`
and `Unregister` of the receiver are one request each.

`immediateTicker` (`helpers.go`) is a choice of time; that its goroutine outlives the caller (line 43) has
no property. That a URL used twice gets the base path twice is in the model (`prefixes`) but is promised
nowhere, so no property speaks of it. The range arithmetic of `int_pool.go` is not modelled: the edit
that uses it has no caller. The builders of graph queries are wording; a query is modelled by its
answer where it is used, and only the tables of node and relationship types are in `WireTables`. The
`enum` package is generated by a library; version constraints are modelled where they choose a path.
The creation of links and systems is modelled by its fields; metrics, audit, feature switches, versions,
interface map digests, interface maps, device profile imports and the like are one read or one write
each, with nothing to decide. Whether `Stop` of the receiver returns when nobody receives any more has
no run: no comment promises it, and it does not. `stream_live` shows that it need not return either when
the application goes on receiving. What becomes of calls that overlap a logout has one run only
(`session_race`): a call that offers its task to a monitor that has left, two logouts at once, and a
monitor that logs in by itself are hazards without a property, since nothing says what should happen.

## 6. Plan

What would come next, in this order:

1. `Session`: what does hold of calls that overlap a logout.
2. The creation of links and generic systems, and the range arithmetic of the pools, should the latter
   get a caller.
