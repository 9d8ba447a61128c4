# Verification of libossia's device tree and protocols

libossia (`src/Source/libossia/Public/ossia`) lets applications share a tree of
named parameters over OSC and OSCQuery. This directory holds TLA+ models of the
parts whose correctness depends on interleavings, on lost or reordered messages
and on long sequences of edits, the TLC runs that check them on small
instances, and TLAPS proofs of the main results for every size.
Paths below are relative to `src/Source/libossia/Public/ossia`.

## The system

| part | state | operations | interacts with |
|---|---|---|---|
| node tree (`network/base/node.cpp`, `network/generic/generic_node.cpp`) | children, names, cached OSC addresses, one optional parameter per node | `create_child`, `add_child`, `set_name`, `remove_child`, `clear_children`, `create_parameter`, `remove_parameter` | emits signals of the device, to which protocols connect |
| names (`network/base/name_validation.cpp`) | none | `sanitize_name` | called by the edits of the tree |
| parameter (`network/generic/generic_parameter.cpp`, `detail/callback_container.hpp`) | value, previous value, list of callbacks, two mutexes | `set_value`, `push_value`, `add_callback`, `remove_callback`, `disable_callback` | calls `observe` and `push` of the protocol |
| listened parameters (`network/base/listening.hpp`) | map from address to parameter pointer | `insert`, `erase`, `rename`, `find` | written by `observe` and `on_nodeRenamed`, read by the delivery of messages |
| message delivery (`network/osc/detail/osc_receive.hpp`) | none | `handle_osc_message` | reads the table, then the tree |
| osc protocol (`network/osc/osc.cpp`) | sockets, listened parameters, learning mode | `push`, `observe`, `on_received_message` | thread of the receiver |
| oscquery server (`network/oscquery/oscquery_server.cpp`) | clients, what each listens to, listened parameters, queue of commands | requests of clients, signals of the device | threads of the websocket server and of the OSC receiver |
| oscquery mirror (`network/oscquery/oscquery_mirror.cpp`) | listened parameters, queue of promises, queue of functions, connections | `pull`, `pull_async`, `request`, `update`, `run_commands`, `on_WSMessage` | threads of the HTTP client, of the websocket client and of the OSC receiver |
| rate limiter (`network/rate_limiting_protocol.cpp`) | three maps from parameter to value, a flag, a period | `push`, the loop of its thread, the destructor | wraps another protocol |
| message queues (`network/base/message_queue.hpp`) | registrations with a count, queue of parameter pointers and values | `reg`, `unreg`, `try_dequeue` | callbacks of parameters |
| local and multiplex protocol (`network/local/local.cpp`) | list of protocols | forwards each call | other protocols |
| aliases, presets, paths, values, domains, units, JSON, zeroconf, logging | little or none | conversions and searches | |

What is hard here: the rate limiter's maps are swapped between threads while its
wrapped protocol may throw; keys of the listened parameters are addresses, which
any renaming above changes; the test and the insertion of `add_child` are two
critical sections, and so are the choice and the assignment of a name in
`set_name`; an edit of the tree is signalled after its lock is released; the
answers to value requests carry no address, and come in any order or not at all;
events and namespace answers reach a mirror on two ways and are applied by two
threads; `m_hasWS` and `m_open` are written by three threads while connections
open, fail and close; the records of clients move in their vector under the
threads that use them; a value is stored under one mutex and told under another.
`PROJECT.json` lists each of these under "hazards" with its line.

What makes each part correct:

- tree: names unique among siblings, cached addresses right and distinct;
- listened parameters: exactly the parameters that have callbacks, under their
  present addresses;
- delivery: a message updates the parameters its address designates, and runs
  their callbacks if they have any;
- value requests: a pull that returns true has brought the value of that
  parameter; a pull returns; no promise is lost or kept twice;
- mirrored tree: it is always a state the server was in, and becomes the
  server's present one;
- connections: no thread outlives its owner, `m_hasWS` tells the truth, `stop`
  returns;
- clients: each has one record, which sends to that client; an open client
  misses no message; a message is not sent back to its source;
- parameters: listeners agree on the order of calls, a linked parameter
  follows, no callback dangles, each call returns;
- rate limiter: the newest value is not lost, an older one never follows a newer
  one, each is forwarded in the end, the destructor returns.

## Modules

| module | models | composed of |
|---|---|---|
| `LatestValue` | abstract: one channel per parameter that emits only values not older than the last, and in the end the newest | |
| `RateLimiter` | `rate_limiting_protocol` | refines `LatestValue` |
| `SanitizeName` | `sanitize_name` among siblings, pure | |
| `Siblings` | the children of one node, edited by threads | extends `SanitizeName` |
| `NodeTree` | tree, parameters, callbacks, listened parameters, delivery | extends `SanitizeName` |
| `MirrorPull` | value requests of the mirror, HTTP client, server as answerer | |
| `MirrorSync` | the server's edits and events, the mirror's queue, tree and namespace updates | extends `SanitizeName`; server and mirror composed |
| `MirrorConnection` | the mirror's connections and their threads, from `init` to the destructor | |
| `QueryServer` | the server's clients, broadcasts, echo, requests for edits, `stop` | |
| `ParameterValue` | values, callbacks that push further, message queues | |
| `MC...` | instances for TLC | |
| `RateLimiterProofs`, `SanitizeNameProofs`, `GenericProofs`, `MirrorPullProofs`, `MirrorSyncProofs`, `MirrorConnectionProofs`, `QueryServerProofs`, `NodeTreeProofs` | theorems | extend their component; `GenericProofs` extends `Siblings` and `ParameterValue` |

Operators whose comment starts with "Mutant:" are deliberate faults of the
definition that follows them; no specification uses them. They exist so that
each property can be shown to fail when the code goes wrong in that way.

### RateLimiter

`m_userMessages`, `m_buffer` and `m_threadMessages` are the maps of the class;
a value is its rank among those pushed to its parameter, and 0 is the invalid
value, which an absent entry is too. `push` is one critical section, hence one
action. The loop of the thread is split where other threads can interfere:
the test of `m_running` (`loop_head`), the swap under the mutex
(`swap_messages`), the copy (`copy_newest`), one action per forwarded message
(`push_one`) and the reset with the computation of the next sleep
(`clear_messages`). `push_throws` is the exception of the wrapped protocol,
before or after the message has left. `asked` and `out` are history variables:
how many values were pushed, and which one was last forwarded. `set_duration`
has no action: the thread reads `m_duration` once, before its loop.
A destroyed parameter (`parameter_destroyed`; a device destroys its tree before
its protocol) stays in the maps; using it is undefined behaviour, and the
property about it is that the maps forget it.

### SanitizeName and Siblings

A name is a root and, optionally, an instance number: `a`, `a.3`. The root is
opaque. Instance numbers are ints of their width (`IntMax` is a parameter) and
their increment wraps; the overflow is recorded in `overflow`, because it is
undefined in C++ and the property does not hold after it. Two spellings of one
number (`a.3`, `a.03`) are not distinguished. `add_child` is two actions, for
its read lock and its write lock. `set_name` is two as well: it locks a mutex of
the renamed node only, chooses a name among the siblings and assigns it, and
other threads may run in between (`set_name_sanitize`, `set_name_assign`).
`pending` is, per thread, the node in such a window. The read of the parent's
vector while another thread changes it is undefined and is taken as a read
before or after the change. The history `crossed` has the pairs of nodes of
which one got its name in the window of the other. Names do collide when two
threads edit; `NamesUnique` says that this window is the only way.
The names of the specification (`ChildrenSpec`, `Editors`)
differ from those of `ParameterValue`, with which it shares a module of proofs.

### NodeTree

Node identities are never reused, and a node's parameters are numbered, so that
a pointer to a destroyed parameter shows as such in `m_listening`. An edit is
one action and includes what the handlers of its signals do: `set_name`
computes the cached addresses of the subtree again and runs `on_nodeRenamed`;
the removal of a node removes children first and unobserves each parameter.
`receive` and `receive_pattern` are `handle_osc_message`; `delivered` records
which parameters it updated loudly (`set_value`) and quietly. Patterns are
abstracted to "all children of a node". `Protocol` chooses between the oscquery
protocols, which follow renamings and update quietly, and `osc_protocol`, which
does neither. `set_parameter` is `remove_parameter` followed by
`create_parameter`.

### MirrorPull

`m_getWSPromises` has a single producer, so one thread makes all calls; it is
blocked while `waiting` is a pull. A value is an address and a version, i.e.
what the server held where; `since` is the version when the call was made.
`network` holds requests and their answers. `answer`, `fail` and `on_WSMessage`
are the server, the failures of `http_get_request` and the handler of an
answer. An exception while the answer is read, after the promise has left the
queue, destroys the promise; its future is then ready (`broken_promise`), and
`pull`, which looks at nothing else, returns true without a value. `given` has
this outcome with `Failures`, so that `PulledIsRetrieved` is about answers that
can be read. Flags choose what the environment does: `Async`, `Requests`, `Slow`
(the calls whose answer may come later than three seconds), `Failures`, `InOrder`.
Values streamed by the server at the same time are not part of this model.

### MirrorSync

A node is its path. `tree` and `params` are the server's. An edit changes them
and leaves its event in `due` (`edited`); `signal` is the emission that follows
when the lock is released, with the slot of `oscquery_server_protocol` that
sends the event (`send_message`). In between, a namespace request may be answered
from the tree that has not been told yet. `create_parameter` makes more than one
ATTRIBUTES_CHANGED in the code, by `set_value_type` and by the signal; they are
equal, the mirror's handler is idempotent, and the model sends one.
`remove_child` takes a subtree out at once and then tells of
it node by node, children first (`removing_child`, `remove_parameter`), with
other threads in between. `m_functionQueue` is the connection and the mirror's
queue in one. `run_commands` applies one event: `parse_path_added`,
`parse_path_removed`, `parse_path_renamed`, `parse_attributes_changed` are the
functions of `json_parser` for it, with `m_zombie_on_remove` on or off. The
namespace answer (`on_namespace`) is applied by the HTTP thread at once, at any
place among the events; `http_fail` is an answer that never comes. History:
each queued event carries what a client knows after it (`after`), `base` is that
of the last one applied, and `synced` says that every answer so far was applied
when exactly the events sent before it had been, and was not written in the
middle of an edit (`quiet`). The properties about equal
trees hold under `synced` only: an answer that overtakes events, or is overtaken
by them, makes the mirror apply edits twice or to missing nodes, and nothing in
the code detects it. `ReuseNames` lets the server rename a node to the name of a
removed one. With zombies the mirror then sanitises the name again, among nodes
that the server no longer has, and gets another one; `UpToDate` fails there, so
the run and the theorems exclude it.

### MirrorConnection

`app` is the application's place in `init`, `cleanup_connections`, `stop`,
`set_disconnect_callback` or the destructor; each access to a variable that
another thread uses is a step. `m_wsThread` is the thread in
`websocket_client::connect` with its handlers, `http` the thread in
`io_context::run`. `terminated` records that a joinable `std::thread` was
replaced or destroyed. With `Careful`, `reconnect` comes after `stop`; without,
`ThreadsJoined` fails, because `init` replaces running threads. `reconnect`
does not restart the stopped context, so that from the second life on no host
info is handled; `StreamingStarts` therefore speaks of the first life. The host
info may say that the server streams over UDP, or not, or make `on_WSMessage`
throw ("streams", "plain", "invalid"); only the first leads to the demand.
A websocket that is never answered stays "connecting": no server has to answer.

### QueryServer

`m_clients` is the vector with its capacity; `move_construct` and `move_assign`
are the two moves of `oscquery_client`, which leave `remote_sender_port` out. A
port is the client that has it; a message over the websocket has `AnyPort`.
Walks are split by client. Those of the application's thread hold
`m_clientsMutex` (`locked`), the echo does not: a walk during which the vector
changed is undefined behaviour, it ends and nothing is said of it (`clean`).
`on_connectionOpen_fails` is the exception of `remote_endpoint` before
`emplace_back`: the connection is open without a record ("unlisted"), what it
sends is handled, and its close erases nothing.
The commands in the queue emit `on_add_node_requested` and the like. The library
connects no slot to these signals: `run_commands` assumes an application whose
slots make the requested edits, and `RequestsServed` speaks of such a one.
`start_osc_streaming` finds the record, `open_osc_sender` uses it one step
later. What a client LISTENs to is stored and read by nothing that sends, and is
left out. `delivered`, `joined`, `asked` and `told` are histories.

### ParameterValue

A thread is a stack of frames, the innermost last, since a callback may push to
another parameter while the mutex of its own one is held. `store` is the part of
`set_value` under `m_valueMutex`; `send`, `callback` and `end_send` are the
callbacks under `m_mutx`; `push` is `push_value`'s call of the protocol with the
repetition filter; a parameter in `Muted` (`m_muted` or `m_disabled`) is stored
and notified and never sent. `reg`, `unreg`, `destroy`, `destroy_step` and
`on_param_removed` are `message_queue`; a second registration counts from 0, as
the code does. A link is a callback that pushes to another parameter; links have
no cycle (`LinksAcyclic`): with one, a thread waits for a mutex that it holds.
`remove_callback` erases the element that an iterator points to, here one at a
position where the queue is. `notified` and `sends` are histories: the value of
the last send and the number of sends of a parameter, by which queues tell the
sends they heard of apart. `LinkedFollows` is about parameters that only one
link pushes to; with two, the value is that of whichever sent last. A parameter
is removed when no thread is in a call of it.

## Runs

| run | result | what it shows |
|---|---|---|
| `rate_limiter` | pass | safety, liveness and refinement of the rate limiter |
| `siblings` | pass | two threads: names collide in the windows of `add_child` and `set_name` only; overflow at `IntMax` = 3 included |
| `node_tree` | pass | right cached addresses, exact table, right delivery, unless a node above listened parameters is renamed |
| `parent_rename` | violation | listened parameters below a renamed node are not notified |
| `pull_in_order` | pass | any calls, answers in order: right, and successful when in time |
| `pull_unreliable` | pass | everything at once: pulls return, promises are sound |
| `pull_overtaken` | violation | a pull returns true with the value of another parameter |
| `mirror_sync` | pass | events tell all, the mirror is a past state and catches up |
| `mirror_connection` | pass | joins, `m_hasWS`, callbacks and `stop` over three lives |
| `query_server` | pass | records, broadcasts, echoes and requests of three clients |
| `echo_to_source` | violation | a client gets its own message back after another one connected |
| `parameter` | pass | order of notifications, links, registrations, returns |

The violations disagree with the comments of `network/base/protocol.hpp` and
`network/oscquery/oscquery_server.hpp` that "findings" in `PROJECT.json` quotes.

Constants outside of the runs show the limits of what is claimed: `Protocol` =
"osc" violates `ListenedIsNotified` (`osc_protocol` keeps the old address of a
renamed node), `ReuseNames` violates `UpToDate`, and `Careful` = FALSE violates
`ThreadsJoined`. After a failed request the answers go to earlier promises from
then on, so that, as long as they come in order, each later blocking pull times
out and returns false although the server answers it. An answer to `request`
likewise keeps the promise of another call, with the effect that
`pull_overtaken` shows.

Bounds. Rate limiter: two parameters are needed for an exception between two
messages of one period, two pushes for an older and a newer value, two
exceptions so that a value survives two periods; a period of 2 ms has all
branches of the sleep. Siblings: four children hold a plain name, its first
instances and one with a gap; ints of three bits overflow within four names; two
threads are what a window needs. Node tree: three nodes give depth three, two
siblings and a node that takes over an old address; two parameters per node show
a stale pointer to the first. Pulls: two addresses suffice to mix up values,
three calls put one between two others, one change tells fresh from stale.
`mirror_sync`: two nodes one below the other and the names `a` and `a.1` make
removals of a subtree, sanitised names and renamings above a node; three events
and updates together put an answer between events or between an edit and its
signal, and let two updates overlap (`MaxCalls`). `mirror_connection`: the third
life follows one that itself followed another. `query_server`: with three
clients the vector grows twice and an erasure has elements on both sides; a
received message counts for two because its walk is concurrent with everything,
so that the run has either one echo or two broadcasts or requests (`MaxMessages`
= 2). `parameter`: a chain of three is the shortest with a link in the middle of
a stack, and its last parameter is muted; both ends are set directly, two calls
race, two queues compare what they heard.

Deadlock is not checked where the bounds on calls and edits end the behaviour.
In `ParameterValue` and `MirrorConnection` the liveness properties state that
nobody waits for ever.

Symmetry is used on the identities of nodes, children and clients, in runs
without temporal properties; nothing chooses between them.

Fairness. The rate limiter's thread runs and its join returns when the thread
has ended (weak fairness of both); exceptions are bounded, that is, the wrapped
protocol stops throwing at some time, without which nothing could be forwarded.
Nobody is obliged to push or to destroy. In `MirrorPull` the server answers, the
HTTP thread handles answers, a wait of three seconds ends and a kept promise
wakes its caller; failures are never obliged to stop. In `MirrorSync` an edit
that has begun goes on to its signal and a removal to its end, the application
runs the commands regularly, as the comment of `run_commands` demands, and the
wait of `update` ends; no request has to be answered. In `MirrorConnection` the
three threads run and a close is answered or times out; no connection has to be
accepted. In `ParameterValue` each thread goes on, and gets a mutex once it is
free for good: the calls that compete for it are bounded, so weak fairness
suffices. `Siblings`, `NodeTree` and `QueryServer` have safety properties only.

## Proofs

- `RateLimiterProofs`. The invariant `IInv` orders the maps: a valid entry of
  `m_userMessages` is the newest, else one of `m_buffer`, else one of
  `m_threadMessages`, else the value forwarded; the buffer is empty outside of
  the copy; what the push loop has passed is out. `NewestNotLost` alone is not
  inductive, since it does not say which of the copies is the newest.
  Theorems: `TypeCorrect`, `NothingLost`, `Monotone`, and `RefinesChannel`, the
  safety part of the refinement of `LatestValue`.
- `SanitizeNameProofs`. `SanitizedIsFresh`: the largest instance number plus
  one, or `.1`, is free. It is used by the two modules that name nodes.
- `GenericProofs`, about `Siblings`. `NamesUniqueCorrect` holds for any number of
  threads. It needs to know of a node whose name is not visible yet that the
  children with that name crossed it (`PendingFresh`): the name was free when
  it was chosen (`SanitizedIsFresh`), and whoever got it since has been recorded.
  With one thread nothing is ever recorded (`NothingCrossed`), from which
  `SingleThreadedNamesUnique` follows: no two children share a name, whatever
  the sequence of edits. `ChildrenTypeCorrect` holds for any number of threads.
- `GenericProofs`, about `ParameterValue`. `ListenersAgreeCorrect`,
  `LinkedFollowsCorrect` and `RegistrationsMatchCorrect` follow from one
  invariant, `ValueInv`, proved in `ValueInvCorrect`, for any finite set of
  parameters with acyclic links, any queues, threads, repetition filters and
  muted parameters. None of the three is inductive: each holds because of what
  the threads are in the middle of. The stack of a thread is a chain of sends
  that push to each other along links (`CallsNest`); a send under way holds the
  mutex of its parameter and is the only one (`MutexHeld`), hence the last one
  (`SendsCurrent`), and the queues that it has not called yet have heard of
  earlier ones only, so that every queue hears in the order of the sends
  (`HeardInOrder`). Callbacks and registrations correspond (`CallbacksKnown`,
  `RegistrationsCalled`), and so do the callbacks that a send has left to call,
  since `add_callback` and `remove_callback` wait for its mutex (`TodoKnown`).
  For a link that alone pushes to its second parameter (`LinksFollow`): the send
  of the first parameter holds its mutex, so at most one push is under way
  (`Pusher`, `OnePush`); from the store to the push the previous value is the
  one that was sent, so that the filter, which compares stored values, drops a
  value only if it was sent before; and if no push is under way or still to
  come, the value is the last one notified. `LinksAcyclic` is used only to tell
  the two ends of a link apart: a cycle is a matter of liveness.
- `MirrorPullProofs`. `TypeCorrect` holds whatever the network does, and so does
  `PromiseKeptCorrect`, since identities of promises grow with the calls and the
  queue holds only those not kept (`KeptInv`).
  `PullInOrderIsCorrect` assumes answers in order, no failure, no `request`:
  the queue of promises follows the network entry by entry
  (`QueueFollowsNetwork`), promises are in the order of the calls, and a
  waiting pull has the last one (`WaitingIsLast`), so that when it is kept the
  queue is empty and nothing can overwrite the value before the return. The
  violation `pull_overtaken` shows that the order is needed.

- `MirrorSyncProofs`. `EventsTellAllCorrect` needs that paths above a node are
  in the tree and that a node being removed is not (`ServerInv`), and that the
  event of an edit is still one that can be sent when its signal comes (`Proper`).
  `MirrorIsPastCorrect` and `UpToDateCorrect` assume `~ReuseNames`. The invariant
  `SyncInv` says that the queue is a chain: each event leads from what the one
  before tells to what it tells itself, from `base` to `told` (`ChainInv`); that
  a namespace answer holds what the events sent before it tell (`AnswerInv`);
  and that the mirror is `base` (`MirrorInv`). Equality with `base` is kept
  because sanitising a name twice among the same siblings changes nothing, which
  is where the assumption is needed. `ParametersArriveCorrect` follows from the
  same invariant. `UpdateIsRecentCorrect` has one of its own, without assumption:
  the answers in flight that may keep a promise made alone are not older than
  its call (`RecentInv`).
  `TypeCorrect` needs another view of the mirror: whether or not it is
  synchronised, its nodes are closed under prefixes (`MirrorTree`), and so are
  the answers in flight below the path they were asked for (`AnswerTree`). Then
  a renaming to a name that no sibling has is injective (`RenamedApart`), so
  that `live` and `zombies` stay disjoint. A mirror that is not synchronised
  sanitises among nodes that the server does not have, and may number higher
  than the server: after `k` events by at most `k` (`Reach`), and only events
  below `MaxEvents` rename (`QueueInv`). The hypothesis `Modest`
  (`MaxInstance + MaxEvents <= IntMax`, true of the run) excludes signed overflow.
- `MirrorConnectionProofs`. `ThreadsJoinedCorrect` and `HasWSHonestCorrect` assume
  `Careful`. `ConnInv` relates the place of each thread to the flags. The
  interesting part is `SecondTryInv`: unless `init` has given up, the first
  `query_stop` leaves no open connection to the second one, which therefore does
  not throw, and the join is not skipped. After an `init` that gave up the join
  may be skipped, and is made up for by `stop` or the destructor.
- `QueryServerProofs`. `RecordsMatchCorrect`: both moves of a record keep the
  connection and the socket together, and between `find_client` and the use of
  its pointer the websocket thread, which alone adds and erases until `stop`,
  does nothing else (`ClientsInv`). On top of it:
  `NothingMissedCorrect` from `DeliveryInv`, which counts the deliveries of every
  open client; the walk under way owes one message to those whose record it
  has not reached, and holds the mutex, so that no record is added or moves
  across its position;
  `RequestsServedCorrect` from `RequestsInv`: the queued requests are the last
  ones, in order, and each older one has been told to the clients that were
  connected (`Told`), or is told by the walk under way;
  `EchoExactCorrect` from `EchoInv`: as long as the records that a walk goes over
  are those of now (`Current`), what it has sent is what it has visited
  (`Visited`). A walk whose records another thread changed never becomes
  `done`, and the property says nothing of it.
- `NodeTreeProofs`. An address is a recursion up the tree
  (`osc_parameter_string`), and the tree is known only as parent pointers. The
  invariant `Tree` says, node by node, that the parent is alive or the root, that
  the cached address is the parent's and the name, and that siblings differ.
  `Least` (a non-empty set of naturals has a least element) gives `TreeInduction`:
  a set of nodes that contains the children of the root and the children of
  its members contains all nodes, since an exception with the shortest cached
  address would have an exception as its parent. From it follow that
  addresses are distinct (`AddressesDistinct`), that the recursion computes the
  cache (`CacheIsPath`), and what `set_name` does to a subtree
  (`RenamedSolves`, `SubtreeShape`). `AddressCacheFreshCorrect` and `TypeCorrect`
  hold for both protocols and every renaming. `TableIsExactCorrect`,
  `ListenedIsNotifiedCorrect` and `DeliveredToItsAddressCorrect` assume `Supported`,
  the oscquery protocols without renaming of inner nodes: `osc_protocol` is not
  told of renamings, and when an inner node is renamed the entries below it
  keep their old addresses, which is what the violation `parent_rename` shows.
  The invariant for the table adds that only live parameters have callbacks
  (`Owned`).

Assumptions on constants are named where the constants are declared. They say
that bounds are naturals, flags Booleans and special values distinct; of
`Start` that it is a tree, of `Wanted` that its names are within the bounds, which
are below the largest int; of `Links` that they are acyclic, between finitely many
parameters.

The inductive invariants that are new to the proofs were checked by TLC on the
instances of the runs before they were proved. `IInv` of `RateLimiter` and of
`MirrorPull` are stated in their modules.

Only model-checked:

- liveness (`EventuallyForwarded`, `RemovedIsForgotten`, `DestructorReturns`,
  `PullSucceeds`, `PullReturns`, `Converges`, `StopReturns`, `StreamingStarts`,
  `DisconnectNotified`, `AllReturn`) and the fairness part of the refinement of
  `LatestValue`, which are out of the prover's reach;
- what is outside of the hypotheses: `MirrorSync` with `ReuseNames`, `NodeTree`
  with `osc_protocol` or renamed inner nodes, where the properties are false.

## Plan

1. Proofs: the tables of `osc_protocol` when nothing is renamed.
2. Learning mode of `osc_protocol`, multiplex protocol, `disable_callback`.
3. Pure algorithms: expansion of address patterns, clamp, wrap and fold on
   integers.

## Not modelled

Values as numbers, with their conversions, domains and units: floating point
functions without control. JSON as text, presets, regular expressions of paths
and zeroconf: conversions and services. `local` and `multiplex` protocols
forward each call to a list of protocols, and alias nodes to another node;
neither adds control to what they forward to. Access to a container that
another thread is changing (the vector read by `set_name`, the table of
listened parameters after its lock is released, a walk of the clients without
the mutex) is undefined behaviour: the models end such a step or exclude it,
and the hazards say where. `set_device` on a second device has no caller in the
repository. Most files of the repository are vendored headers (boost and others)
or generated variants, which hold no logic of this program.
