# Verification of the embedded gateway

TLA+ models of the gateway in `src/`, the TLC runs that check them on small
instances, and theorems checked by TLAPS.  Paths below are relative to the
repository (`core/` stands for `src/core/`, `infer/` for the directory beside
it); line numbers are those of this commit.

## The system and its parts

The gateway accepts clients over TCP, turns the JSON they send into requests,
and is meant to pass them to NPU nodes and stream the answers back.

| Part | Code | State | Operations |
|---|---|---|---|
| task pool | `core/task_cache.*`, `core/task_context.h` | `task_cache_` (id to heap pointer), the heap, `cache_mutex_` | createTask, getTask, updateTaskStatus, completeTask, getTasksByStatus, getSize, isFull |
| task queues | `core/task_queue.*` | `pending_queue_`, `processing_queue_`, a mutex each | addTo..., getNext..., removeFrom... for either |
| task interface | `core/task_manager.*` | none of its own; calls pool and queues | createTask, getNextPendingTask, getTask, completeTask, failTask, three counts |
| request and response queues | `core/task_manager.*` | `input_queue`, `output_queue`, `running`, two threads; no lock | start, stop, pushRequest, pushResponse, popFinishedResponse, taskLoop, responseLoop |
| token lists | `core/task_manager.*`, `core/client_manager.cpp` | `token_map_`, one TokenList per id; `client_requests`; no lock | addToken, markTokenStreamFinished, getTokenList, clearTokenList, resetOutput, client_manager_process_pending_tokens |
| event loop | `core/client_manager.*`, `main.cpp` | `listen_fd`, `clients`, `client_requests` | client_manager_init, _run, _close_all |
| NPU nodes | `core/npu_node_manager.*` | `npu_nodes`, `g_task_mgr` | npu_add_node, npu_close_all, npu_send_to_node, npu_poll_receive, npu_set_task_manager, npu_forward_token |
| ring buffer | `common/data_structures.h:10-48` | `data`, `head`, `tail`, `size` | push, pop |
| response and client message caches | `common/data_structures.h:194-349` | a ring buffer of pointers to allocated messages | addResponseData, getNextResponse, addMessage, getNextMessage, clearMessages, destructors |
| JSON messages | `core/message_handler.*`, `core/json_utils.*`, `core/task_context.*`, `infer/infer_utils.h` | the fields of a Message, of a TaskContext, of an InferRequest | builders, parsers, dump |
| inference bridge and engine | `infer/` | sockets of two processes | connect, recv, send, accept, close |
| examples | `examples/` | receive buffers, the node's heartbeat thread | a client and an NPU node |

How they interact.  `main` creates one TaskManager and enters
`client_manager_run`, which calls `pushRequest` for each request it can parse
and the token pass once per round, on one thread.  `npu_poll_receive` calls
`pushResponse`.  `taskLoop` and `responseLoop` are threads of their own.  The
task interface is there for several threads: its parts lock, its calls do not.
Between the processes there are only stream sockets.  In this commit much is
not connected: `start` is commented out (`main.cpp:21`), nothing calls the task
interface, `npu_send_to_node`, `npu_set_task_manager`, `resetOutput`, or
anything that fills `client_requests`.  The models therefore take such callers
as open: any order of legal calls, restricted only by constants that are named
and explained.

What is hard here:

* calls made of several critical sections, with writes through bare pointers in
  between (`task_manager.cpp:106-150`);
* queues that two threads use without a lock (`:36-67`);
* a token list whose one pointer means both "nothing yet" and "all sent";
* an event loop that changes the list it walks and uses descriptors reported
  before other descriptors were closed;
* stream sockets: a recv that returns half a text or two, a peer that is gone,
  SIGPIPE, which no program here handles;
* capacities whose refusals the callers ignore.

## Modules

| Module | Models | State and actions against the code |
|---|---|---|
| `TaskQueue` | class TaskQueue | one action per member function, as each holds its mutex for the whole body; the result is the last parameter |
| `TaskCache` | class TaskCache | likewise; `heap` maps addresses to tasks or `Freed`, so a pointer can outlive its task and an address can come back |
| `TaskManager` | the task interface | INSTANCEs both; `pc`, `task`, `request_id` are a thread's place in a call and its locals, one action per critical section or unlocked write |
| `TaskLifecycle` | what the pool promises | the abstract specification: ABSENT, PENDING, PROCESSING, COMPLETED or FAILED, ABSENT; at most MAX_TASKS at a time |
| `TokenStream` | token lists and the pass over the mappings | `output_ptr` is a position, 0 for null; one turn of the loop of the pass is `serve` (look up, send one token) and `endTurn` (delete what is finished), and the producer may run before, between and after them |
| `ClientManager` | the event loop | INSTANCEs TokenStream; `pc` and `i` are the loop's place; `backlog`, `conn`, `fd`, `hungup`, `unread` are the kernel's; a recv takes any part of what is unread |
| `GatewayQueues` | the two queues and their threads | test, front and pop of a queue are three actions; main's calls of start, stop, push and popFinishedResponse |
| `SimpleQueue`, `BoundedFifo` | the ring buffer, and what it promises | one action per call |
| `ByteStream` | stream sockets | a text is two halves: recv can see a part, one text, or more than one |
| `MessageCaches` | ResponseMessage and ClientMessageCache over the ring buffer | EXTENDS SimpleQueue with T the set of addresses; `live` is the heap, `held` what the caller must free; one action per call, the destructor one element at a time |
| `NpuNodes` | the node list, the gateway's side | one action per function, npu_send_to_node by the state of the connection (up, hung up, reset, broken); npu_poll_receive goes node by node |
| `NodeLink` | the node list with the example node at the other end | EXTENDS NpuNodes; `message_data` is the node's receive buffer, `sending` the texts it has yet to send, one action per turn of its two loops |
| `InferBridge` | bridge and engine | `bridge` and `engine` are the two programs' places in their code; the bridge connects to the server, then to the engine, whose listen queue may be full; one connection per life of the bridge |
| `MessageCodec` | builders and parsers, the engine's parser, the JSON form of a TaskContext | a text is a function from keys to typed values; reading, building and dumping are operators; an object has the class that says which functions take it |

`MC...` modules give TLC its constants.  `...Proofs` modules hold the theorems.
Below `Mutants of the actions below` each module keeps a few faulty variants of
its own operators; they are used in no specification and show, one for each
property, that the property notices a slip in the code it is about.

Constants that restrict callers, and properties that depend on them:

* `UniqueIds`, `FinishDispatchedOnly` (TaskManager): no second task is created
  for an id that is in the pool; a task is finished only by a caller who got it
  from getNextPendingTask, and once.  Without the first, a task leaks; without
  the second, see the finding on `failTask`.  `CallsTypeCorrect` and
  `EntriesStayLive` need neither.
* `BufferedIds` (TokenStream, ClientManager): the ids whose stream is finished,
  then rewound, then registered.  For all others any order is allowed; the runs
  of the event loop leave it open for every id.
* `resetOutput` is called once for a list at most (TokenStream, ClientManager).
  `task_manager.h:99-102` would rewind it again, and send every token again; no
  caller exists.

## Runs

| Run | Bounds | What it shows |
|---|---|---|
| `manager` | 2 threads, 3 ids, 3 addresses, pool of 3, queues of 2 | no interleaving of the calls writes through a deleted pointer, erases another entry than it found, loses or duplicates a task or lets one overtake another; the queues hold what their names say; the calls implement TaskLifecycle; a queued task is finished |
| `manager_early_finish` | 1 thread, 3 ids, 3 addresses, pool of 2, queues of 2 and 1; callers may fail a waiting task | violated: getNextPendingTask writes through the pointer of a deleted task |
| `tokens` | 2 ids (one buffered), 2 clients, 2 mappings, 2 tokens per id | tokens in order and once; a finished stream with a listener is deleted; a buffered one only when all is sent |
| `tokens_streaming` | 1 id, not buffered | violated: a list is deleted with unsent tokens, here before it is rewound |
| `loop` | 3 clients, 2 places, 3 descriptors, 2 pieces of requests unread | list and open sockets agree; readable means readable; everyone is answered; who hangs up is removed |
| `loop_mappings` | 2 clients, 2 places, 1 token | violated: mappings outlive their client |
| `queues` | queues of 2, 3 pushes to each | threads follow `running`; items leave once and in order; stop returns |
| `caches` | size 3, 5 addresses | no message is freed twice or used after its free; only what a full queue refuses is leaked; the ring buffer below implements BoundedFifo |
| `nodes` | 2 places, 3 descriptors, 3 texts from nodes, 3 halves on the way to nodes | the list is the open sockets; pushed responses are whole, once, in order; a node runs only tasks whose send returned true, in order and once, and none behind a text that was sent in part |
| `bridge` | 3 lives of the bridge, 3 requests | answers in order and once; the engine ends only if the bridge was killed; nobody waits for ever |
| `bridge_forward` | 1 life, 2 requests | violated: the bridge's second send meets a closed connection |
| `codec` | 1 content, 2 reads of one object | fields keep their types whatever peers send; reading undoes building and dumping; the engine's parser and the gateway's find the same request in what the gateway writes |

Why the bounds are enough.  Every race in TaskManager is between a call and one
other that runs between two of its steps, so two threads show it; three tasks
let a queue of two be full while the pool is not, and removeFromQueue find its
target in front, behind, or not at all.  Two tokens make a list have a first, a
last, and a token that comes after the pointer has passed the tail; two clients
let two mappings draw on one list.  Three clients for two places let one be
turned away or wait, and let an entry be erased in front of another; a
descriptor to spare lets a number be used again.  Two places with three pushes
fill, drain and refill a queue.  Three texts from two nodes let a stream be cut
inside, between and across texts: a status, a heartbeat and an answer.  Three
halves to a node are a part of a text and then a whole one, which is how texts
stick together and why a retry is lost.  Two pieces of requests let a recv take
one and leave one, or take both.  Five addresses for a queue of three let it fill and wrap, turn
something away, and leave a copy and a caller's message beside it.
Three lives let the engine meet the leftovers of one life while another waits,
and fill its listen queue.  TLC ends all of these runs exhaustively; `loop` and
`nodes` take one to three minutes, the others less.

`CHECK_DEADLOCK FALSE` stands where the programs really end: `nodes` (SIGPIPE),
`bridge` (the bridge stops with its server, or is killed) and `caches` (the
object is destroyed and the caller has freed what it had).

### Fairness

* TaskManager: a step of a call waits for a mutex at most, and each holder gives
  it back, so each thread's steps are weakly fair.  That tasks are fetched and
  finished is up to the callers, who are external; it is assumed strongly fair,
  since pending work comes and goes as seen by one caller.  Calls of createTask
  are not assumed.
* TokenStream: a pass that has begun ends, as its sockets do not block.  That
  passes keep beginning is a hypothesis of FinishedIsDeleted, not an assumption:
  the event loop sleeps in select without a timeout.
* ClientManager: the loop's thread runs when select lets it.  Clients owe
  nothing.
* GatewayQueues: the two loops poll and sleep but never block; the caller's
  thread comes back from the calls it has begun, and need not begin any.
* InferBridge: each process runs when its call can return.  Crashes, requests
  and restarts are not assumed.

## Findings

Four runs end in a violation of what a comment says; PROJECT.json quotes each.

* `manager_early_finish`: failTask and completeTask look in the processing queue
  only.  On a task that still waits they leave its pointer in the pending queue
  and delete it; the next getNextPendingTask writes through it, and there the
  trace ends.
* `tokens_streaming`: isCompletelyFinished takes a null `output_ptr` for "all
  sent".  It is null before the list is rewound and, once it has passed the
  tail, while later tokens are appended.
* `loop_mappings`: after `clients.erase`, `c.socket_fd` is read from the slot
  that now holds the next client.
* `bridge_forward`: the engine closes the connection after one recv, answered or
  not, and the bridge keeps using it.  In the trace its second send is the rest
  of a request that came in two parts; with whole requests it is the second one.

Others, seen while modelling, which are one line long and need no run:

* client_manager_run never returns, so the signal flag (`main.cpp:7-11`),
  npu_poll_receive and the shutdown in main have no effect.
* With nothing on its sockets the loop sleeps while tokens wait
  (`client_manager.cpp:70`).
* createTask with an id in use returns a task that no map holds
  (`task_cache.cpp:21`); it is never deleted.
* The counts of pool and queues are read without the mutex that guards every
  change (`task_queue.cpp:49-63`, `task_cache.cpp:61-67`), so a statistic may see
  a queue half-way through removeFromQueue; in C++ terms it is a data race.
  Nothing asks for the statistics.
* A null token adds nothing to a list but makes one if there is none
  (`task_manager.cpp:69-79`); TokenStream has the call.
* npu_send_to_node returns true for the first send to a node that has gone, and
  for the retry of a text whose first send took a part, which the node never
  parses (`npu_node_manager.cpp:56-57`).
* popFinishedResponse and responseLoop race for the output queue (`GatewayQueues`
  has both; TakenInOrder does not hold for that queue when they meet), and
  responseLoop drops what it takes (`task_manager.cpp:62`).
* A response that recv splits, or returns together with another, does not parse
  and is dropped (`npu_node_manager.cpp:73`); a node that has hung up stays
  connected in the list, and keeps its slot.
* The example node parses all it has received as one text.  After two texts in
  one recv, or a task of which a send took only a part, nothing it reads parses
  again, and it answers no more (`npu_node_example.cpp:98`; in NodeLink
  `message_data` then only grows).
* The same node ends on the first task that asks for a stream, which is the
  default: it cuts a Chinese text into tokens of two bytes
  (`npu_node_example.cpp:131-134`), and json's dump throws for half a character.
* Both npu_add_node and the example node call connect; nothing accepts nodes.
  The example client dials port 8080 where main listens on 9000, and is sent bare
  tokens (`client_manager.cpp:136`) where `docs/json_protocol.md` has JSON.
* addResponseData and addMessage leak what a full queue refuses
  (`data_structures.h:238`, `:318`), below a comment that forbids copies "to
  prevent memory leaks" (`:218`, `:264`).
* For absent keys the engine assumes no tokens and no stream
  (`infer_utils.h:33-34`), the gateway 1000 and a stream
  (`message_handler.cpp:5`); and the engine answers any text, also a heartbeat.
* TaskContext::from_json resets absent scalars and keeps absent messages, and a
  scalar of the wrong type throws half-way (`task_context.cpp:47-57`).
* Some of this cannot be compiled as it stands: getNextMessage and
  ResponseTracker copy classes whose copy operations are deleted, the examples
  read protected members of Message, and task_context.h includes two headers
  that both define RequestMessage.
* The completion response names no client (`json_utils.cpp:99`), while
  `docs/json_protocol.md:43-52` shows it with `client_socket`.
* The documents call SimpleQueue thread-safe (`docs/项目结构图.md:137`); it has
  neither mutex nor atomics.

## Theorems

All of them hold for every value of the constants that satisfies the named
assumption of the module.  These say: capacities and bounds are natural numbers
(positive where the code has an array), descriptors are natural numbers,
`nullptr` is no id, address or list, and ClientManager's `Fds` is finite and has
a descriptor for every place in the list (`client_manager.h:6` has 512 places, a
process usually 1024 descriptors).  The invariant behind each theorem was
checked with TLC on the bounds of the module's run before it was proved.

| Proof module | Theorems about runs' properties | Others |
|---|---|---|
| `TaskManagerProofs` | TypeCorrect, OwnershipHolds, NoWriteDangles, ErasesWhatItFound, PendingQueueIsPending, ProcessingQueueIsProcessing, OnePlaceEach, NoTaskOvertakes, LifecycleImplemented | CallsTypeCorrect, EntriesStayLive, NoTaskLeaks, PlacesHold, UsesTaskQueue; CacheSound for class TaskCache alone; QueuesTyped and OrderOfQueues for class TaskQueue alone |
| `TokenStreamProofs` | TypeCorrect, OrderOnce, BufferedSent | |
| `ClientManagerProofs` | TypeCorrect, SocketsListed, ReadyStays | LoopHolds, TokensInOrder, TokensSentFirst, DisconnectErases, MappingsFollow, OneClientIsLast |
| `GatewayQueuesProofs` | TypeCorrect, ThreadsFollow, OrderKept | JoinInvHolds |
| `MessageCachesProofs` | TypeCorrect, NothingFreedTwice, NothingLeaksUnlessFull, CachesKeepOrder | FifoImplemented: the ring buffer implements BoundedFifo |
| `NodeLinkProofs` | TypeCorrect, ListMatchesSockets, PushesInOrder, NodesRunConfirmed, NothingRunsAfterPart | |
| `InferBridgeProofs` | TypeCorrect, EngineOutlives, AnswersOrdered | OneAnswerEach |
| `MessageCodecProofs` | TypeCorrect, RoundTripHolds, ParsersAgreeHolds | ObjectHolds, TextsHold |

Three conditions narrow some of them: UniqueIds and FinishDispatchedOnly for what
follows from `Ownership` in TaskManager, membership in BufferedIds for
BufferedSent and TokensSentFirst, and `LastLeaves` (whoever hangs up is the last
of the list) for MappingsFollow.  They are in the statements.  Without
FinishDispatchedOnly, BufferedIds and LastLeaves the runs that end in a violation
show the properties broken; UniqueIds is explained with the constants above.

### The arguments

`TaskManagerProofs`.  NoDanglingWrite is not inductive: that a thread's pointer
is live says nothing of who else may delete the task.  `Ownership` says it: each
task of the heap is the pool's entry for its id (`PoolOwnsHeap`), and exactly
one party may act on it next: the pending queue (`QueueOwns`), one thread inside
a call (`ThreadOwns`), or the caller it was handed to (`CallerOwns`).  Every step
hands a task from one party to the next, and only the owner writes or deletes
it; that is why the writes without a lock are harmless.
Ownership leaves out the processing queue, since nothing is done on account of
what is in it.  ExactlyOnePlace needs it, so `PlaceInv` adds three parts: what is
tracked is dispatched or being finished, and tracked once (`TrackedOwned`); the
status follows the owner's place in its call (`StageFollows`); no task of the
pool is without an owner (`NothingLost`).  `LifecycleStep` then maps every step
to a step or a stutter of TaskLifecycle: queues, heap and addresses vanish, the
unlocked write of the status is the abstract step.  Types and order of the two
queues are shown of TaskQueue on its own (`QueuesTyped`, `OrderOfQueues`) and not
again: `UsesTaskQueue` says that the calls drive the queues as TaskQueue allows.
`CacheSound` is about class TaskCache under every sequence of its calls; its
capacity part counts: a call adds one key, after isFull has found room.

In TaskQueue, removeFromQueue drains the queue and refills it.  The loop is a
recursive function over the number of turns; `RemovalRecurrence` derives its
recurrence from the existence of such a record (`TempQueueExists`), and
`RemovalKeepsOthers` gives the increasing map from the places after to the
places before (`Survives`), which is all that order needs.

`TokenStreamProofs`.  InOrderOnce speaks of what was sent, not of why the next
token is newer.  `OrderOf` adds the reason: the tokens of a list ascend up to the
number produced; all that has been sent of an id is older than what the pointer
of its list comes to next, and than the whole list until that is rewound.
Deleting a list and making a new one keeps this, as production only counts up.
BufferedIsSent needs the order of the external calls besides: `BufferedOf` says
that the list of a careful id is complete before anybody asks for it, and that
what its pointer has passed was sent (`PassedIsSent`).  What the erasing loops
leave is `ErasedTyped` and, entry by entry, `ErasedLeaves`, by the same argument
as for removeFromQueue.

`ClientManagerProofs`.  ListIsOpenSockets follows from `SocketsInv`: descriptors
of open connections differ, and the list is a bijection between its places and
them.  accept keeps it because the backlog holds waiting connections only
(`BacklogInv`) and because a list with room means a free descriptor
(`FreeDescriptor`, by counting).  ReadyStaysReady needs `ReadInv`, which speaks
of connections instead of descriptors: between select and accept all that was
reported is open, so a descriptor handed out now was not reported; in the walk,
erasing place i moves only places above it, which have been visited.  The steps
of the streams are steps of TokenStream (`CallsOfStreams`) but for the erasing
of mappings on a disconnect, which falls between two passes (`CursorInv`) and
asks for no new id (`ErasingAsksNobody`); so `TokensInOrder` carries InOrderOnce
into the loop and `TokensSentFirst` BufferedIsSent: a list on which nobody draws
any more is kept, not deleted unsent.  For the latter TLC
checked BufferedIsSent on the bounds of `loop_mappings` with two tokens and the
id in BufferedIds, since the runs of the loop have no careful id.

`DisconnectErases` says of every reachable state what run `loop_mappings` finds
in one: a disconnect erases the mappings of the client that moved into the slot.
`MappingsFollow` is the converse of that finding: nothing else in the loop
separates mappings from their clients, and while each client that leaves is the
last of the list the property of that run holds, as it does with a list of one
place (`OneClientIsLast`).  Both were checked with TLC before, on the bounds of
that run and with the steps restricted to LastLeaves.

`GatewayQueuesProofs`.  `JoinInv` ties the caller's place in start and stop to
the two loops.  `TakeInv` says that what a thread has tested and copied is still
the front when it pops, as long as it is the only one that takes from the queue;
pushes go to the other end.

`MessageCachesProofs`.  The ring, read from `head` for `size` places, is the
queue of BoundedFifo; the lemmas on the modulo show what wrapping does to an
index.  `CacheInv` takes the types, OneOwner and NothingElseLeaks together, since
that a message handed out is not freed later needs both that the queue holds it
once and that no caller has it.

`NodeLinkProofs`.  `PushInv`: each node's stream is in order and later than
everything pushed from it.  `RunInv`: the stream to a node is a sequence of
pieces where a partly sent text is followed by its beginning again and no more
texts are whole than sends have returned true (`Streams`), and what the node has
run and holds is a prefix of it (`Reads`).  `ReadNext` is the heart: what parses is the
next confirmed task, wherever recv cuts.  NothingRunAfterPart follows, as a part
is never the next text.

`InferBridgeProofs`.  EngineSurvives follows from `Patient`: as long as nobody
kills the bridge, whoever waits for an answer is the present life and has not
been answered.  AnswersInOrder follows from `PipeInv`, which puts the places a
request passes through (answers taken, the bridge's way back, the connections
from the engine, the engine, the connections to it, the bridge's way forth, the
network) end to end in one line and says that this line is in order; every step
moves a piece along the line, takes some out, or adds a request at its end.  `OneAnswerEach` says of every
behaviour what run `bridge_forward` finds in one, that a connection to the engine
is good for one request: by counting (`AnswerInv`, checked with TLC on the bounds
of `bridge`), what the server has, what the bridge holds, what is in the stream
to it and what the engine still owes never exceed one answer for each life.

`MessageCodecProofs`.  TypeOK is not inductive: it says nothing of the text that
is read next.  `ObjectInv` adds that no text, not even one a peer got wrong, has
a value that was written under another key, so that reading keeps an object
well-formed (`ReadKeepsGood`).  `TextInv` relates text, object and where the text
came from: what a builder or a dump wrote (`Built`, `Dumped`), and that since a
read every value of the right type is in the object (`ReadFrom`).  RoundTrip then
follows key by key; that get_message_type finds the type that was written is
`OneType`, since a text has one type at most.  ParsersAgree compares the two
parsers on the keys a request has.  `ContextComesBack` is stronger than what the
run checks: context_from_json undoes context_to_json for every well-formed context and
whatever the object held before.

Induction.  The library's induction theorems take an operator, which no prover
here can instantiate; where an argument is by induction over the turns of a loop
the modules prove induction for a set of naturals from well-foundedness
(`SetInduction`) and cite that.

Only model-checked: the liveness properties (QueuedIsFinished,
FinishedIsDeleted, QueuedIsAnswered, HangUpIsNoticed, StopReturns,
BridgeComesBack, QueuedIsAccepted), as liveness and ENABLED are out of the
prover's reach.  Every safety property of a passing run is a theorem.

## Abstractions, and what is not modelled

* Of a task its id and status; of a message which keys it has, with which types;
  of a text two halves.  Time, logging and formatting are left out.
* Single operations of an unlocked container (a push, a front, a pop, an
  addToken) are atomic.  That they may tear is undefined behaviour; the models
  show what goes wrong even if they do not.
* accept in the event loop always gets a descriptor: `Fds` is assumed to hold one
  for every place in the list.
* The loop's `readfds` is cleared at the end of the walk instead of the start of
  the next round.  The input queue is a count there: nothing empties it.
* A send to a client that has hung up is lost (ClientManager); the SIGPIPE a
  second one raises is modelled for nodes and bridge only.
* A pass of the token loop asks for a list and sends in one step, and deletes in
  another; what a producer could do within either, it can as well do before or
  after it.
* Allocation succeeds, and so does client_manager_init: when it fails main goes
  on with a `listen_fd` of -1, and FD_SET of that is undefined
  (`client_manager.cpp:62`).
* A JSON number or Boolean of another type is taken to convert to nothing (json
  turns `true` into 1 for max_tokens in the engine).
* A start of the bridge that finds no server changes nothing and is left out;
  the engine's listen queue holds two connections (listen with a backlog of 1,
  as Linux counts).
* The statistics of TaskManager, and the getters behind them, are left out.
* Which side dials is left out of NodeLink; a node is there when npu_add_node
  is called.
* Not modelled: ResponseTracker, which copies what cannot be copied, and
  generate_request_id, a random number; the example client, whose receive loop
  is the node's and which never receives a text that parses; npu_forward_token,
  which is addToken behind a null check; the logger; gateway_server.* and
  inference_node_manager.*, which are empty or undefined.
  client_manager_close_all is never reached.

## What could come next

The gateway composed: socket buffers and SIGPIPE on token sends, and the
descriptor that pushResponse is given (`npu_node_manager.cpp:76`), once something
takes responses to clients.
