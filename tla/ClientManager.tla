--------------------------- MODULE ClientManager ---------------------------
(***************************************************************************)
(* The event loop of the gateway (src/core/client_manager.cpp, called from *)
(* src/main.cpp): select, accept at most one connection, read once from    *)
(* every client reported readable, then one pass over the token streams.   *)
(* The loop runs on one thread; between two of its system calls the        *)
(* clients connect, send and hang up, and the producer of tokens calls in. *)
(* A signal has no effect here: its handler sets a flag that main.cpp    *)
(* reads after client_manager_run has returned, which it never does, and a *)
(* select that is interrupted is called again.                             *)
(*                                                                         *)
(* TaskManager::start is commented out in main.cpp, so the input queue is  *)
(* filled here and emptied nowhere.  What registers a request with its     *)
(* client is external: the loop leaves a place for it (line 104), and the  *)
(* model has it register there or not.                                     *)
(* A send to a client that has hung up is taken as lost; that a second one *)
(* may end the program by SIGPIPE is left out here.                        *)
(***************************************************************************)
EXTENDS Naturals, Sequences, FiniteSets, SequencesExt

CONSTANTS Conns,           \* clients, each with one connection at a time
          Fds,             \* descriptors; accept is given the lowest free one
          Ids, nullptr,
          BufferedIds,     \* ids that callers register as TokenStream says
          MAX_CLIENTS, MAX_TASKS,
          MaxTokens,       \* bound on the tokens produced for one id
          MaxUnread        \* bound on the pieces the socket buffers hold

\* There is a descriptor for every place in the list, so accept never fails for
\* want of one: a process usually may hold 1024, and MAX_CLIENTS is 512.
ASSUME LoopAssumption == /\ Fds \subseteq Nat /\ IsFiniteSet(Fds)
                         /\ MAX_CLIENTS <= Cardinality(Fds)
                         /\ MAX_CLIENTS \in Nat \ {0}
                         /\ MAX_TASKS \in Nat \ {0}
                         /\ MaxTokens \in Nat
                         /\ MaxUnread \in Nat
                         /\ BufferedIds \subseteq Ids

VARIABLES
    \* the kernel's side of the sockets
    backlog,       \* connections completed but not accepted, in order
    conn,          \* client -> the state of its connection
    fd,            \* client -> the gateway's descriptor for its connection
    hungup,        \* clients that have hung up
    unread,        \* client -> how many pieces of its requests are not yet read
    \* the event loop
    clients,       \* the descriptors in ClientList; all have connected = true
    ready,         \* what select reported: client descriptors ...
    listening,     \* ... and whether listen_fd is among them
    pc, i,
    input_queue,   \* TaskManager::input_queue: how many requests are in it
    \* the token streams
    token_map, client_requests, cursor, served, produced, ended, rewound, sent

kernelVars == <<backlog, conn, fd, hungup, unread>>
loopVars   == <<clients, ready, listening, pc, i, input_queue>>
streamVars == <<token_map, client_requests, cursor, served, produced, ended, rewound, sent>>
vars       == <<kernelVars, loopVars, streamVars>>

T == INSTANCE TokenStream WITH Clients <- Fds

ASSUME NullAssumption == nullptr \notin T!TokenList

Init == /\ backlog = <<>>
        /\ conn = [c \in Conns |-> "none"]
        /\ fd = [c \in Conns |-> nullptr]
        /\ hungup = {}
        /\ unread = [c \in Conns |-> 0]
        /\ clients = <<>>
        /\ ready = {}
        /\ listening = FALSE
        /\ pc = "select"
        /\ i = 0
        /\ input_queue = 0
        /\ T!Init

----------------------------------------------------------------------------
Open == {c \in Conns : conn[c] = "open"}

OpenFds == {fd[c] : c \in Open}

ConnAt(s) == CHOOSE c \in Open : fd[c] = s

\* recv would return at once: with data, or with 0 after the client hung up.
Readable(s) == unread[ConnAt(s)] > 0 \/ ConnAt(s) \in hungup

\* The clients and the kernel --------------------------------------------------
connect(c) ==
    /\ conn[c] = "none"
    /\ conn' = [conn EXCEPT ![c] = "queued"]
    /\ backlog' = Append(backlog, c)
    /\ hungup' = hungup \ {c}
    /\ unread' = [unread EXCEPT ![c] = 0]
    /\ UNCHANGED <<fd, loopVars, streamVars>>

\* One more piece of a request, which may be all of it, has arrived.
sendRequest(c) ==
    /\ conn[c] \in {"queued", "open"} /\ c \notin hungup
    /\ SumFunction(unread) < MaxUnread
    /\ unread' = [unread EXCEPT ![c] = @ + 1]
    /\ UNCHANGED <<backlog, conn, fd, hungup, loopVars, streamVars>>

hangUp(c) ==
    /\ conn[c] \in {"queued", "open"} /\ c \notin hungup
    /\ hungup' = hungup \cup {c}
    /\ UNCHANGED <<backlog, conn, fd, unread, loopVars, streamVars>>

\* The producer of tokens, on whatever thread it runs.
produce(id) ==
    /\ \/ T!addToken(id)
       \/ T!addNullToken(id)
       \/ T!markTokenStreamFinished(id)
       \/ T!resetOutput(id)
    /\ UNCHANGED <<kernelVars, loopVars>>

----------------------------------------------------------------------------
\* Mutants of the actions below, each a plausible slip in client_manager.cpp.
acceptWithoutClose ==
    /\ pc = "accept"
    /\ LET s == Min(Fds \ OpenFds) IN
         /\ conn' = [conn EXCEPT ![Head(backlog)] = "open"]
         /\ fd' = [fd EXCEPT ![Head(backlog)] = s]
         /\ clients' = IF Len(clients) < MAX_CLIENTS THEN Append(clients, s) ELSE clients
    /\ backlog' = Tail(backlog)
    /\ pc' = "read"
    /\ i' = Len(clients')
    /\ UNCHANGED <<hungup, unread, ready, listening, input_queue, streamVars>>

acceptOneTooMany ==
    /\ pc = "accept"
    /\ IF Len(clients) <= MAX_CLIENTS
       THEN LET s == Min(Fds \ OpenFds) IN
              /\ conn' = [conn EXCEPT ![Head(backlog)] = "open"]
              /\ fd' = [fd EXCEPT ![Head(backlog)] = s]
              /\ clients' = Append(clients, s)
       ELSE /\ conn' = [conn EXCEPT ![Head(backlog)] = "none"]
            /\ UNCHANGED <<fd, clients>>
    /\ backlog' = Tail(backlog)
    /\ pc' = "read"
    /\ i' = Len(clients')
    /\ UNCHANGED <<hungup, unread, ready, listening, input_queue, streamVars>>

receiveAndStay(c) ==
    /\ pc = "read" /\ i > 0 /\ clients[i] \in ready /\ c = ConnAt(clients[i])
    /\ \E n \in 1 .. unread[c] : unread' = [unread EXCEPT ![c] = @ - n]
    /\ UNCHANGED <<backlog, conn, fd, hungup, loopVars, streamVars>>

selectClientsFirst ==
    /\ pc = "select"
    /\ ready' = {s \in Range(clients) : Readable(s)}
    /\ listening' = (backlog # <<>> /\ ready' = {})
    /\ listening' \/ ready' # {}
    /\ pc' = IF listening' THEN "accept" ELSE "read"
    /\ i' = Len(clients)
    /\ UNCHANGED <<kernelVars, clients, input_queue, streamVars>>

skipToFirst ==
    /\ pc = "read"
    /\ i > 1 => clients[i] \notin ready
    /\ IF i <= 1 THEN pc' = "tokens" /\ ready' = {} /\ listening' = FALSE /\ UNCHANGED i
                 ELSE i' = i - 1 /\ UNCHANGED <<pc, ready, listening>>
    /\ UNCHANGED <<kernelVars, clients, input_queue, streamVars>>

----------------------------------------------------------------------------
\* client_manager_run ----------------------------------------------------------
\* There is no timeout: the thread sleeps until a socket has something for it.
select ==
    /\ pc = "select"
    /\ ready' = {s \in Range(clients) : Readable(s)}
    /\ listening' = (backlog # <<>>)
    /\ listening' \/ ready' # {}
    /\ pc' = IF listening' THEN "accept" ELSE "read"
    /\ i' = Len(clients)
    /\ UNCHANGED <<kernelVars, clients, input_queue, streamVars>>

\* One connection per round; it is closed at once when the list is full.
accept ==
    /\ pc = "accept"
    /\ IF Len(clients) < MAX_CLIENTS
       THEN LET s == Min(Fds \ OpenFds) IN
              /\ conn' = [conn EXCEPT ![Head(backlog)] = "open"]
              /\ fd' = [fd EXCEPT ![Head(backlog)] = s]
              /\ clients' = Append(clients, s)
       ELSE /\ conn' = [conn EXCEPT ![Head(backlog)] = "none"]
            /\ UNCHANGED <<fd, clients>>
    /\ backlog' = Tail(backlog)
    /\ pc' = "read"
    /\ i' = Len(clients')
    /\ UNCHANGED <<hungup, unread, ready, listening, input_queue, streamVars>>

\* Every client has been visited, or this one was not reported.  The FD_ZERO of
\* the next round is drawn forward to the end of the walk.
skip ==
    /\ pc = "read"
    /\ i > 0 => clients[i] \notin ready
    /\ IF i = 0 THEN pc' = "tokens" /\ ready' = {} /\ listening' = FALSE /\ UNCHANGED i
                ELSE i' = i - 1 /\ UNCHANGED <<pc, ready, listening>>
    /\ UNCHANGED <<kernelVars, clients, input_queue, streamVars>>

Reading(c) == pc = "read" /\ i > 0 /\ clients[i] \in ready /\ c = ConnAt(clients[i])

\* TaskManager::pushRequest: a full queue drops the request without a word.
pushRequest == input_queue' = IF input_queue < MAX_TASKS THEN input_queue + 1 ELSE input_queue

\* recv has returned what there was, up to the length of its buffer: a part of a
\* request, one request, or more than one.  It is taken for one request, and if
\* it does not parse it is ignored; no part is kept for the next recv.
receive(c) ==
    /\ Reading(c)
    /\ \E n \in 1 .. unread[c] : unread' = [unread EXCEPT ![c] = @ - n]
    /\ \/ UNCHANGED <<input_queue, streamVars>>
       \/ /\ pushRequest
          /\ \/ UNCHANGED streamVars
             \/ \E id \in Ids : T!registerRequest(clients[i], id)
    /\ i' = i - 1
    /\ UNCHANGED <<backlog, conn, fd, hungup, clients, ready, listening, pc>>

\* recv has returned 0 or an error, which may discard unread data.  c is a
\* reference into the list: after the erase it denotes the client that moved
\* into slot i or, if slot i was the last, what the slot held before.
disconnect(c) ==
    /\ Reading(c)
    /\ c \in hungup
    /\ conn' = [conn EXCEPT ![c] = "none"]
    /\ fd' = [fd EXCEPT ![c] = nullptr]
    /\ unread' = [unread EXCEPT ![c] = 0]
    /\ clients' = RemoveAt(clients, i)
    /\ LET socket_fd == IF i \in DOMAIN clients' THEN clients'[i] ELSE clients[i]
           gone      == {k \in DOMAIN client_requests :
                           client_requests[k].client_socket = socket_fd}
       IN  client_requests' = T!Erased(client_requests, gone)
    /\ i' = i - 1
    /\ UNCHANGED <<backlog, hungup, ready, listening, pc, input_queue,
                   token_map, cursor, served, produced, ended, rewound, sent>>

client_manager_process_pending_tokens ==
    /\ pc = "tokens"
    /\ T!Pass
    /\ pc' = IF cursor' = 0 THEN "select" ELSE "tokens"
    /\ UNCHANGED <<kernelVars, clients, ready, listening, i, input_queue>>

Loop == \/ select
        \/ accept
        \/ skip
        \/ \E c \in Conns : receive(c) \/ disconnect(c)
        \/ client_manager_process_pending_tokens

----------------------------------------------------------------------------
Next == \/ Loop
        \/ \E c \in Conns : connect(c) \/ sendRequest(c) \/ hangUp(c)
        \/ \E id \in Ids : produce(id)

Spec == Init /\ [][Next]_vars

\* The loop's thread runs whenever select lets it; nothing else in it blocks.
LiveSpec == Spec /\ WF_vars(Loop)

----------------------------------------------------------------------------
TypeOK == /\ T!TypeOK
          /\ backlog \in Seq(Conns)
          /\ conn \in [Conns -> {"none", "queued", "open"}]
          /\ fd \in [Conns -> Fds \cup {nullptr}]
          /\ hungup \subseteq Conns
          /\ unread \in [Conns -> Nat]
          /\ clients \in Seq(Fds)
          /\ Len(clients) <= MAX_CLIENTS
          /\ ready \subseteq Fds
          /\ listening \in BOOLEAN
          /\ pc \in {"select", "accept", "read", "tokens"}
          /\ i \in 0 .. MAX_CLIENTS
          /\ input_queue \in 0 .. MAX_TASKS

\* Each open connection is in the list once, and the list holds nothing else:
\* no descriptor leaks when the list is full, and none is read after it was
\* closed, although entries go while the list is being walked.
ListIsOpenSockets ==
    /\ Range(clients) = OpenFds
    /\ Len(clients) = Cardinality(Open)

\* What select reported still holds when the loop comes to read: a client it
\* has yet to visit and that was reported ready has something to return, so
\* the loop's one recv per client does not mistake silence for a hang-up.
ReadyStaysReady ==
    pc = "read" => \A k \in 1 .. i : clients[k] \in ready => Readable(clients[k])

\* "Clean up the request mappings that belong to it" (client_manager.cpp:92):
\* a mapping names a client that is still there.
MappingsFollowClients ==
    \A k \in DOMAIN client_requests : client_requests[k].client_socket \in OpenFds

\* Whoever connects is served or turned away, however busy the others are.
QueuedIsAnswered == \A c \in Conns : conn[c] = "queued" ~> conn[c] # "queued"

\* A client that hangs up loses its slot in the end.
HangUpIsNoticed == \A c \in Conns : conn[c] = "open" /\ c \in hungup ~> conn[c] = "none"

============================================================================
