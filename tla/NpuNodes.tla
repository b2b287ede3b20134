------------------------------ MODULE NpuNodes ------------------------------
(***************************************************************************)
(* The connections to the NPU nodes (src/core/npu_node_manager.cpp): a     *)
(* list filled by npu_add_node, emptied by npu_close_all, written to by    *)
(* npu_send_to_node, and read by npu_poll_receive, which gives each node   *)
(* one recv and hands what parses as a response to the TaskManager.        *)
(*                                                                         *)
(* All of it runs on the gateway's main thread; the nodes send and hang up *)
(* at any time, also while npu_poll_receive walks the list.  What a node   *)
(* sends is in NodeLink, which puts the example node at the other end of   *)
(* each connection.  Nothing in the repository calls npu_set_task_manager  *)
(* or npu_send_to_node, so when they are called is left open.              *)
(*                                                                         *)
(* The kernel: what is sent to a node that has closed its end is accepted  *)
(* and lost, and draws a reset.  A connection that the node has reset has  *)
(* one error to report, to the next send or recv that meets it; a send     *)
(* after that raises SIGPIPE, which is not handled and ends the program.   *)
(***************************************************************************)
EXTENDS ByteStream, FiniteSets, SequencesExt

CONSTANTS Fds,             \* descriptors; socket is given the lowest free one
          MAX_NPU_NODES,
          MaxTexts,        \* bound on the texts all nodes send
          MaxHalves        \* bound on what nodes have received when one is sent more,
                           \* and on the texts accepted for one that has gone

ASSUME NodesAssumption == /\ Fds \subseteq Nat
                          /\ MAX_NPU_NODES \in Nat \ {0}
                          /\ MaxTexts \in Nat
                          /\ MaxHalves \in Nat

VARIABLES npu_nodes,   \* descriptors and whether they are connected, in order
          g_task_mgr,  \* whether the global pointer has been set
          cursor,      \* the node npu_poll_receive visits next; 0 outside it
          alive,       \* the program has not been ended by SIGPIPE
          socket,      \* the kernel: descriptor -> state of its connection
          from_node,   \* descriptor -> stream of what the node has sent
          to_node,     \* descriptor -> what the node has received
          texts,       \* how many texts the nodes have sent
          pushed,      \* ghost: what pushResponse was called with, in order
          confirmed    \* ghost: descriptor -> texts whose send returned true

listVars == <<npu_nodes, g_task_mgr, cursor, alive>>
sockVars == <<socket, from_node, to_node>>
vars     == <<listVars, sockVars, texts, pushed, confirmed>>

Kinds == {"response", "status", "heartbeat"}

Bodies == [n : 1 .. MaxTexts, kind : Kinds, from : Fds]

Init == /\ npu_nodes = <<>>
        /\ g_task_mgr = FALSE
        /\ cursor = 0
        /\ alive = TRUE
        /\ socket = [s \in Fds |-> "closed"]
        /\ from_node = [s \in Fds |-> <<>>]
        /\ to_node = [s \in Fds |-> <<>>]
        /\ texts = 0
        /\ pushed = <<>>
        /\ confirmed = [s \in Fds |-> 0]

FreeFds == {s \in Fds : socket[s] = "closed"}

\* close: what is still under way on the connection is lost.
Close(closed) ==
    /\ socket' = [s \in Fds |-> IF s \in closed THEN "closed" ELSE socket[s]]
    /\ from_node' = [s \in Fds |-> IF s \in closed THEN <<>> ELSE from_node[s]]
    /\ to_node' = [s \in Fds |-> IF s \in closed THEN <<>> ELSE to_node[s]]
    /\ confirmed' = [s \in Fds |-> IF s \in closed THEN 0 ELSE confirmed[s]]

\* The main thread is between two calls.
Idle == alive /\ cursor = 0

----------------------------------------------------------------------------
\* Mutants of the actions below, each a plausible slip in npu_node_manager.cpp.
npu_close_allButLast ==
    /\ Idle
    /\ npu_nodes # <<>>
    /\ Close({npu_nodes[k].socket_fd : k \in 1 .. Len(npu_nodes) - 1})
    /\ npu_nodes' = <<>>
    /\ UNCHANGED <<g_task_mgr, cursor, alive, texts, pushed>>

pushAnyText(chunk) ==
    pushed' = IF Parses(chunk) /\ g_task_mgr THEN Append(pushed, Parsed(chunk)) ELSE pushed

npu_add_nodeOneTooMany ==
    /\ Idle
    /\ Len(npu_nodes) <= MAX_NPU_NODES
    /\ \E s \in FreeFds :
         /\ \A r \in FreeFds : s <= r
         /\ socket' = [socket EXCEPT ![s] = "up"]
         /\ npu_nodes' = Append(npu_nodes, [socket_fd |-> s, connected |-> TRUE])
    /\ UNCHANGED <<g_task_mgr, cursor, alive, from_node, to_node, texts, pushed, confirmed>>

SendResultWithNul(part, text) == Len(part) = Len(text) + 1

----------------------------------------------------------------------------
\* The node at the other end of s ------------------------------------------------
nodeSends(s, kind) ==
    /\ socket[s] = "up"
    /\ texts < MaxTexts
    /\ texts' = texts + 1
    /\ from_node' = [from_node EXCEPT ![s] = @ \o Text([n |-> texts', kind |-> kind, from |-> s])]
    /\ UNCHANGED <<listVars, socket, to_node, pushed, confirmed>>

States == {"closed", "up", "hung up", "reset", "broken"}

\* A close with data still unread resets the connection at once; data that was
\* under way when the node closed draws the reset that reports no error.
nodeHangsUp(s) ==
    /\ socket[s] = "up"
    /\ \E state \in {"hung up", "reset", "broken"} : socket' = [socket EXCEPT ![s] = state]
    /\ UNCHANGED <<listVars, from_node, to_node, texts, pushed, confirmed>>

\* The node list -----------------------------------------------------------------
\* npu_add_node opens nothing when the list is full, and closes the new socket
\* again when the node cannot be reached; this is the call that succeeds.
npu_add_node ==
    /\ Idle
    /\ Len(npu_nodes) < MAX_NPU_NODES
    /\ \E s \in FreeFds :
         /\ \A r \in FreeFds : s <= r
         /\ socket' = [socket EXCEPT ![s] = "up"]
         /\ npu_nodes' = Append(npu_nodes, [socket_fd |-> s, connected |-> TRUE])
    /\ UNCHANGED <<g_task_mgr, cursor, alive, from_node, to_node, texts, pushed, confirmed>>

npu_close_all ==
    /\ Idle
    /\ npu_nodes # <<>>
    /\ Close({npu_nodes[k].socket_fd : k \in {m \in DOMAIN npu_nodes : npu_nodes[m].connected}})
    /\ npu_nodes' = <<>>
    /\ UNCHANGED <<g_task_mgr, cursor, alive, texts, pushed>>

npu_set_task_manager ==
    /\ Idle
    /\ ~g_task_mgr
    /\ g_task_mgr' = TRUE
    /\ UNCHANGED <<npu_nodes, cursor, alive, sockVars, texts, pushed, confirmed>>

\* The result of the call: whether send took all of the text.
SendResult(part, text) == part = text

\* A non-blocking send takes what fits into the socket buffer, or nothing.
sendUp(s) ==
    /\ socket[s] = "up"
    /\ SumFunction([r \in Fds |-> Len(to_node[r])]) < MaxHalves
    /\ LET text == Text([n |-> confirmed[s] + 1, kind |-> "task"]) IN
         \E part \in Chunks(text) \cup {<<>>} :
            /\ to_node' = [to_node EXCEPT ![s] = @ \o part]
            /\ confirmed' = [confirmed EXCEPT ![s] =
                               IF SendResult(part, text) THEN @ + 1 ELSE @]
    /\ UNCHANGED <<npu_nodes, alive, socket, from_node>>

\* The send may be accepted, and return true, although the node has gone.
sendHungUp(s) ==
    /\ socket[s] = "hung up"
    /\ socket' \in {socket, [socket EXCEPT ![s] = "broken"]}
    /\ \/ UNCHANGED confirmed
       \/ /\ 2 * (confirmed[s] + 1) <= MaxHalves
          /\ confirmed' = [confirmed EXCEPT ![s] = @ + 1]
    /\ UNCHANGED <<npu_nodes, alive, from_node, to_node>>

\* ECONNRESET, once.
sendReset(s) ==
    /\ socket[s] = "reset"
    /\ socket' = [socket EXCEPT ![s] = "broken"]
    /\ UNCHANGED <<npu_nodes, alive, from_node, to_node, confirmed>>

\* SIGPIPE.
sendBroken(s) ==
    /\ socket[s] = "broken"
    /\ alive' = FALSE
    /\ Close(Fds)
    /\ npu_nodes' = <<>>

npu_send_to_node(node_idx) ==
    /\ Idle
    /\ node_idx \in DOMAIN npu_nodes /\ npu_nodes[node_idx].connected
    /\ LET s == npu_nodes[node_idx].socket_fd IN
         sendUp(s) \/ sendHungUp(s) \/ sendReset(s) \/ sendBroken(s)
    /\ UNCHANGED <<g_task_mgr, cursor, texts, pushed>>

\* npu_poll_receive --------------------------------------------------------------
beginPoll ==
    /\ Idle
    /\ cursor' = 1
    /\ UNCHANGED <<npu_nodes, g_task_mgr, alive, sockVars, texts, pushed, confirmed>>

\* parse_response_message, then pushResponse if there is a TaskManager.
pushIfResponse(chunk) ==
    pushed' = IF Parses(chunk) /\ Parsed(chunk).kind = "response" /\ g_task_mgr
              THEN Append(pushed, Parsed(chunk))
              ELSE pushed

\* End of stream, an error and "nothing there yet" are the same to the code: it
\* goes on to the next node and leaves connected as it is.  The error of a reset
\* is reported after the data that came before it.
poll ==
    /\ cursor \in DOMAIN npu_nodes
    /\ cursor' = cursor + 1
    /\ LET s == npu_nodes[cursor].socket_fd IN
         \/ /\ ~npu_nodes[cursor].connected
            /\ UNCHANGED <<socket, from_node, pushed>>
         \/ /\ npu_nodes[cursor].connected
            /\ from_node[s] = <<>>
            /\ socket' = [socket EXCEPT ![s] = IF @ = "reset" THEN "broken" ELSE @]
            /\ UNCHANGED <<from_node, pushed>>
         \/ /\ npu_nodes[cursor].connected
            /\ \E chunk \in Chunks(from_node[s]) :
                 /\ from_node' = [from_node EXCEPT ![s] = Rest(@, chunk)]
                 /\ pushIfResponse(chunk)
            /\ UNCHANGED socket
    /\ UNCHANGED <<npu_nodes, g_task_mgr, alive, to_node, texts, confirmed>>

endPoll ==
    /\ cursor = Len(npu_nodes) + 1
    /\ cursor' = 0
    /\ UNCHANGED <<npu_nodes, g_task_mgr, alive, sockVars, texts, pushed, confirmed>>

\* The gateway's steps that open no connection.
Gateway == \/ npu_close_all
           \/ npu_set_task_manager
           \/ \E node_idx \in 1 .. MAX_NPU_NODES : npu_send_to_node(node_idx)
           \/ beginPoll
           \/ poll
           \/ endPoll

----------------------------------------------------------------------------
TypeOK == /\ npu_nodes \in Seq([socket_fd : Fds, connected : BOOLEAN])
          /\ Len(npu_nodes) <= MAX_NPU_NODES
          /\ {g_task_mgr, alive} \subseteq BOOLEAN
          /\ cursor \in 0 .. MAX_NPU_NODES + 1
          /\ socket \in [Fds -> States]
          /\ from_node \in [Fds -> Seq([of : Bodies, half : Half])]
          /\ texts \in 0 .. MaxTexts
          /\ pushed \in Seq(Bodies)

\* The list and the open sockets are the same, one entry for each, through any
\* order of adding, hanging up and closing: nothing leaks, no descriptor is
\* used after its number has gone to somebody else.
ListIsSockets ==
    /\ {npu_nodes[k].socket_fd : k \in DOMAIN npu_nodes} = Fds \ FreeFds
    /\ Len(npu_nodes) = Cardinality(Fds \ FreeFds)

\* pushResponse is called with responses only, each once, and those of one node
\* in the order in which it sent them, wherever recv cuts its stream.
PushedInOrder ==
    /\ \A k \in DOMAIN pushed : pushed[k].kind = "response"
    /\ \A j, k \in DOMAIN pushed :
          j < k /\ pushed[j].from = pushed[k].from => pushed[j].n < pushed[k].n

============================================================================
