------------------------------ MODULE NodeLink ------------------------------
(***************************************************************************)
(* The gateway's node connections with the example node                    *)
(* (examples/npu_node_example.cpp) at the other end of each: its message   *)
(* loop, which appends what recv returns to message_data and parses all of *)
(* it, and its heartbeat thread, which writes to the same socket.          *)
(*                                                                         *)
(* Which end dials is left out: npu_add_node and NPUNodeExample::connect   *)
(* both call connect, and nothing accepts; here npu_add_node finds a node. *)
(* nodeHangsUp ends the program: at any time, and when a task asks for a   *)
(* stream.  The tokens of a stream are two bytes each, the characters      *)
(* three, and json's dump throws for text that is not UTF-8, which nobody  *)
(* catches.  After npu_close_all the program's recv returns 0 and it ends  *)
(* too, out of the gateway's sight.  A text whose type is not a task       *)
(* changes nothing at the node; the gateway sends tasks only.              *)
(***************************************************************************)
EXTENDS NpuNodes

VARIABLES message_data,  \* descriptor -> what the node has read and not handled
          taken,         \* descriptor -> how much of to_node the node has read
          sending,       \* descriptor -> kinds of the texts it has yet to send
          handled        \* ghost: descriptor -> the tasks it has handled

nodeVars == <<message_data, taken, sending, handled>>
linkVars == <<vars, nodeVars>>

LinkInit == /\ Init
            /\ message_data = [s \in Fds |-> <<>>]
            /\ taken = [s \in Fds |-> 0]
            /\ sending = [s \in Fds |-> <<>>]
            /\ handled = [s \in Fds |-> <<>>]

Unread(s) == SubSeq(to_node[s], taken[s] + 1, Len(to_node[s]))

----------------------------------------------------------------------------
\* Mutants of the operators below, each a plausible slip in the example node.
messageDataKeptApart(data, chunk) == chunk

----------------------------------------------------------------------------
\* NPUNodeExample::start, the part before the loops: the status comes first.
start(s) ==
    /\ npu_add_node /\ socket[s] # "up" /\ socket'[s] = "up"
    /\ sending' = [sending EXCEPT ![s] = <<"status">>]
    /\ UNCHANGED <<message_data, taken, handled>>

\* send_status, and the one send of handle_inference_task that gets that far.
sendNext(s) ==
    /\ sending[s] # <<>>
    /\ nodeSends(s, Head(sending[s]))
    /\ sending' = [sending EXCEPT ![s] = Tail(@)]
    /\ UNCHANGED <<message_data, taken, handled>>

\* heartbeat_loop runs on a thread that start creates after the status.
heartbeat_loop(s) ==
    /\ sending[s] # <<"status">>
    /\ nodeSends(s, "heartbeat")
    /\ UNCHANGED nodeVars

Joined(data, chunk) == data \o chunk

\* handle_inference_task: an answer, or the end if the task asks for a stream.
handle_inference_task(s) ==
    \/ sending' = [sending EXCEPT ![s] = <<"response">>] /\ UNCHANGED vars
    \/ nodeHangsUp(s) /\ UNCHANGED sending

\* One turn of message_loop.
message_loop(s) ==
    /\ socket[s] = "up" /\ sending[s] = <<>>
    /\ \E chunk \in Chunks(Unread(s)) :
         /\ taken' = [taken EXCEPT ![s] = @ + Len(chunk)]
         /\ LET text == Joined(message_data[s], chunk) IN
              IF Parses(text)
              THEN /\ message_data' = [message_data EXCEPT ![s] = <<>>]
                   /\ handled' = [handled EXCEPT ![s] = Append(@, Parsed(text).n)]
                   /\ handle_inference_task(s)
              ELSE /\ message_data' = [message_data EXCEPT ![s] = text]
                   /\ UNCHANGED <<vars, sending, handled>>

----------------------------------------------------------------------------
\* The program that was connected to a descriptor ends with the connection.
nodeEnds ==
    LET kept(f, none) == [s \in Fds |-> IF socket'[s] = "closed" THEN none ELSE f[s]] IN
    /\ message_data' = kept(message_data, <<>>)
    /\ taken' = kept(taken, 0)
    /\ sending' = kept(sending, <<>>)
    /\ handled' = kept(handled, <<>>)

LinkNext == \/ \E s \in Fds : \/ start(s)
                              \/ sendNext(s)
                              \/ heartbeat_loop(s)
                              \/ message_loop(s)
                              \/ nodeHangsUp(s) /\ UNCHANGED nodeVars
            \/ Gateway /\ nodeEnds

LinkSpec == LinkInit /\ [][LinkNext]_linkVars

----------------------------------------------------------------------------
\* A node runs exactly the first few of the tasks whose send has returned true,
\* in that order and once each, whatever part of a text a send takes and wherever
\* a recv cuts or joins the texts.  So a task whose send returned false is never
\* run, and the caller may send it to another node.  (The result true is no such
\* promise: the node may have gone, or may never parse the text.)
RunsOnlyConfirmed ==
    \A k \in DOMAIN npu_nodes :
        LET s == npu_nodes[k].socket_fd IN
        /\ Len(handled[s]) <= confirmed[s]
        /\ handled[s] = [n \in 1 .. Len(handled[s]) |-> n]

\* After a send that took a part of a text, the retry of that text and whatever
\* is sent after it are not run, although their sends return true: the part
\* stays at the front of message_data, and what follows it never parses.
NothingRunAfterPart ==
    \A k \in DOMAIN npu_nodes :
        LET s == npu_nodes[k].socket_fd
            Cut(m) == /\ m + 1 \in DOMAIN to_node[s]
                      /\ to_node[s][m].half = "first"
                      /\ to_node[s][m + 1].half = "first" IN
        \A m \in DOMAIN to_node[s] : Cut(m) =>
            \A j \in DOMAIN handled[s] : handled[s][j] < to_node[s][m].of.n

============================================================================
