--------------------------- MODULE NodeLinkProofs ---------------------------
(***************************************************************************)
(* Proofs about NodeLink, the gateway's node list with the example node at *)
(* the other end of each connection, for any number of descriptors, places *)
(* and texts: types (TypeCorrect), that list and open sockets agree        *)
(* (ListMatchesSockets), that responses are pushed in order and once       *)
(* (PushesInOrder), that a node runs only confirmed tasks                  *)
(* (NodesRunConfirmed), and nothing after a text that was cut short        *)
(* (NothingRunsAfterPart).                                                 *)
(***************************************************************************)
EXTENDS NodeLink, SequenceTheorems, FiniteSetTheorems, TLAPS

Piece(n, half) == [of |-> [n |-> n, kind |-> "task"], half |-> half]

Tasks == [n : Nat, kind : {"task"}]

TaskPieces == [of : Tasks, half : Half]

BodyPieces == [of : Bodies, half : Half]

Entry == [socket_fd : Fds, connected : BOOLEAN]

LinkTypes ==
    /\ to_node \in [Fds -> Seq(TaskPieces)]
    /\ confirmed \in [Fds -> Nat]
    /\ message_data \in [Fds -> Seq(TaskPieces)]
    /\ taken \in [Fds -> Nat]
    /\ sending \in [Fds -> Seq(Kinds)]
    /\ handled \in [Fds -> Seq(Nat)]

\* The list is the open sockets; connected is never taken back.
ListInv ==
    /\ \A k \in DOMAIN npu_nodes : npu_nodes[k].connected
    /\ IsFiniteSet(Fds \ FreeFds)
    /\ ListIsSockets

\* The place of a piece in the order in which its node wrote it.
Rank(p) == 2 * p.of.n + IF p.half = "second" THEN 1 ELSE 0

\* The stream d is in the order written, from s, up to the n-th text of all;
\* it is later than the n-th text.
InOrder(d) == \A j, k \in DOMAIN d : j < k => Rank(d[j]) < Rank(d[k])

Upto(d, s, n) == \A j \in DOMAIN d : d[j].of.from = s /\ d[j].of.n <= n

Later(d, n) == \A j \in DOMAIN d : n < d[j].of.n

\* A node's stream is in order, and all of what was pushed came before it.
PushInv ==
    /\ \A s \in Fds : InOrder(from_node[s]) /\ Upto(from_node[s], s, texts)
    /\ \A k \in DOMAIN pushed : pushed[k].n <= texts
    /\ \A k \in DOMAIN pushed : Later(from_node[pushed[k].from], pushed[k].n)
    /\ PushedInOrder

\* What may come after p: a text of which a send took a part only is sent again
\* from its start.
Follows(p, q) ==
    IF p.half = "second" THEN q = Piece(p.of.n + 1, "first")
                         ELSE q \in {Piece(p.of.n, "first"), Piece(p.of.n, "second")}

\* d is what c confirmed tasks, and sends of the next that took a part, leave.
Streams(d, c) ==
    /\ d = <<>> => c = 0
    /\ d # <<>> => d[1] = Piece(1, "first")
    /\ d # <<>> => c + 1 = IF d[Len(d)].half = "second" THEN d[Len(d)].of.n + 1
                                                       ELSE d[Len(d)].of.n
    /\ \A j \in 1 .. Len(d) - 1 : Follows(d[j], d[j + 1])
    /\ \A j \in 1 .. Len(d) : d[j].half = "second" => d[j].of.n <= c

\* Whatever comes after a second half is of a later task.
Seconds(d) ==
    \A i, j \in 1 .. Len(d) : i < j /\ d[i].half = "second" => d[i].of.n < d[j].of.n

\* Of d, t pieces have been read: the texts of the tasks done, and data.
Reads(d, data, t, done) ==
    /\ t <= Len(d)
    /\ t = 2 * Len(done) + Len(data)
    /\ \A j \in 1 .. Len(data) : data[j] = d[2 * Len(done) + j]
    /\ \A n \in 1 .. Len(done) : done[n] = n /\ d[2 * n] = Piece(n, "second")

\* While the node is there, what is confirmed has been sent.
Counted(state) == state \in {"up", "closed"}

\* Of the tasks confirmed, c were sent while the node was there.
RunInv ==
    \A s \in Fds : \E c \in Nat :
        /\ IF Counted(socket[s]) THEN c = confirmed[s] ELSE c <= confirmed[s]
        /\ Streams(to_node[s], c)
        /\ Seconds(to_node[s])
        /\ Reads(to_node[s], message_data[s], taken[s], handled[s])

----------------------------------------------------------------------------
\* What recv returns and what it leaves are the two parts of the stream.
LEMMA ChunkSplits ==
    ASSUME NEW S, NEW stream \in Seq(S), NEW chunk \in Chunks(stream)
    PROVE  /\ chunk \in Seq(S)
           /\ Rest(stream, chunk) \in Seq(S)
           /\ stream = chunk \o Rest(stream, chunk)
           /\ stream # <<>>
           /\ chunk # <<>>
<1>1. PICK n \in 1 .. Len(stream) : chunk = SubSeq(stream, 1, n)
  BY DEF Chunks
<1>0. Len(stream) \in Nat /\ n \in Nat /\ n >= 1 /\ n <= Len(stream)
  BY <1>1
<1>2. chunk \in Seq(S) /\ Len(chunk) = n /\ \A m \in 1 .. n : chunk[m] = stream[m]
  BY <1>0, <1>1, SubSeqProperties
<1>3. /\ Rest(stream, chunk) \in Seq(S)
      /\ Len(Rest(stream, chunk)) = Len(stream) - n
      /\ \A m \in 1 .. Len(stream) - n : Rest(stream, chunk)[m] = stream[m + n]
  BY <1>0, <1>2, SubSeqProperties DEF Rest
<1>4. stream = chunk \o Rest(stream, chunk)
  <2>1. stream = SubSeq(stream, 1, n) \o SubSeq(stream, n + 1, Len(stream))
    BY <1>0
  <2> QED
    BY <1>1, <1>2, <2>1 DEF Rest
<1>5. Len(chunk) # 0 /\ Len(stream) # 0
  BY <1>0, <1>2
<1> QED
  BY <1>2, <1>3, <1>4, <1>5, EmptySeq

\* A text is its two halves.
LEMMA TextIsPieces ==
    ASSUME NEW S, NEW m \in S
    PROVE  /\ Text(m) \in Seq([of : S, half : Half]) /\ Len(Text(m)) = 2
           /\ Text(m)[1] = [of |-> m, half |-> "first"]
           /\ Text(m)[2] = [of |-> m, half |-> "second"]
BY DEF Text, Half

\* What parses is the text of the message it is parsed to.
LEMMA ParsedIsText ==
    ASSUME NEW S, NEW chunk \in Seq([of : S, half : Half]), Parses(chunk)
    PROVE  Parsed(chunk) \in S /\ chunk = Text(Parsed(chunk))
<1>1. Len(chunk) = 2 /\ chunk = Text(chunk[1].of)
  BY DEF Parses
<1> DEFINE P == [of : S, half : Half]
<1>2. chunk[1] \in P
  <2>1. chunk \in Seq(P)
    OBVIOUS
  <2> HIDE DEF P
  <2> QED
    BY <1>1, <2>1, ElementOfSeq
<1> QED
  BY <1>1, <1>2 DEF Parsed

\* The steps in a form that names each action once.
LEMMA NextSplit ==
    ASSUME [LinkNext]_linkVars
    PROVE  \/ UNCHANGED linkVars
           \/ \E s \in Fds : \/ start(s) \/ sendNext(s) \/ heartbeat_loop(s)
                             \/ message_loop(s)
                             \/ nodeHangsUp(s) /\ UNCHANGED nodeVars
           \/ /\ nodeEnds
              /\ \/ npu_close_all \/ npu_set_task_manager \/ beginPoll \/ poll \/ endPoll
                 \/ \E node_idx \in 1 .. MAX_NPU_NODES : npu_send_to_node(node_idx)
BY DEF LinkNext, Gateway

\* The list, entry by entry.
LEMMA Entries ==
    ASSUME TypeOK
    PROVE  /\ npu_nodes \in Seq(Entry)
           /\ Len(npu_nodes) \in 0 .. MAX_NPU_NODES
           /\ DOMAIN npu_nodes = 1 .. Len(npu_nodes)
           /\ \A k \in 1 .. Len(npu_nodes) : npu_nodes[k] \in Entry
           /\ \A k \in 1 .. Len(npu_nodes) : npu_nodes[k].socket_fd \in Fds
           /\ \A k \in 1 .. Len(npu_nodes) : npu_nodes[k].connected \in BOOLEAN
<1>1. npu_nodes \in Seq(Entry) /\ Len(npu_nodes) <= MAX_NPU_NODES
  BY DEF TypeOK, Entry
<1>2. \A k \in 1 .. Len(npu_nodes) : npu_nodes[k] \in Entry
  BY <1>1, ElementOfSeq
<1>3. Len(npu_nodes) \in 0 .. MAX_NPU_NODES /\ DOMAIN npu_nodes = 1 .. Len(npu_nodes)
  BY <1>1, NodesAssumption
<1> QED
  BY <1>1, <1>2, <1>3 DEF Entry

\* Closing keeps the types.
LEMMA CloseTyped ==
    ASSUME TypeOK, LinkTypes, NEW closed, Close(closed)
    PROVE  /\ socket' \in [Fds -> States]
           /\ from_node' \in [Fds -> Seq([of : Bodies, half : Half])]
           /\ to_node' \in [Fds -> Seq(TaskPieces)]
           /\ confirmed' \in [Fds -> Nat]
<1>1. <<>> \in Seq([of : Bodies, half : Half]) /\ <<>> \in Seq(TaskPieces)
  OBVIOUS
<1> QED
  BY <1>1 DEF TypeOK, LinkTypes, Close, States

\* So does what happens to the nodes when the gateway has closed connections.
LEMMA EndsTyped ==
    ASSUME LinkTypes, nodeEnds
    PROVE  /\ message_data' \in [Fds -> Seq(TaskPieces)]
           /\ taken' \in [Fds -> Nat]
           /\ sending' \in [Fds -> Seq(Kinds)]
           /\ handled' \in [Fds -> Seq(Nat)]
<1>1. <<>> \in Seq(TaskPieces) /\ <<>> \in Seq(Kinds) /\ <<>> \in Seq(Nat)
  OBVIOUS
<1> QED
  BY <1>1 DEF LinkTypes, nodeEnds

\* A node's text keeps the types.
LEMMA NodeSendsTyped ==
    ASSUME TypeOK, NEW s \in Fds, NEW kind \in Kinds, nodeSends(s, kind)
    PROVE  TypeOK'
<1>0. texts + 1 \in 1 .. MaxTexts
  <2>1. MaxTexts \in Nat
    BY NodesAssumption
  <2>2. texts < MaxTexts
    BY DEF nodeSends
  <2>3. texts \in 0 .. MaxTexts
    BY DEF TypeOK
  <2> QED
    BY <2>1, <2>2, <2>3
<1>1. [n |-> texts + 1, kind |-> kind, from |-> s] \in Bodies /\ texts + 1 \in 0 .. MaxTexts
  BY <1>0 DEF Bodies
<1>2. from_node[s] \o Text([n |-> texts + 1, kind |-> kind, from |-> s])
        \in Seq([of : Bodies, half : Half])
  BY <1>1, TextIsPieces, ConcatProperties DEF TypeOK
<1>3. /\ texts' = texts + 1 /\ UNCHANGED <<npu_nodes, g_task_mgr, cursor, alive, socket, pushed>>
      /\ from_node' = [from_node EXCEPT ![s] =
                         @ \o Text([n |-> texts + 1, kind |-> kind, from |-> s])]
  BY DEF nodeSends, listVars
<1> QED
  BY <1>1, <1>2, <1>3 DEF TypeOK

\* So is what a send takes of a task.
LEMMA PartTyped ==
    ASSUME LinkTypes, NEW s \in Fds,
           NEW part \in Chunks(Text([n |-> confirmed[s] + 1, kind |-> "task"])) \cup {<<>>}
    PROVE  part \in Seq(TaskPieces)
<1> DEFINE m == [n |-> confirmed[s] + 1, kind |-> "task"]
<1>1. m \in Tasks
  <2>1. confirmed[s] + 1 \in Nat
    BY DEF LinkTypes
  <2> QED
    BY <2>1 DEF Tasks
<1>2. Text(m) \in Seq(TaskPieces)
  BY <1>1, TextIsPieces DEF TaskPieces
<1>3. CASE part \in Chunks(Text(m))
  <2> HIDE DEF m
  <2> QED
    BY <1>2, <1>3, ChunkSplits
<1>4. CASE part = <<>>
  BY <1>4
<1> QED
  BY <1>3, <1>4

\* Types are kept by every step.
LEMMA TypesStep ==
    ASSUME TypeOK, LinkTypes, [LinkNext]_linkVars
    PROVE  TypeOK' /\ LinkTypes'
<1> USE NodesAssumption
<1>0. CASE UNCHANGED linkVars
  BY <1>0 DEF linkVars, vars, listVars, sockVars, nodeVars, TypeOK, LinkTypes
<1>1. ASSUME NEW s \in Fds, start(s)
      PROVE  TypeOK' /\ LinkTypes'
  <2>1. PICK r \in FreeFds :
           /\ socket' = [socket EXCEPT ![r] = "up"]
           /\ npu_nodes' = Append(npu_nodes, [socket_fd |-> r, connected |-> TRUE])
    BY <1>1 DEF start, npu_add_node
  <2>2. /\ Len(npu_nodes) < MAX_NPU_NODES
        /\ UNCHANGED <<g_task_mgr, cursor, alive, from_node, to_node, texts, pushed, confirmed,
                       message_data, taken, handled>>
        /\ sending' = [sending EXCEPT ![s] = <<"status">>]
    BY <1>1 DEF start, npu_add_node
  <2>3. /\ npu_nodes' \in Seq([socket_fd : Fds, connected : BOOLEAN])
        /\ Len(npu_nodes') <= MAX_NPU_NODES
    <3> DEFINE e == [socket_fd |-> r, connected |-> TRUE]
    <3>1. e \in Entry
      BY DEF FreeFds, Entry
    <3>2. npu_nodes' = Append(npu_nodes, e)
      BY <2>1
    <3> HIDE DEF e
    <3>3. npu_nodes' \in Seq(Entry) /\ Len(npu_nodes') = Len(npu_nodes) + 1
      BY <3>1, <3>2, Entries, AppendProperties
    <3>4. Len(npu_nodes) + 1 <= MAX_NPU_NODES
      BY <2>2, Entries
    <3> QED
      BY <3>3, <3>4 DEF Entry
  <2>4. socket' \in [Fds -> States]
    BY <2>1 DEF TypeOK, States
  <2>5. sending' \in [Fds -> Seq(Kinds)]
    <3>1. <<"status">> \in Seq(Kinds)
      BY DEF Kinds
    <3> QED
      BY <2>2, <3>1 DEF LinkTypes
  <2> QED
    BY <2>2, <2>3, <2>4, <2>5 DEF TypeOK, LinkTypes
<1>2. ASSUME NEW s \in Fds, sendNext(s) \/ heartbeat_loop(s)
      PROVE  TypeOK' /\ LinkTypes'
  <2>1. CASE sendNext(s)
    <3>1. /\ Head(sending[s]) \in Kinds /\ Tail(sending[s]) \in Seq(Kinds)
      BY <2>1, HeadTailProperties DEF sendNext, LinkTypes
    <3>2. TypeOK'
      BY <2>1, <3>1, NodeSendsTyped DEF sendNext
    <3>3. /\ sending' = [sending EXCEPT ![s] = Tail(@)]
          /\ UNCHANGED <<to_node, confirmed, message_data, taken, handled>>
      BY <2>1 DEF sendNext, nodeSends
    <3>4. sending' \in [Fds -> Seq(Kinds)]
      BY <3>1, <3>3 DEF LinkTypes
    <3> QED
      BY <3>2, <3>3, <3>4 DEF LinkTypes
  <2>2. CASE heartbeat_loop(s)
    <3>1. TypeOK'
      BY <2>2, NodeSendsTyped DEF heartbeat_loop, Kinds
    <3> QED
      BY <2>2, <3>1 DEF heartbeat_loop, nodeSends, nodeVars, LinkTypes
  <2> QED
    BY <1>2, <2>1, <2>2
<1>3. ASSUME NEW s \in Fds, nodeHangsUp(s)
      PROVE  TypeOK' /\ UNCHANGED <<to_node, confirmed>>
  <2>1. PICK state \in {"hung up", "reset", "broken"} :
           socket' = [socket EXCEPT ![s] = state]
    BY <1>3 DEF nodeHangsUp
  <2>2. socket' \in [Fds -> States]
    BY <2>1 DEF TypeOK, States
  <2> QED
    BY <1>3, <2>2 DEF nodeHangsUp, listVars, TypeOK
<1>4. ASSUME NEW s \in Fds, message_loop(s)
      PROVE  TypeOK' /\ LinkTypes'
  <2>0. Unread(s) \in Seq(TaskPieces)
    BY DEF Unread, LinkTypes
  <2>1. PICK chunk \in Chunks(Unread(s)) :
           /\ taken' = [taken EXCEPT ![s] = @ + Len(chunk)]
           /\ LET text == Joined(message_data[s], chunk) IN
                IF Parses(text)
                THEN /\ message_data' = [message_data EXCEPT ![s] = <<>>]
                     /\ handled' = [handled EXCEPT ![s] = Append(@, Parsed(text).n)]
                     /\ handle_inference_task(s)
                ELSE /\ message_data' = [message_data EXCEPT ![s] = text]
                     /\ UNCHANGED <<vars, sending, handled>>
    BY <1>4 DEF message_loop
  <2> DEFINE text == Joined(message_data[s], chunk)
  <2>2. chunk \in Seq(TaskPieces) /\ text \in Seq(TaskPieces) /\ taken' \in [Fds -> Nat]
    <3>1. chunk \in Seq(TaskPieces)
      BY <2>0, ChunkSplits
    <3>2. message_data[s] \in Seq(TaskPieces)
      BY DEF LinkTypes
    <3>3. text \in Seq(TaskPieces)
      BY <3>1, <3>2, ConcatProperties DEF Joined
    <3>4. taken[s] + Len(chunk) \in Nat
      <4>1. Len(chunk) \in Nat
        BY <3>1, LenProperties
      <4> QED
        BY <4>1 DEF LinkTypes
    <3>5. taken' \in [Fds -> Nat]
      BY <2>1, <3>4 DEF LinkTypes
    <3> QED
      BY <3>1, <3>3, <3>5
  <2>3. CASE ~Parses(text)
    <3>1. message_data' \in [Fds -> Seq(TaskPieces)]
      BY <2>1, <2>2, <2>3 DEF LinkTypes
    <3> QED
      BY <2>1, <2>2, <2>3, <3>1 DEF vars, listVars, sockVars, TypeOK, LinkTypes
  <2>4. CASE Parses(text)
    <3>1. Parsed(text).n \in Nat
      BY <2>2, <2>4, ParsedIsText DEF TaskPieces, Tasks
    <3>2. message_data' \in [Fds -> Seq(TaskPieces)] /\ handled' \in [Fds -> Seq(Nat)]
      <4>1. <<>> \in Seq(TaskPieces)
        OBVIOUS
      <4>2. Append(handled[s], Parsed(text).n) \in Seq(Nat)
        BY <3>1, AppendProperties DEF LinkTypes
      <4> QED
        BY <2>1, <2>4, <4>1, <4>2 DEF LinkTypes
    <3>3. handle_inference_task(s)
      BY <2>1, <2>4
    <3>4. CASE sending' = [sending EXCEPT ![s] = <<"response">>] /\ UNCHANGED vars
      <4>1. <<"response">> \in Seq(Kinds)
        BY DEF Kinds
      <4>2. sending' \in [Fds -> Seq(Kinds)]
        BY <3>4, <4>1 DEF LinkTypes
      <4> QED
        BY <2>2, <3>2, <3>4, <4>2 DEF vars, listVars, sockVars, TypeOK, LinkTypes
    <3>5. CASE nodeHangsUp(s) /\ UNCHANGED sending
      BY <1>3, <2>2, <3>2, <3>5 DEF LinkTypes
    <3> QED
      BY <3>3, <3>4, <3>5 DEF handle_inference_task
  <2> QED
    BY <2>3, <2>4
<1>5. ASSUME nodeEnds, npu_close_all
      PROVE  TypeOK' /\ LinkTypes'
  <2>1. /\ npu_nodes' = <<>> /\ UNCHANGED <<g_task_mgr, cursor, alive, texts, pushed>>
        /\ \E closed : Close(closed)
    BY <1>5 DEF npu_close_all
  <2>2. npu_nodes' \in Seq([socket_fd : Fds, connected : BOOLEAN])
    BY <2>1
  <2>3. Len(npu_nodes') <= MAX_NPU_NODES
    BY <2>1
  <2>4. /\ socket' \in [Fds -> States]
        /\ from_node' \in [Fds -> Seq([of : Bodies, half : Half])]
        /\ to_node' \in [Fds -> Seq(TaskPieces)]
        /\ confirmed' \in [Fds -> Nat]
    BY <2>1, CloseTyped
  <2>5. TypeOK'
    BY <2>1, <2>2, <2>3, <2>4 DEF TypeOK
  <2> QED
    BY <1>5, <2>4, <2>5, EndsTyped DEF LinkTypes
<1>6. ASSUME nodeEnds, npu_set_task_manager
      PROVE  TypeOK' /\ LinkTypes'
  BY <1>6, EndsTyped DEF npu_set_task_manager, sockVars, TypeOK, LinkTypes
<1>7. ASSUME nodeEnds, beginPoll
      PROVE  TypeOK' /\ LinkTypes'
  <2>1. cursor' \in 0 .. MAX_NPU_NODES + 1
    BY <1>7 DEF beginPoll
  <2> QED
    BY <1>7, <2>1, EndsTyped DEF beginPoll, sockVars, TypeOK, LinkTypes
<1>8. ASSUME nodeEnds, endPoll
      PROVE  TypeOK' /\ LinkTypes'
  <2>1. cursor' \in 0 .. MAX_NPU_NODES + 1
    BY <1>8 DEF endPoll
  <2> QED
    BY <1>8, <2>1, EndsTyped DEF endPoll, sockVars, TypeOK, LinkTypes
<1>9. ASSUME nodeEnds, poll
      PROVE  TypeOK' /\ LinkTypes'
  <2> DEFINE s == npu_nodes[cursor].socket_fd
  <2>1. /\ cursor \in 1 .. Len(npu_nodes) /\ cursor' = cursor + 1
        /\ UNCHANGED <<npu_nodes, g_task_mgr, alive, to_node, texts, confirmed>>
    BY <1>9, Entries DEF poll
  <2>2. s \in Fds /\ cursor + 1 \in 0 .. MAX_NPU_NODES + 1
    BY <2>1, Entries
  <2>5. socket' \in [Fds -> States]
    <3>1. \/ UNCHANGED socket
          \/ socket' = [socket EXCEPT ![s] = IF @ = "reset" THEN "broken" ELSE @]
      BY <1>9 DEF poll
    <3> HIDE DEF s
    <3> QED
      BY <2>2, <3>1 DEF TypeOK, States
  <2>3. CASE UNCHANGED <<from_node, pushed>>
    BY <1>9, <2>1, <2>2, <2>3, <2>5, EndsTyped DEF TypeOK, LinkTypes
  <2>4. ASSUME NEW chunk \in Chunks(from_node[s]),
               from_node' = [from_node EXCEPT ![s] = Rest(@, chunk)],
               pushIfResponse(chunk)
        PROVE  TypeOK' /\ LinkTypes'
    <3>1. /\ chunk \in Seq([of : Bodies, half : Half])
          /\ Rest(from_node[s], chunk) \in Seq([of : Bodies, half : Half])
      BY <2>2, ChunkSplits DEF TypeOK
    <3>2. from_node' \in [Fds -> Seq([of : Bodies, half : Half])]
      BY <2>2, <2>4, <3>1 DEF TypeOK
    <3>3. pushed' \in Seq(Bodies)
      BY <2>4, <3>1, ParsedIsText, AppendProperties DEF pushIfResponse, TypeOK
    <3> QED
      BY <1>9, <2>1, <2>2, <2>5, <3>2, <3>3, EndsTyped DEF TypeOK, LinkTypes
  <2> QED
    BY <1>9, <2>3, <2>4 DEF poll
<1>10. ASSUME nodeEnds, NEW node_idx \in 1 .. MAX_NPU_NODES, npu_send_to_node(node_idx)
       PROVE  TypeOK' /\ LinkTypes'
  <2> DEFINE s == npu_nodes[node_idx].socket_fd
  <2>1. /\ node_idx \in 1 .. Len(npu_nodes)
        /\ sendUp(s) \/ sendHungUp(s) \/ sendReset(s) \/ sendBroken(s)
        /\ UNCHANGED <<g_task_mgr, cursor, texts, pushed>>
    BY <1>10, Entries DEF npu_send_to_node
  <2>2. s \in Fds
    BY <2>1, Entries
  <2>3. CASE sendUp(s)
    <3> DEFINE text == Text([n |-> confirmed[s] + 1, kind |-> "task"])
    <3>1. PICK part \in Chunks(text) \cup {<<>>} :
             /\ to_node' = [to_node EXCEPT ![s] = @ \o part]
             /\ confirmed' = [confirmed EXCEPT ![s] =
                                IF SendResult(part, text) THEN @ + 1 ELSE @]
      BY <2>3 DEF sendUp
    <3>2. part \in Seq(TaskPieces) /\ confirmed[s] \in Nat
      BY <2>2, PartTyped DEF LinkTypes
    <3>3. to_node' \in [Fds -> Seq(TaskPieces)]
      <4>1. to_node[s] \o part \in Seq(TaskPieces)
        BY <2>2, <3>2, ConcatProperties DEF LinkTypes
      <4> QED
        BY <3>1, <4>1 DEF LinkTypes
    <3>4. confirmed' \in [Fds -> Nat]
      <4>1. PICK c \in Nat : confirmed' = [confirmed EXCEPT ![s] = c]
        <5>1. CASE SendResult(part, text)
          <6>1. confirmed[s] + 1 \in Nat /\ confirmed' = [confirmed EXCEPT ![s] = @ + 1]
            BY <3>1, <3>2, <5>1
          <6> QED
            BY <6>1
        <5>2. CASE ~SendResult(part, text)
          BY <3>1, <3>2, <5>2
        <5> QED
          BY <5>1, <5>2
      <4> QED
        BY <4>1 DEF LinkTypes
    <3>5. UNCHANGED <<npu_nodes, alive, socket, from_node>>
      BY <2>3 DEF sendUp
    <3> QED
      BY <1>10, <2>1, <3>3, <3>4, <3>5, EndsTyped DEF TypeOK, LinkTypes
  <2>4. CASE sendHungUp(s) \/ sendReset(s)
    <3>1. /\ socket' \in {socket, [socket EXCEPT ![s] = "broken"]}
          /\ confirmed' \in {confirmed, [confirmed EXCEPT ![s] = @ + 1]}
          /\ UNCHANGED <<npu_nodes, alive, from_node, to_node>>
      BY <2>4 DEF sendHungUp, sendReset
    <3> HIDE DEF s
    <3>2. socket' \in [Fds -> States]
      BY <3>1 DEF TypeOK, States
    <3>3. confirmed' \in [Fds -> Nat]
      <4>1. confirmed[s] + 1 \in Nat
        BY <2>2 DEF LinkTypes
      <4> QED
        BY <3>1, <4>1 DEF LinkTypes
    <3> QED
      BY <1>10, <2>1, <3>1, <3>2, <3>3, EndsTyped DEF TypeOK, LinkTypes
  <2>5. CASE alive' = FALSE /\ Close(Fds) /\ npu_nodes' = <<>>
    <3>1. npu_nodes' \in Seq([socket_fd : Fds, connected : BOOLEAN])
      BY <2>5
    <3>2. Len(npu_nodes') <= MAX_NPU_NODES
      BY <2>5
    <3>3. /\ socket' \in [Fds -> States]
          /\ from_node' \in [Fds -> Seq([of : Bodies, half : Half])]
          /\ to_node' \in [Fds -> Seq(TaskPieces)]
          /\ confirmed' \in [Fds -> Nat]
      BY <2>5, CloseTyped
    <3>4. TypeOK'
      BY <2>1, <2>5, <3>1, <3>2, <3>3 DEF TypeOK
    <3> QED
      BY <1>10, <3>3, <3>4, EndsTyped DEF LinkTypes
  <2> QED
    BY <2>1, <2>3, <2>4, <2>5 DEF sendBroken
<1> QED
  BY NextSplit, <1>0, <1>1, <1>2, <1>3, <1>4, <1>5, <1>6, <1>7, <1>8, <1>9, <1>10
  DEF nodeVars, LinkTypes

\* The types hold in every reachable state.
LEMMA LinkTyped == LinkSpec => [](TypeOK /\ LinkTypes)
<1>1. LinkInit => TypeOK /\ LinkTypes
  <2> SUFFICES ASSUME LinkInit PROVE TypeOK /\ LinkTypes
    OBVIOUS
  <2>1. /\ <<>> \in Seq(TaskPieces) /\ <<>> \in Seq(Kinds) /\ <<>> \in Seq(Nat)
        /\ <<>> \in Seq(Bodies) /\ <<>> \in Seq([of : Bodies, half : Half])
        /\ <<>> \in Seq([socket_fd : Fds, connected : BOOLEAN]) /\ Len(<<>>) = 0
    OBVIOUS
  <2>2. Len(npu_nodes) <= MAX_NPU_NODES /\ texts \in 0 .. MaxTexts
        /\ cursor \in 0 .. MAX_NPU_NODES + 1
    BY <2>1, NodesAssumption DEF LinkInit, Init
  <2>3. LinkTypes
    BY <2>1 DEF LinkInit, Init, LinkTypes
  <2>4. TypeOK
    BY <2>1, <2>2 DEF LinkInit, Init, TypeOK, States
  <2> QED
    BY <2>3, <2>4
<1>2. TypeOK /\ LinkTypes /\ [LinkNext]_linkVars => (TypeOK /\ LinkTypes)'
  BY TypesStep
<1> QED
  BY <1>1, <1>2, PTL DEF LinkSpec

\* Every variable keeps its type, whatever the nodes and the gateway do.
THEOREM TypeCorrect == LinkSpec => []TypeOK
BY LinkTyped, PTL

----------------------------------------------------------------------------
\* What a step does to the list and to the descriptors that are in use.
ListKept == npu_nodes' = npu_nodes /\ FreeFds' = FreeFds

ListGrows == \E s \in FreeFds :
    /\ npu_nodes' = Append(npu_nodes, [socket_fd |-> s, connected |-> TRUE])
    /\ FreeFds' = FreeFds \ {s}

ListCleared == npu_nodes' = <<>> /\ FreeFds' = Fds

\* Closing frees what is closed.
LEMMA CloseFrees ==
    ASSUME NEW closed, Close(closed)
    PROVE  FreeFds' = FreeFds \cup (closed \cap Fds)
BY DEF Close, FreeFds

\* A connection whose state changes between states that are not closed keeps
\* its descriptor in use.
LEMMA StateChangeFreesNone ==
    ASSUME TypeOK, NEW s \in Fds, socket[s] # "closed",
           NEW state \in States \ {"closed"}, socket' = [socket EXCEPT ![s] = state]
    PROVE  FreeFds' = FreeFds
BY DEF TypeOK, FreeFds

\* A step adds one entry with its socket, or drops all with theirs, or keeps
\* the list and every descriptor in use.
LEMMA ListStep ==
    ASSUME TypeOK, ListInv, [LinkNext]_linkVars
    PROVE  ListKept \/ ListGrows \/ ListCleared
<1>0. CASE UNCHANGED linkVars
  BY <1>0 DEF linkVars, vars, listVars, sockVars, ListKept, FreeFds
<1>1. ASSUME NEW s \in Fds, start(s)
      PROVE  ListGrows
  <2>1. PICK r \in FreeFds :
           /\ socket' = [socket EXCEPT ![r] = "up"]
           /\ npu_nodes' = Append(npu_nodes, [socket_fd |-> r, connected |-> TRUE])
    BY <1>1 DEF start, npu_add_node
  <2>2. FreeFds' = FreeFds \ {r}
    BY <2>1 DEF TypeOK, FreeFds
  <2> QED
    BY <2>1, <2>2 DEF ListGrows
<1>2. ASSUME NEW s \in Fds, sendNext(s) \/ heartbeat_loop(s)
      PROVE  ListKept
  BY <1>2 DEF sendNext, heartbeat_loop, nodeSends, listVars, ListKept, FreeFds
<1>3. ASSUME NEW s \in Fds, nodeHangsUp(s)
      PROVE  ListKept
  <2>1. /\ socket[s] = "up" /\ npu_nodes' = npu_nodes
        /\ \E state \in {"hung up", "reset", "broken"} :
              socket' = [socket EXCEPT ![s] = state]
    BY <1>3 DEF nodeHangsUp, listVars
  <2>2. FreeFds' = FreeFds
    BY <2>1, StateChangeFreesNone DEF States
  <2> QED
    BY <2>1, <2>2 DEF ListKept
<1>4. ASSUME NEW s \in Fds, message_loop(s)
      PROVE  ListKept
  <2>1. UNCHANGED vars \/ nodeHangsUp(s)
    BY <1>4 DEF message_loop, handle_inference_task
  <2>2. CASE UNCHANGED vars
    BY <2>2 DEF vars, listVars, sockVars, ListKept, FreeFds
  <2> QED
    BY <1>3, <2>1, <2>2
<1>5. ASSUME npu_close_all
      PROVE  ListCleared
  <2> DEFINE closed == {npu_nodes[k].socket_fd :
                          k \in {m \in DOMAIN npu_nodes : npu_nodes[m].connected}}
  <2>1. npu_nodes' = <<>> /\ Close(closed)
    BY <1>5 DEF npu_close_all
  <2>2. closed = Fds \ FreeFds
    BY DEF ListInv, ListIsSockets
  <2>3. FreeFds' = FreeFds \cup (closed \cap Fds)
    <3> HIDE DEF closed
    <3> QED
      BY <2>1, CloseFrees
  <2> QED
    BY <2>1, <2>2, <2>3 DEF ListCleared, FreeFds
<1>6. ASSUME npu_set_task_manager \/ beginPoll \/ endPoll
      PROVE  ListKept
  BY <1>6 DEF npu_set_task_manager, beginPoll, endPoll, sockVars, ListKept, FreeFds
<1>8. ASSUME poll
      PROVE  ListKept
  <2> DEFINE s == npu_nodes[cursor].socket_fd
  <2>1. /\ s \in Fds /\ npu_nodes' = npu_nodes
        /\ \/ UNCHANGED socket
           \/ socket' = [socket EXCEPT ![s] = IF @ = "reset" THEN "broken" ELSE @]
    BY <1>8, Entries DEF poll
  <2> HIDE DEF s
  <2>2. FreeFds' = FreeFds
    BY <2>1 DEF TypeOK, FreeFds
  <2> QED
    BY <2>1, <2>2 DEF ListKept
<1>7. ASSUME NEW node_idx \in 1 .. MAX_NPU_NODES, npu_send_to_node(node_idx)
      PROVE  ListKept \/ ListCleared
  <2> DEFINE s == npu_nodes[node_idx].socket_fd
  <2>1. s \in Fds /\ (sendUp(s) \/ sendHungUp(s) \/ sendReset(s) \/ sendBroken(s))
    BY <1>7, Entries DEF npu_send_to_node
  <2>2. CASE sendUp(s)
    BY <2>2 DEF sendUp, ListKept, FreeFds
  <2>3. CASE sendHungUp(s) \/ sendReset(s)
    <3>1. /\ socket[s] \in {"hung up", "reset"} /\ npu_nodes' = npu_nodes
          /\ socket' \in {socket, [socket EXCEPT ![s] = "broken"]}
      BY <2>3 DEF sendHungUp, sendReset
    <3> HIDE DEF s
    <3>2. FreeFds' = FreeFds
      BY <2>1, <3>1, StateChangeFreesNone DEF States, FreeFds
    <3> QED
      BY <3>1, <3>2 DEF ListKept
  <2>4. CASE Close(Fds) /\ npu_nodes' = <<>>
    <3>1. FreeFds' = FreeFds \cup Fds
      BY <2>4, CloseFrees
    <3> QED
      BY <2>4, <3>1 DEF ListCleared, FreeFds
  <2> QED
    BY <2>1, <2>2, <2>3, <2>4 DEF sendBroken
<1> QED
  BY NextSplit, <1>0, <1>1, <1>2, <1>3, <1>4, <1>5, <1>6, <1>7, <1>8

\* The list stays the open sockets through every step.
LEMMA ListKeeps ==
    ASSUME TypeOK, ListInv, [LinkNext]_linkVars
    PROVE  ListInv'
<1> DEFINE Listed == {npu_nodes[k].socket_fd : k \in DOMAIN npu_nodes}
<1>0. /\ \A k \in 1 .. Len(npu_nodes) : npu_nodes[k].connected
      /\ IsFiniteSet(Fds \ FreeFds)
      /\ Listed = Fds \ FreeFds
      /\ Len(npu_nodes) = Cardinality(Fds \ FreeFds)
  BY Entries DEF ListInv, ListIsSockets
<1>1. CASE ListKept
  BY <1>1 DEF ListKept, ListInv, ListIsSockets
<1>2. CASE ListGrows
  <2>1. PICK s \in FreeFds :
           /\ npu_nodes' = Append(npu_nodes, [socket_fd |-> s, connected |-> TRUE])
           /\ FreeFds' = FreeFds \ {s}
    BY <1>2 DEF ListGrows
  <2> DEFINE e == [socket_fd |-> s, connected |-> TRUE]
  <2>2. e \in Entry /\ e.socket_fd = s /\ e.connected
    BY DEF FreeFds, Entry
  <2>3. npu_nodes' = Append(npu_nodes, e)
    BY <2>1
  <2> HIDE DEF e
  <2>4. /\ npu_nodes' \in Seq(Entry)
        /\ Len(npu_nodes') = Len(npu_nodes) + 1
        /\ \A k \in 1 .. Len(npu_nodes) : npu_nodes'[k] = npu_nodes[k]
        /\ npu_nodes'[Len(npu_nodes) + 1] = e
    BY <2>2, <2>3, Entries, AppendProperties
  <2>5. DOMAIN npu_nodes' = 1 .. Len(npu_nodes) + 1
    BY <2>4
  <2>6. Fds \ FreeFds' = (Fds \ FreeFds) \cup {s} /\ s \notin Fds \ FreeFds
    BY <2>1 DEF FreeFds
  <2>7. \A k \in 1 .. Len(npu_nodes) + 1 :
           k \in 1 .. Len(npu_nodes) \/ k = Len(npu_nodes) + 1
    BY Entries
  <2>8. \A k \in DOMAIN npu_nodes' : npu_nodes'[k].connected
    BY <1>0, <2>2, <2>4, <2>5, <2>7
  <2>9. {npu_nodes'[k].socket_fd : k \in DOMAIN npu_nodes'} = Fds \ FreeFds'
    <3>1. \A k \in DOMAIN npu_nodes' : npu_nodes'[k].socket_fd \in Listed \cup {s}
      BY <2>2, <2>4, <2>5, <2>7, Entries
    <3>2. \A r \in Listed \cup {s} : \E k \in DOMAIN npu_nodes' : npu_nodes'[k].socket_fd = r
      <4>1. Len(npu_nodes) + 1 \in DOMAIN npu_nodes'
            /\ \A k \in 1 .. Len(npu_nodes) : k \in DOMAIN npu_nodes'
        BY <2>5, Entries
      <4> QED
        BY <2>2, <2>4, <4>1, Entries
    <3>3. {npu_nodes'[k].socket_fd : k \in DOMAIN npu_nodes'} = Listed \cup {s}
      <4> HIDE DEF Listed
      <4> QED
        BY <3>1, <3>2
    <3> QED
      BY <1>0, <2>6, <3>3
  <2>10. IsFiniteSet(Fds \ FreeFds') /\ Cardinality(Fds \ FreeFds') = Len(npu_nodes')
    <3> DEFINE Open == Fds \ FreeFds
    <3>1. IsFiniteSet(Open) /\ Cardinality(Open) = Len(npu_nodes) /\ s \notin Open
      BY <1>0, <2>6
    <3>2. Fds \ FreeFds' = Open \cup {s}
      BY <2>6
    <3> HIDE DEF Open
    <3>3. IsFiniteSet(Open \cup {s}) /\ Cardinality(Open \cup {s}) = Cardinality(Open) + 1
      BY <3>1, FS_AddElement
    <3> QED
      BY <2>4, <3>1, <3>2, <3>3
  <2> QED
    BY <2>8, <2>9, <2>10 DEF ListInv, ListIsSockets
<1>3. CASE ListCleared
  <2>1. npu_nodes' = <<>> /\ Fds \ FreeFds' = {}
    BY <1>3 DEF ListCleared
  <2>2. DOMAIN npu_nodes' = {} /\ Len(npu_nodes') = 0
    BY <2>1
  <2>3. IsFiniteSet(Fds \ FreeFds') /\ Cardinality(Fds \ FreeFds') = 0
    BY <2>1, FS_EmptySet
  <2> QED
    BY <2>1, <2>2, <2>3 DEF ListInv, ListIsSockets
<1> QED
  BY ListStep, <1>1, <1>2, <1>3

\* The list holds one entry for each open socket and nothing else, through any
\* order of npu_add_node, hang-ups, sends and npu_close_all.
THEOREM ListMatchesSockets == LinkSpec => []ListIsSockets
<1>1. LinkInit => ListInv
  <2> SUFFICES ASSUME LinkInit PROVE ListInv
    OBVIOUS
  <2>1. npu_nodes = <<>> /\ Fds \ FreeFds = {}
    BY DEF LinkInit, Init, FreeFds
  <2>2. DOMAIN npu_nodes = {} /\ Len(npu_nodes) = 0
    BY <2>1
  <2>3. IsFiniteSet(Fds \ FreeFds) /\ Cardinality(Fds \ FreeFds) = 0
    BY <2>1, FS_EmptySet
  <2> QED
    BY <2>1, <2>2, <2>3 DEF ListInv, ListIsSockets
<1>2. TypeOK /\ ListInv /\ [LinkNext]_linkVars => ListInv'
  BY ListKeeps
<1>3. ListInv => ListIsSockets
  BY DEF ListInv
<1> QED
  BY <1>1, <1>2, <1>3, TypeCorrect, PTL DEF LinkSpec

----------------------------------------------------------------------------
\* What a piece of a node's text is made of.
LEMMA BodyPiece ==
    ASSUME NEW p \in BodyPieces
    PROVE  /\ p.of \in Bodies /\ p.of.n \in Nat /\ p.of.from \in Fds
           /\ Rank(p) \in Nat /\ 2 * p.of.n <= Rank(p) /\ Rank(p) <= 2 * p.of.n + 1
<1>1. p.of \in Bodies /\ p.of.n \in 1 .. MaxTexts /\ p.of.from \in Fds
  BY DEF BodyPieces, Bodies
<1>2. p.of.n \in Nat
  BY <1>1, NodesAssumption
<1> QED
  BY <1>1, <1>2 DEF Rank

\* A stream with two more pieces.
LEMMA TwoMore ==
    ASSUME NEW S, NEW d \in Seq(S), NEW x \in Seq(S), Len(x) = 2
    PROVE  /\ d \o x \in Seq(S) /\ Len(d) \in Nat
           /\ DOMAIN d = 1 .. Len(d) /\ DOMAIN (d \o x) = 1 .. Len(d) + 2
           /\ \A j \in 1 .. Len(d) : (d \o x)[j] = d[j]
           /\ (d \o x)[Len(d) + 1] = x[1] /\ (d \o x)[Len(d) + 2] = x[2]
<1>1. Len(d) \in Nat /\ d \o x \in Seq(S) /\ Len(d \o x) = Len(d) + 2
  <2>1. Len(d) \in Nat
    BY LenProperties
  <2>2. d \o x \in Seq(S)
    BY ConcatProperties
  <2>3. Len(d \o x) = Len(d) + Len(x)
    BY ConcatProperties
  <2> QED
    BY <2>1, <2>2, <2>3
<1>2. \A j \in 1 .. Len(d) + 2 : (d \o x)[j] = IF j <= Len(d) THEN d[j] ELSE x[j - Len(d)]
  BY <1>1, ConcatProperties
<1>3. \A j \in 1 .. Len(d) : j \in 1 .. Len(d) + 2 /\ j <= Len(d)
  BY <1>1
<1>4. /\ Len(d) + 1 \in 1 .. Len(d) + 2 /\ Len(d) + 2 \in 1 .. Len(d) + 2
      /\ ~(Len(d) + 1 <= Len(d)) /\ ~(Len(d) + 2 <= Len(d))
      /\ (Len(d) + 1) - Len(d) = 1 /\ (Len(d) + 2) - Len(d) = 2
  BY <1>1
<1>5. DOMAIN d = 1 .. Len(d) /\ DOMAIN (d \o x) = 1 .. Len(d) + 2
  BY <1>1, LenProperties
<1> QED
  BY <1>1, <1>2, <1>3, <1>4, <1>5

\* A new text, numbered after all others, keeps a stream in order.
LEMMA TextKeepsOrder ==
    ASSUME NEW d \in Seq(BodyPieces), NEW s, NEW n \in Nat, InOrder(d), Upto(d, s, n),
           NEW m \in Bodies, m.n = n + 1, m.from = s
    PROVE  /\ InOrder(d \o Text(m))
           /\ Upto(d \o Text(m), s, n + 1)
           /\ \A x \in Nat : x <= n /\ Later(d, x) => Later(d \o Text(m), x)
<1> DEFINE e == d \o Text(m)
           L == Len(d)
<1>1. /\ Text(m) \in Seq(BodyPieces) /\ Len(Text(m)) = 2
      /\ Text(m)[1] = [of |-> m, half |-> "first"] /\ Text(m)[2] = [of |-> m, half |-> "second"]
  BY TextIsPieces DEF BodyPieces
<1>2. /\ L \in Nat /\ DOMAIN d = 1 .. L /\ DOMAIN e = 1 .. L + 2
      /\ \A j \in 1 .. L : e[j] = d[j]
      /\ e[L + 1] = [of |-> m, half |-> "first"] /\ e[L + 2] = [of |-> m, half |-> "second"]
  <2> DEFINE x == Text(m)
  <2>1. x \in Seq(BodyPieces) /\ Len(x) = 2
    BY <1>1
  <2> HIDE DEF x
  <2>2. /\ Len(d) \in Nat /\ DOMAIN d = 1 .. Len(d) /\ DOMAIN (d \o x) = 1 .. Len(d) + 2
        /\ \A j \in 1 .. Len(d) : (d \o x)[j] = d[j]
        /\ (d \o x)[Len(d) + 1] = x[1] /\ (d \o x)[Len(d) + 2] = x[2]
    BY <2>1, TwoMore
  <2> QED
    BY <1>1, <2>2 DEF x
<1>3. \A j \in 1 .. L : d[j] \in BodyPieces
  BY ElementOfSeq
<1>4. /\ e[L + 1].of = m /\ e[L + 2].of = m
      /\ Rank(e[L + 1]) = 2 * (n + 1) /\ Rank(e[L + 2]) = 2 * (n + 1) + 1
  <2>1. e[L + 1].of = m /\ e[L + 2].of = m /\ e[L + 1].half = "first" /\ e[L + 2].half = "second"
    BY <1>2
  <2> HIDE DEF e, L
  <2> QED
    BY <2>1 DEF Rank
<1>5. \A j \in 1 .. L : Rank(d[j]) \in Nat /\ Rank(d[j]) <= 2 * n + 1 /\ d[j].of.n <= n
                        /\ d[j].of.n \in Nat /\ d[j].of.from = s
  <2> HIDE DEF e, L
  <2> TAKE j \in 1 .. L
  <2>1. d[j].of.from = s /\ d[j].of.n <= n
    BY <1>2 DEF Upto
  <2> DEFINE v == d[j].of.n
             w == Rank(d[j])
  <2>2. v \in Nat /\ w \in Nat /\ w <= 2 * v + 1 /\ v <= n
    BY <1>3, <2>1, BodyPiece
  <2>3. w <= 2 * n + 1
    <3> HIDE DEF v, w
    <3> QED
      BY <2>2
  <2> QED
    BY <2>1, <2>2, <2>3
<1>6. \A j \in 1 .. L + 2 : j \in 1 .. L \/ j = L + 1 \/ j = L + 2
  BY <1>2
<1> HIDE DEF e, L
<1>7. InOrder(e)
  <2> SUFFICES ASSUME NEW j \in 1 .. L + 2, NEW k \in 1 .. L + 2, j < k
               PROVE  Rank(e[j]) < Rank(e[k])
    BY <1>2 DEF InOrder
  <2>1. CASE k \in 1 .. L
    BY <1>2, <2>1 DEF InOrder
  <2>2. CASE j \in 1 .. L /\ k \notin 1 .. L
    <3>1. e[j] = d[j] /\ (k = L + 1 \/ k = L + 2)
      BY <1>2, <1>6, <2>2
    <3>2. Rank(e[j]) \in Nat /\ Rank(e[j]) <= 2 * n + 1
      BY <1>5, <2>2, <3>1
    <3>3. Rank(e[k]) = 2 * (n + 1) \/ Rank(e[k]) = 2 * (n + 1) + 1
      BY <1>4, <3>1
    <3> QED
      BY <3>2, <3>3
  <2>3. CASE j \notin 1 .. L /\ k \notin 1 .. L
    BY <1>2, <1>4, <1>6, <2>3
  <2> QED
    BY <1>2, <2>1, <2>2, <2>3
<1>8. Upto(e, s, n + 1)
  <2> SUFFICES ASSUME NEW j \in 1 .. L + 2
               PROVE  e[j].of.from = s /\ e[j].of.n <= n + 1
    BY <1>2 DEF Upto
  <2>1. CASE j \in 1 .. L
    BY <1>2, <1>5, <2>1
  <2>2. CASE j = L + 1 \/ j = L + 2
    BY <1>4, <2>2
  <2> QED
    BY <1>6, <2>1, <2>2
<1>9. ASSUME NEW x \in Nat, x <= n, Later(d, x)
      PROVE  Later(e, x)
  BY <1>2, <1>4, <1>6, <1>9 DEF Later
<1> QED
  BY <1>7, <1>8, <1>9 DEF e

\* recv takes the oldest part of a stream: what it leaves is in order, and
\* later than what it took, if that parses.
LEMMA RecvKeepsOrder ==
    ASSUME NEW d \in Seq(BodyPieces), NEW s, NEW n \in Nat, InOrder(d), Upto(d, s, n),
           NEW chunk \in Chunks(d)
    PROVE  /\ InOrder(Rest(d, chunk))
           /\ Upto(Rest(d, chunk), s, n)
           /\ \A x \in Nat : Later(d, x) => Later(Rest(d, chunk), x)
           /\ Parses(chunk) => /\ Parsed(chunk) \in Bodies
                               /\ Parsed(chunk).from = s
                               /\ Parsed(chunk).n <= n
                               /\ Later(Rest(d, chunk), Parsed(chunk).n)
                               /\ \A x \in Nat : Later(d, x) => x < Parsed(chunk).n
<1> DEFINE r == Rest(d, chunk)
           c == Len(chunk)
<1>1. /\ chunk \in Seq(BodyPieces) /\ r \in Seq(BodyPieces) /\ d = chunk \o r
      /\ c \in Nat /\ Len(r) \in Nat
  BY ChunkSplits
<1>2. /\ Len(d) = c + Len(r) /\ DOMAIN d = 1 .. c + Len(r) /\ DOMAIN r = 1 .. Len(r)
      /\ \A j \in 1 .. c : d[j] = chunk[j]
      /\ \A j \in 1 .. Len(r) : r[j] = d[j + c]
  <2> HIDE DEF r
  <2>1. /\ Len(d) = c + Len(r)
        /\ \A j \in 1 .. c + Len(r) : d[j] = IF j <= c THEN chunk[j] ELSE r[j - c]
    BY <1>1, ConcatProperties
  <2>2. \A j \in 1 .. Len(r) : r[j] = d[j + c]
    BY <1>1, <2>1
  <2>3. \A j \in 1 .. c : d[j] = chunk[j]
    BY <1>1, <2>1
  <2>4. DOMAIN d = 1 .. Len(d) /\ DOMAIN r = 1 .. Len(r)
    BY <1>1
  <2> QED
    BY <2>1, <2>2, <2>3, <2>4
<1> HIDE DEF r
<1>3. \A j \in 1 .. Len(r) : j + c \in DOMAIN d
  BY <1>1, <1>2
<1>4. InOrder(r)
  <2> SUFFICES ASSUME NEW j \in 1 .. Len(r), NEW k \in 1 .. Len(r), j < k
               PROVE  Rank(r[j]) < Rank(r[k])
    BY <1>2 DEF InOrder
  <2>1. j + c < k + c
    BY <1>1
  <2>2. Rank(d[j + c]) < Rank(d[k + c])
    BY <1>3, <2>1 DEF InOrder
  <2> QED
    BY <1>2, <2>2
<1>5. Upto(r, s, n)
  BY <1>2, <1>3 DEF Upto
<1>6. ASSUME NEW x \in Nat, Later(d, x)
      PROVE  Later(r, x)
  BY <1>2, <1>3, <1>6 DEF Later
<1>7. ASSUME Parses(chunk)
      PROVE  /\ Parsed(chunk) \in Bodies
             /\ Parsed(chunk).from = s
             /\ Parsed(chunk).n <= n
             /\ Later(r, Parsed(chunk).n)
             /\ \A x \in Nat : Later(d, x) => x < Parsed(chunk).n
  <2> DEFINE p == Parsed(chunk)
  <2>1. p \in Bodies /\ chunk = Text(p)
    BY <1>1, <1>7, ParsedIsText DEF BodyPieces
  <2>2. /\ c = 2 /\ chunk[1] = [of |-> p, half |-> "first"]
        /\ chunk[2] = [of |-> p, half |-> "second"]
    BY <2>1, TextIsPieces
  <2> HIDE DEF p
  <2>3. 1 \in DOMAIN d /\ 2 \in DOMAIN d /\ d[1].of = p /\ d[2] = [of |-> p, half |-> "second"]
    BY <1>1, <1>2, <2>2
  <2>4. p.n \in Nat /\ Rank(d[2]) = 2 * p.n + 1
    BY <2>1, <2>3, NodesAssumption DEF Bodies, Rank
  <2>5. ASSUME NEW j \in 1 .. Len(r)
        PROVE  p.n < r[j].of.n
    <3>1. r[j] \in BodyPieces /\ Rank(d[2]) < Rank(r[j])
      <4>1. 2 < j + c /\ r[j] = d[j + c]
        BY <1>1, <1>2, <2>2
      <4> QED
        BY <1>1, <1>3, <2>3, <4>1, ElementOfSeq DEF InOrder
    <3> DEFINE u == p.n
               v == r[j].of.n
               w == Rank(r[j])
    <3>2. v \in Nat /\ w \in Nat /\ w <= 2 * v + 1
      BY <3>1, BodyPiece
    <3>3. u \in Nat /\ 2 * u + 1 < w
      BY <2>4, <3>1
    <3> HIDE DEF u, v, w
    <3>4. u < v
      BY <3>2, <3>3
    <3> QED
      BY <3>4 DEF u, v
  <2>6. Later(r, p.n)
    BY <1>2, <2>5 DEF Later
  <2>7. p.from = s /\ p.n <= n
    BY <2>3 DEF Upto
  <2>8. \A x \in Nat : Later(d, x) => x < p.n
    BY <2>3 DEF Later
  <2> QED
    BY <2>1, <2>6, <2>7, <2>8 DEF p
<1> QED
  BY <1>4, <1>5, <1>6, <1>7 DEF r

\* What a step does to the streams from the nodes and to what was pushed.
FromKept == UNCHANGED <<from_node, pushed, texts>>

FromGrows(s) == \E kind \in Kinds : nodeSends(s, kind)

FromLost == (\E closed : Close(closed)) /\ UNCHANGED <<pushed, texts>>

FromRead(s) == \E chunk \in Chunks(from_node[s]) :
                  /\ from_node' = [from_node EXCEPT ![s] = Rest(@, chunk)]
                  /\ pushIfResponse(chunk)
                  /\ texts' = texts

LEMMA FromStep ==
    ASSUME TypeOK, LinkTypes, [LinkNext]_linkVars
    PROVE  FromKept \/ FromLost \/ \E s \in Fds : FromGrows(s) \/ FromRead(s)
<1>0. CASE UNCHANGED linkVars
  BY <1>0 DEF linkVars, vars, sockVars, FromKept
<1>1. ASSUME NEW s \in Fds, start(s) \/ nodeHangsUp(s)
      PROVE  FromKept
  BY <1>1 DEF start, npu_add_node, nodeHangsUp, FromKept
<1>2. ASSUME NEW s \in Fds, sendNext(s) \/ heartbeat_loop(s)
      PROVE  FromGrows(s)
  <2>1. CASE sendNext(s)
    <3>1. Head(sending[s]) \in Kinds
      BY <2>1, HeadTailProperties DEF sendNext, LinkTypes
    <3> QED
      BY <2>1, <3>1 DEF sendNext, FromGrows
  <2>2. CASE heartbeat_loop(s)
    BY <2>2 DEF heartbeat_loop, FromGrows, Kinds
  <2> QED
    BY <1>2, <2>1, <2>2
<1>3. ASSUME NEW s \in Fds, message_loop(s)
      PROVE  FromKept
  <2>1. UNCHANGED vars \/ nodeHangsUp(s)
    BY <1>3 DEF message_loop, handle_inference_task
  <2> QED
    BY <1>1, <2>1 DEF vars, sockVars, FromKept
<1>4. ASSUME npu_close_all
      PROVE  FromLost
  BY <1>4 DEF npu_close_all, FromLost
<1>5. ASSUME npu_set_task_manager \/ beginPoll \/ endPoll
      PROVE  FromKept
  BY <1>5 DEF npu_set_task_manager, beginPoll, endPoll, sockVars, FromKept
<1>6. ASSUME poll
      PROVE  FromKept \/ \E s \in Fds : FromRead(s)
  <2> DEFINE s == npu_nodes[cursor].socket_fd
  <2>1. s \in Fds
    BY <1>6, Entries DEF poll
  <2>2. FromKept \/ FromRead(s)
    BY <1>6 DEF poll, FromKept, FromRead
  <2> QED
    BY <2>1, <2>2
<1>7. ASSUME NEW node_idx \in 1 .. MAX_NPU_NODES, npu_send_to_node(node_idx)
      PROVE  FromKept \/ FromLost
  BY <1>7 DEF npu_send_to_node, sendUp, sendHungUp, sendReset, sendBroken, FromKept, FromLost
<1> QED
  BY NextSplit, <1>0, <1>1, <1>2, <1>3, <1>4, <1>5, <1>6, <1>7

\* What is pushed stays in order, and the streams stay later than it.
LEMMA PushKeeps ==
    ASSUME TypeOK, PushInv, FromKept \/ FromLost \/ \E s \in Fds : FromGrows(s) \/ FromRead(s)
    PROVE  PushInv'
<1>0. /\ \A r \in Fds : /\ from_node[r] \in Seq(BodyPieces)
                        /\ InOrder(from_node[r]) /\ Upto(from_node[r], r, texts)
      /\ pushed \in Seq(Bodies) /\ Len(pushed) \in Nat /\ DOMAIN pushed = 1 .. Len(pushed)
      /\ \A k \in 1 .. Len(pushed) : /\ pushed[k] \in Bodies
                                     /\ pushed[k].from \in Fds /\ pushed[k].n \in Nat
                                     /\ pushed[k].n <= texts
                                     /\ pushed[k].kind = "response"
                                     /\ Later(from_node[pushed[k].from], pushed[k].n)
      /\ \A j, k \in 1 .. Len(pushed) :
            j < k /\ pushed[j].from = pushed[k].from => pushed[j].n < pushed[k].n
      /\ texts \in Nat
  <2>1. pushed \in Seq(Bodies) /\ texts \in 0 .. MaxTexts
    BY DEF TypeOK
  <2>2. Len(pushed) \in Nat /\ DOMAIN pushed = 1 .. Len(pushed)
    BY <2>1, LenProperties
  <2>3. \A k \in 1 .. Len(pushed) : pushed[k] \in Bodies
    BY <2>1, ElementOfSeq
  <2>4. \A m \in Bodies : m.from \in Fds /\ m.n \in 1 .. MaxTexts
    BY DEF Bodies
  <2>5. \A x \in 0 .. MaxTexts : x \in Nat
    BY NodesAssumption
  <2>6. \A x \in 1 .. MaxTexts : x \in Nat
    BY NodesAssumption
  <2> QED
    BY <2>1, <2>2, <2>3, <2>4, <2>5, <2>6 DEF TypeOK, PushInv, PushedInOrder, BodyPieces
<1>1. CASE FromKept
  BY <1>1 DEF FromKept, PushInv, PushedInOrder
<1>2. CASE FromLost
  <2>1. \A r \in Fds : from_node'[r] = from_node[r] \/ from_node'[r] = <<>>
    BY <1>2 DEF FromLost, Close
  <2>2. \A r, n : InOrder(<<>>) /\ Upto(<<>>, r, n) /\ Later(<<>>, n)
    BY DEF InOrder, Upto, Later
  <2>3. UNCHANGED <<pushed, texts>>
    BY <1>2 DEF FromLost
  <2>4. \A r \in Fds : InOrder(from_node'[r]) /\ Upto(from_node'[r], r, texts)
    BY <1>0, <2>1, <2>2
  <2>5. \A k \in 1 .. Len(pushed) : Later(from_node'[pushed[k].from], pushed[k].n)
    BY <1>0, <2>1, <2>2
  <2> QED
    BY <1>0, <2>3, <2>4, <2>5 DEF PushInv, PushedInOrder
<1>3. ASSUME NEW s \in Fds, FromGrows(s)
      PROVE  PushInv'
  <2>1. PICK kind \in Kinds : nodeSends(s, kind)
    BY <1>3 DEF FromGrows
  <2> DEFINE m == [n |-> texts + 1, kind |-> kind, from |-> s]
  <2>2. /\ from_node' = [from_node EXCEPT ![s] = @ \o Text(m)]
        /\ texts' = texts + 1 /\ pushed' = pushed
    BY <2>1 DEF nodeSends
  <2>3. m \in Bodies /\ m.n = texts + 1 /\ m.from = s
    <3>1. texts < MaxTexts /\ MaxTexts \in Nat
      BY <2>1, NodesAssumption DEF nodeSends
    <3>2. texts + 1 \in 1 .. MaxTexts
      BY <1>0, <3>1
    <3> QED
      BY <3>2 DEF Bodies
  <2> HIDE DEF m
  <2>4. /\ InOrder(from_node[s] \o Text(m))
        /\ Upto(from_node[s] \o Text(m), s, texts + 1)
        /\ \A x \in Nat : x <= texts /\ Later(from_node[s], x)
                            => Later(from_node[s] \o Text(m), x)
    BY <1>0, <2>3, TextKeepsOrder
  <2>5. /\ from_node'[s] = from_node[s] \o Text(m)
        /\ \A r \in Fds \ {s} : from_node'[r] = from_node[r]
    BY <2>2 DEF TypeOK
  <2>6. \A r \in Fds : InOrder(from_node'[r]) /\ Upto(from_node'[r], r, texts + 1)
    <3>1. \A r \in Fds : Upto(from_node[r], r, texts + 1)
      <4> TAKE r \in Fds
      <4>1. from_node[r] \in Seq(BodyPieces) /\ Upto(from_node[r], r, texts)
        BY <1>0
      <4>2. \A j \in DOMAIN from_node[r] : from_node[r][j].of.n \in Nat
        <5>1. \A j \in DOMAIN from_node[r] : from_node[r][j] \in BodyPieces
          BY <4>1, ElementOfSeq
        <5> QED
          BY <5>1, BodyPiece
      <4> QED
        BY <1>0, <4>1, <4>2 DEF Upto
    <3> QED
      BY <1>0, <2>4, <2>5, <3>1
  <2>7. \A k \in 1 .. Len(pushed) : /\ Later(from_node'[pushed[k].from], pushed[k].n)
                                    /\ pushed[k].n <= texts + 1
    <3> TAKE k \in 1 .. Len(pushed)
    <3>1. /\ pushed[k].from \in Fds /\ pushed[k].n \in Nat /\ pushed[k].n <= texts
          /\ Later(from_node[pushed[k].from], pushed[k].n)
      BY <1>0
    <3>2. pushed[k].n <= texts + 1
      BY <1>0, <3>1
    <3>3. CASE pushed[k].from = s
      BY <2>4, <2>5, <3>1, <3>2, <3>3
    <3>4. CASE pushed[k].from # s
      BY <2>5, <3>1, <3>2, <3>4
    <3> QED
      BY <3>3, <3>4
  <2> QED
    BY <1>0, <2>2, <2>6, <2>7 DEF PushInv, PushedInOrder
<1>4. ASSUME NEW s \in Fds, FromRead(s)
      PROVE  PushInv'
  <2>1. PICK chunk \in Chunks(from_node[s]) :
           /\ from_node' = [from_node EXCEPT ![s] = Rest(@, chunk)]
           /\ pushIfResponse(chunk)
           /\ texts' = texts
    BY <1>4 DEF FromRead
  <2> DEFINE p == Parsed(chunk)
             rest == Rest(from_node[s], chunk)
  <2>2. /\ InOrder(rest)
        /\ Upto(rest, s, texts)
        /\ \A x \in Nat : Later(from_node[s], x) => Later(rest, x)
        /\ Parses(chunk) => /\ p \in Bodies /\ p.from = s /\ p.n <= texts
                            /\ Later(rest, p.n)
                            /\ \A x \in Nat : Later(from_node[s], x) => x < p.n
    BY <1>0, RecvKeepsOrder
  <2>3. from_node'[s] = rest /\ \A r \in Fds \ {s} : from_node'[r] = from_node[r]
    BY <2>1 DEF TypeOK
  <2>4. \/ pushed' = pushed
        \/ Parses(chunk) /\ p.kind = "response" /\ pushed' = Append(pushed, p)
    BY <2>1 DEF pushIfResponse
  <2> HIDE DEF p, rest
  <2>5. \A r \in Fds : InOrder(from_node'[r]) /\ Upto(from_node'[r], r, texts)
    BY <1>0, <2>2, <2>3
  <2>6. \A k \in 1 .. Len(pushed) : Later(from_node'[pushed[k].from], pushed[k].n)
    BY <1>0, <2>2, <2>3
  <2>7. CASE pushed' = pushed
    BY <1>0, <2>1, <2>5, <2>6, <2>7 DEF PushInv, PushedInOrder
  <2>8. CASE Parses(chunk) /\ p.kind = "response" /\ pushed' = Append(pushed, p)
    <3>1. /\ p \in Bodies /\ p.from = s /\ p.n <= texts /\ Later(rest, p.n)
          /\ \A x \in Nat : Later(from_node[s], x) => x < p.n
      BY <2>2, <2>8
    <3>2. /\ DOMAIN pushed' = 1 .. Len(pushed) + 1
          /\ \A k \in 1 .. Len(pushed) : pushed'[k] = pushed[k]
          /\ pushed'[Len(pushed) + 1] = p
      BY <1>0, <2>8, <3>1, AppendProperties, LenProperties
    <3>3. \A k \in 1 .. Len(pushed) + 1 : k \in 1 .. Len(pushed) \/ k = Len(pushed) + 1
      BY <1>0
    <3>4. \A k \in DOMAIN pushed' : /\ pushed'[k].n <= texts
                                    /\ pushed'[k].kind = "response"
                                    /\ Later(from_node'[pushed'[k].from], pushed'[k].n)
      BY <1>0, <2>3, <2>6, <2>8, <3>1, <3>2, <3>3
    <3>5. ASSUME NEW j \in DOMAIN pushed', NEW k \in DOMAIN pushed', j < k,
                 pushed'[j].from = pushed'[k].from
          PROVE  pushed'[j].n < pushed'[k].n
      <4>1. j \in 1 .. Len(pushed)
        BY <1>0, <3>2, <3>3, <3>5
      <4>2. CASE k \in 1 .. Len(pushed)
        BY <1>0, <3>2, <3>5, <4>1, <4>2
      <4>3. CASE k = Len(pushed) + 1
        <5>1. pushed[j].from = s /\ pushed'[k] = p /\ pushed'[j] = pushed[j]
          BY <3>1, <3>2, <3>5, <4>1, <4>3
        <5> QED
          BY <1>0, <3>1, <4>1, <5>1
      <4> QED
        BY <3>2, <3>3, <4>2, <4>3
    <3>6. PushedInOrder'
      BY <3>4, <3>5 DEF PushedInOrder
    <3> QED
      BY <2>1, <2>5, <3>4, <3>6 DEF PushInv
  <2> QED
    BY <2>4, <2>7, <2>8
<1> QED
  BY <1>1, <1>2, <1>3, <1>4

\* pushResponse is called with responses only, once each, and those of one
\* node in the order in which it sent them, wherever recv cuts its stream.
THEOREM PushesInOrder == LinkSpec => []PushedInOrder
<1>1. LinkInit => PushInv
  <2> SUFFICES ASSUME LinkInit PROVE PushInv
    OBVIOUS
  <2>1. pushed = <<>> /\ \A s \in Fds : from_node[s] = <<>>
    BY DEF LinkInit, Init
  <2>2. DOMAIN pushed = {} /\ \A s \in Fds : DOMAIN from_node[s] = {}
    BY <2>1
  <2> QED
    BY <2>2 DEF PushInv, PushedInOrder, InOrder, Upto
<1>2. TypeOK /\ LinkTypes /\ PushInv /\ [LinkNext]_linkVars => PushInv'
  BY FromStep, PushKeeps
<1>3. PushInv => PushedInOrder
  BY DEF PushInv
<1> QED
  BY <1>1, <1>2, <1>3, LinkTyped, PTL DEF LinkSpec

----------------------------------------------------------------------------
\* The pieces of a task's text.
LEMMA PieceTyped ==
    ASSUME NEW n \in Nat, NEW half \in Half
    PROVE  /\ Piece(n, half) \in TaskPieces
           /\ Piece(n, half).of.n = n /\ Piece(n, half).half = half
BY DEF Piece, TaskPieces, Tasks

\* What a piece of a task's text is made of.
LEMMA TaskPiece ==
    ASSUME NEW p \in TaskPieces
    PROVE  p.of.n \in Nat /\ p.half \in Half /\ p = Piece(p.of.n, p.half)
<1>1. p.of \in Tasks /\ p.half \in Half /\ p = [of |-> p.of, half |-> p.half]
  BY DEF TaskPieces
<1>2. p.of.n \in Nat /\ p.of = [n |-> p.of.n, kind |-> "task"]
  BY <1>1 DEF Tasks
<1> QED
  BY <1>1, <1>2 DEF Piece

\* The first half of the next task goes into the stream.
LEMMA FirstTaken ==
    ASSUME NEW d \in Seq(TaskPieces), NEW c \in Nat, Streams(d, c)
    PROVE  LET e == Append(d, Piece(c + 1, "first")) IN
           e \in Seq(TaskPieces) /\ Streams(e, c)
<1> DEFINE p == Piece(c + 1, "first")
           e == Append(d, p)
           L == Len(d)
<1>1. p \in TaskPieces /\ p.of.n = c + 1 /\ p.half = "first"
  BY PieceTyped DEF Half
<1> HIDE DEF p
<1>2. /\ e \in Seq(TaskPieces) /\ L \in Nat /\ Len(e) = L + 1
      /\ \A j \in 1 .. L : e[j] = d[j]
      /\ e[L + 1] = p
  BY <1>1, AppendProperties, LenProperties
<1>3. \A j \in 1 .. L + 1 : j \in 1 .. L \/ j = L + 1
  BY <1>2
<1>4. CASE L = 0
  <2>1. c = 0 /\ e[1] = p
    BY <1>2, <1>4, EmptySeq DEF Streams
  <2> HIDE DEF e
  <2>2. e # <<>> /\ Len(e) = 1 /\ p = Piece(1, "first")
    <3>1. Len(e) = 1 /\ c + 1 = 1
      BY <1>2, <1>4, <2>1
    <3> QED
      BY <1>2, <3>1, EmptySeq DEF p
  <2>3. Streams(e, c)
    BY <1>1, <2>1, <2>2 DEF Streams
  <2> QED
    BY <1>2, <2>3 DEF e, p
<1>5. CASE L # 0
  <2>0. d # <<>> /\ L \in 1 .. L /\ 1 \in 1 .. L /\ e # <<>>
    BY <1>2, <1>5, EmptySeq
  <2> HIDE DEF e
  <2>1. Follows(d[L], p)
    <3>1. d[L] \in TaskPieces
      BY <2>0, ElementOfSeq
    <3>2. d[L].of.n \in Nat /\ d[L].half \in Half
      BY <3>1, TaskPiece
    <3>3. c + 1 = IF d[L].half = "second" THEN d[L].of.n + 1 ELSE d[L].of.n
      BY <2>0 DEF Streams
    <3> QED
      BY <3>2, <3>3 DEF Follows, p
  <2>2. \A j \in 1 .. Len(e) - 1 : Follows(e[j], e[j + 1])
    <3> TAKE j \in 1 .. Len(e) - 1
    <3>1. j \in 1 .. L /\ ((j + 1 \in 1 .. L /\ j \in 1 .. L - 1) \/ j = L)
      BY <1>2
    <3>2. CASE j + 1 \in 1 .. L /\ j \in 1 .. L - 1
      BY <1>2, <3>1, <3>2 DEF Streams
    <3>3. CASE j = L
      BY <1>2, <2>0, <2>1, <3>3
    <3> QED
      BY <3>1, <3>2, <3>3
  <2>3. \A j \in 1 .. Len(e) : e[j].half = "second" => e[j].of.n <= c
    BY <1>1, <1>2, <1>3 DEF Streams
  <2>4. Streams(e, c)
    BY <1>1, <1>2, <2>0, <2>2, <2>3 DEF Streams
  <2> QED
    BY <1>2, <2>4 DEF e, p
<1> QED
  BY <1>4, <1>5

\* The second half goes after the first, and the send returns true.
LEMMA SecondTaken ==
    ASSUME NEW d \in Seq(TaskPieces), NEW c \in Nat, Streams(d, c),
           Len(d) # 0, d[Len(d)] = Piece(c + 1, "first")
    PROVE  LET e == Append(d, Piece(c + 1, "second")) IN
           e \in Seq(TaskPieces) /\ Streams(e, c + 1)
<1> DEFINE p == Piece(c + 1, "second")
           e == Append(d, p)
           L == Len(d)
<1>1. p \in TaskPieces /\ p.of.n = c + 1 /\ p.half = "second"
  BY PieceTyped DEF Half
<1>2. Follows(d[L], p)
  <2>1. d[L].of.n = c + 1 /\ d[L].half = "first"
    BY PieceTyped DEF Half
  <2> QED
    BY <2>1 DEF Follows
<1> HIDE DEF p
<1>3. /\ e \in Seq(TaskPieces) /\ L \in Nat /\ Len(e) = L + 1
      /\ \A j \in 1 .. L : e[j] = d[j]
      /\ e[L + 1] = p
  BY <1>1, AppendProperties, LenProperties
<1>4. \A j \in 1 .. L + 1 : j \in 1 .. L \/ j = L + 1
  BY <1>3
<1>5. d # <<>> /\ L \in 1 .. L /\ 1 \in 1 .. L /\ e # <<>>
  BY <1>3, EmptySeq
<1> HIDE DEF e
<1>6. \A j \in 1 .. Len(e) - 1 : Follows(e[j], e[j + 1])
  <2> TAKE j \in 1 .. Len(e) - 1
  <2>1. j \in 1 .. L /\ ((j + 1 \in 1 .. L /\ j \in 1 .. L - 1) \/ j = L)
    BY <1>3
  <2>2. CASE j + 1 \in 1 .. L /\ j \in 1 .. L - 1
    BY <1>3, <2>1, <2>2 DEF Streams
  <2>3. CASE j = L
    BY <1>2, <1>3, <1>5, <2>3
  <2> QED
    BY <2>1, <2>2, <2>3
<1>7. \A j \in 1 .. Len(e) : e[j].half = "second" => e[j].of.n <= c + 1
  <2> TAKE j \in 1 .. Len(e)
  <2>1. CASE j \in 1 .. L
    <3>1. d[j] \in TaskPieces
      BY <2>1, ElementOfSeq
    <3>2. d[j].of.n \in Nat
      BY <3>1, TaskPiece
    <3> QED
      BY <1>3, <2>1, <3>2 DEF Streams
  <2>2. CASE j = L + 1
    BY <1>1, <1>3, <2>2
  <2> QED
    BY <1>3, <1>4, <2>1, <2>2
<1>8. Streams(e, c + 1)
  BY <1>1, <1>3, <1>5, <1>6, <1>7 DEF Streams
<1> QED
  BY <1>3, <1>8 DEF e, p

\* The next piece is of a later task than every second half before it.
LEMMA SecondsGrow ==
    ASSUME NEW d \in Seq(TaskPieces), NEW c \in Nat, Streams(d, c), Seconds(d),
           NEW half \in Half
    PROVE  Seconds(Append(d, Piece(c + 1, half)))
<1> DEFINE p == Piece(c + 1, half)
           e == Append(d, p)
           L == Len(d)
<1>1. p \in TaskPieces /\ p.of.n = c + 1
  BY PieceTyped
<1> HIDE DEF p
<1>2. /\ L \in Nat /\ Len(e) = L + 1
      /\ \A j \in 1 .. L : e[j] = d[j]
      /\ e[L + 1] = p
  BY <1>1, AppendProperties, LenProperties
<1> HIDE DEF e
<1> SUFFICES ASSUME NEW i \in 1 .. Len(e), NEW j \in 1 .. Len(e), i < j, e[i].half = "second"
             PROVE  e[i].of.n < e[j].of.n
  BY DEF Seconds, e, p
<1>3. i \in 1 .. L /\ e[i] = d[i] /\ d[i] \in TaskPieces
  BY <1>2, ElementOfSeq
<1>4. CASE j \in 1 .. L
  BY <1>2, <1>3, <1>4 DEF Seconds
<1>5. CASE j = L + 1
  <2>1. d[i].of.n \in Nat /\ d[i].of.n <= c
    BY <1>3, TaskPiece DEF Streams
  <2> QED
    BY <1>1, <1>2, <1>3, <1>5, <2>1
<1> QED
  BY <1>2, <1>4, <1>5

\* What a send may take of a pair.
LEMMA PairParts ==
  ASSUME NEW S, NEW x \in S, NEW y \in S
  PROVE  SubSeq(<<x, y>>, 1, 1) = <<x>> /\ SubSeq(<<x, y>>, 1, 2) = <<x, y>>
<1> DEFINE t == <<x, y>>
           one == SubSeq(t, 1, 1)
           two == SubSeq(t, 1, 2)
<1>1. t \in Seq(S) /\ Len(t) = 2 /\ t[1] = x /\ t[2] = y
  OBVIOUS
<1> HIDE DEF t
<1>2. one \in Seq(S) /\ Len(one) = 1 /\ one[1] = x
  BY <1>1, SubSeqProperties
<1>3. two \in Seq(S) /\ Len(two) = 2 /\ two[1] = x /\ two[2] = y
  BY <1>1, SubSeqProperties
<1> HIDE DEF one, two
<1>4. one = <<x>> /\ two = <<x, y>>
  BY <1>2, <1>3
<1> QED
  BY <1>4 DEF t, one, two

\* A send takes nothing, a part or all of the next text, and returns true for
\* all of it only.
LEMMA SendTaken ==
    ASSUME NEW d \in Seq(TaskPieces), NEW c \in Nat, Streams(d, c), Seconds(d),
           NEW text, text = Text([n |-> c + 1, kind |-> "task"]),
           NEW part \in Chunks(text) \cup {<<>>},
           NEW b, b = IF SendResult(part, text) THEN c + 1 ELSE c
    PROVE  Streams(d \o part, b) /\ Seconds(d \o part)
<1> DEFINE p == Piece(c + 1, "first")
           q == Piece(c + 1, "second")
<1>1. p \in TaskPieces /\ q \in TaskPieces
  BY PieceTyped DEF Half
<1>2. text = <<p, q>>
  BY DEF Text, Piece
<1> HIDE DEF p, q
<1>3. part = <<>> \/ part = <<p>> \/ part = <<p, q>>
  <2>1. Len(text) = 2
    BY <1>2
  <2>2. ASSUME part \in Chunks(text)
        PROVE  part = SubSeq(text, 1, 1) \/ part = SubSeq(text, 1, 2)
    <3>1. PICK n \in 1 .. 2 : part = SubSeq(text, 1, n)
      BY <2>1, <2>2 DEF Chunks
    <3> QED
      BY <3>1
  <2>3. SubSeq(text, 1, 1) = <<p>> /\ SubSeq(text, 1, 2) = <<p, q>>
    BY <1>1, <1>2, PairParts
  <2> QED
    BY <2>2, <2>3
<1>4. CASE part = <<>>
  <2>1. d \o part = d
    BY <1>4
  <2>2. part # text
    <3>1. Len(part) = 0 /\ Len(text) = 2
      BY <1>2, <1>4
    <3> QED
      BY <3>1
  <2> QED
    BY <2>1, <2>2 DEF SendResult
<1> DEFINE e == Append(d, p)
<1>5. e \in Seq(TaskPieces) /\ Streams(e, c) /\ Seconds(e)
  BY FirstTaken, SecondsGrow DEF p, Half
<1>6. CASE part = <<p>>
  <2>1. d \o part = e
    BY <1>1, <1>6
  <2> HIDE DEF e
  <2>2. part # text
    <3>1. Len(part) = 1 /\ Len(text) = 2
      BY <1>2, <1>6
    <3>2. part = text => Len(part) = Len(text)
      OBVIOUS
    <3>3. 1 # 2
      OBVIOUS
    <3> QED
      BY ONLY <3>1, <3>2, <3>3
  <2> QED
    BY <1>5, <2>1, <2>2 DEF SendResult
<1>7. CASE part = <<p, q>>
  <2>1. d \o part = Append(e, q)
    BY <1>1, <1>7
  <2>2. Len(e) # 0 /\ e[Len(e)] = p
    BY <1>1, AppendProperties, LenProperties
  <2> HIDE DEF e
  <2>3. Streams(Append(e, q), c + 1) /\ Seconds(Append(e, q))
    BY <1>5, <2>2, SecondTaken, SecondsGrow DEF p, q, Half
  <2> QED
    BY <1>2, <1>7, <2>1, <2>3 DEF SendResult
<1> QED
  BY <1>3, <1>4, <1>6, <1>7

\* What the node reads is the next pieces of the stream, and a text that parses
\* is the next task, written in full.
LEMMA ReadNext ==
    ASSUME NEW d \in Seq(TaskPieces), NEW c \in Nat, Streams(d, c),
           NEW data \in Seq(TaskPieces), NEW t \in Nat, NEW done \in Seq(Nat),
           Reads(d, data, t, done),
           NEW chunk \in Chunks(SubSeq(d, t + 1, Len(d)))
    PROVE  LET text == data \o chunk IN
           /\ Reads(d, text, t + Len(chunk), done)
           /\ Parses(text) => Reads(d, <<>>, t + Len(chunk), Append(done, Parsed(text).n))
<1> DEFINE rest == SubSeq(d, t + 1, Len(d))
           text == data \o chunk
           h == Len(done)
           l == Len(data)
           n == Len(chunk)
<1>0. h \in Nat /\ l \in Nat /\ Len(d) \in Nat /\ t <= Len(d) /\ t = 2 * h + l
  BY LenProperties DEF Reads
<1>1. /\ rest \in Seq(TaskPieces) /\ Len(rest) = Len(d) - t
      /\ \A j \in 1 .. Len(d) - t : rest[j] = d[t + j]
  <2>1. \A j \in t + 1 .. Len(d) : d[j] \in TaskPieces
    BY <1>0, ElementOfSeq
  <2>2. /\ rest \in Seq(TaskPieces)
        /\ Len(rest) = IF t + 1 <= Len(d) THEN Len(d) - (t + 1) + 1 ELSE 0
        /\ \A j \in 1 .. Len(d) - (t + 1) + 1 : rest[j] = d[t + 1 + j - 1]
    BY <1>0, <2>1, SubSeqProperties
  <2> HIDE DEF rest
  <2>3. Len(rest) = Len(d) - t
    <3>1. t + 1 <= Len(d) => Len(d) - (t + 1) + 1 = Len(d) - t
      BY <1>0
    <3>2. ~(t + 1 <= Len(d)) => Len(d) - t = 0
      BY <1>0
    <3> QED
      BY <2>2, <3>1, <3>2
  <2>4. ASSUME NEW j \in 1 .. Len(d) - t
        PROVE  rest[j] = d[t + j]
    <3>1. j \in 1 .. Len(d) - (t + 1) + 1 /\ t + 1 + j - 1 = t + j
      BY <1>0
    <3> QED
      BY <2>2, <3>1
  <2> QED
    BY <2>2, <2>3, <2>4
<1> HIDE DEF rest
<1>2. /\ chunk \in Seq(TaskPieces) /\ n \in Nat /\ n <= Len(d) - t
      /\ \A j \in 1 .. n : chunk[j] = d[t + j]
  <2>1. chunk \in Chunks(rest)
    BY DEF rest
  <2>2. chunk \in Seq(TaskPieces)
    BY <1>1, <2>1, ChunkSplits
  <2>3. PICK m \in 1 .. Len(rest) : chunk = SubSeq(rest, 1, m)
    BY <2>1 DEF Chunks
  <2>4. m \in Nat /\ m >= 1 /\ m <= Len(d) - t
    BY <1>0, <1>1, <2>3
  <2>5. \A j \in 1 .. m : rest[j] \in TaskPieces
    BY <1>0, <1>1, <2>4, ElementOfSeq
  <2>6. n = m /\ \A j \in 1 .. m : chunk[j] = rest[j]
    BY <2>3, <2>4, <2>5, SubSeqProperties
  <2>7. n \in Nat /\ n <= Len(d) - t
    BY <2>4, <2>6
  <2>8. \A j \in 1 .. n : j \in 1 .. Len(d) - t
    BY <1>0, <2>7
  <2> HIDE DEF n
  <2> QED
    BY <1>1, <2>2, <2>6, <2>7, <2>8
<1>3. /\ text \in Seq(TaskPieces) /\ Len(text) = l + n
      /\ \A j \in 1 .. l + n : text[j] = d[2 * h + j]
  <2>1. /\ text \in Seq(TaskPieces) /\ Len(text) = l + n
        /\ \A j \in 1 .. l + n : text[j] = IF j <= l THEN data[j] ELSE chunk[j - l]
    BY <1>2, ConcatProperties
  <2> HIDE DEF text
  <2>2. ASSUME NEW j \in 1 .. l + n
        PROVE  text[j] = d[2 * h + j]
    <3>1. CASE j <= l
      <4>1. j \in 1 .. l /\ text[j] = data[j]
        BY <1>0, <2>1, <3>1
      <4> QED
        BY <4>1 DEF Reads
    <3>2. CASE ~(j <= l)
      <4>1. j - l \in 1 .. n /\ text[j] = chunk[j - l] /\ t + (j - l) = 2 * h + j
        BY <1>0, <1>2, <2>1, <3>2
      <4>2. chunk[j - l] = d[t + (j - l)]
        BY <1>2, <4>1
      <4> QED
        BY <4>1, <4>2
    <3> QED
      BY <3>1, <3>2
  <2> QED
    BY <2>1, <2>2
<1> HIDE DEF text
<1>4. Reads(d, text, t + n, done)
  <2>1. t + n <= Len(d) /\ t + n = 2 * h + Len(text)
    BY <1>0, <1>2, <1>3
  <2> QED
    BY <1>3, <2>1 DEF Reads
<1>5. ASSUME Parses(text)
      PROVE  Reads(d, <<>>, t + n, Append(done, Parsed(text).n))
  <2>1. /\ Parsed(text) \in Tasks /\ Len(text) = 2
        /\ text[1] = [of |-> Parsed(text), half |-> "first"]
        /\ text[2] = [of |-> Parsed(text), half |-> "second"]
    <3>1. Parsed(text) \in Tasks /\ text = Text(Parsed(text))
      BY <1>3, <1>5, ParsedIsText DEF TaskPieces
    <3> QED
      BY <3>1, TextIsPieces
  <2>2. /\ d[2 * h + 1] = text[1] /\ d[2 * h + 2] = text[2]
        /\ 2 * h + 2 <= Len(d) /\ t + n = 2 * h + 2
    <3> HIDE DEF h, l, n
    <3>1. l + n = 2
      BY <1>3, <2>1
    <3>2. 1 \in 1 .. l + n /\ 2 \in 1 .. l + n
      BY <3>1
    <3>3. t + n = 2 * h + 2 /\ 2 * h + 2 <= Len(d)
      BY <1>0, <1>2, <3>1
    <3> QED
      BY <1>3, <3>2, <3>3
  <2>3. d[2 * h + 1] = Piece(h + 1, "first")
    <3>1. CASE h = 0
      <4>1. 2 * h + 1 = 1 /\ h + 1 = 1 /\ Len(d) # 0
        BY <1>0, <2>2, <3>1
      <4>2. d # <<>>
        BY <4>1, EmptySeq
      <4> QED
        BY <4>1, <4>2 DEF Streams
    <3>2. CASE h # 0
      <4>1. h \in 1 .. h /\ 2 * h \in 1 .. Len(d) - 1
        BY <1>0, <2>2, <3>2
      <4>2. d[2 * h] = Piece(h, "second")
        BY <4>1 DEF Reads
      <4>3. Follows(d[2 * h], d[2 * h + 1])
        BY <4>1 DEF Streams
      <4>4. d[2 * h].half = "second" /\ d[2 * h].of.n = h
        BY <1>0, <4>2, PieceTyped DEF Half
      <4> QED
        BY <4>3, <4>4 DEF Follows
    <3> QED
      BY <3>1, <3>2
  <2>4. Parsed(text) = [n |-> h + 1, kind |-> "task"]
    BY <2>1, <2>2, <2>3 DEF Piece
  <2>5. d[2 * (h + 1)] = Piece(h + 1, "second")
    <3>1. 2 * (h + 1) = 2 * h + 2
      BY <1>0
    <3> QED
      BY <2>1, <2>2, <2>4, <3>1 DEF Piece
  <2> DEFINE after == Append(done, h + 1)
  <2>6. /\ Append(done, Parsed(text).n) = after
        /\ Len(after) = h + 1 /\ after[h + 1] = h + 1
        /\ \A k \in 1 .. h : after[k] = done[k]
    BY <1>0, <2>4, AppendProperties
  <2> HIDE DEF after
  <2>7. \A k \in 1 .. h + 1 : after[k] = k /\ d[2 * k] = Piece(k, "second")
    <3> TAKE k \in 1 .. h + 1
    <3>1. CASE k \in 1 .. h
      BY <2>6, <3>1 DEF Reads
    <3>2. CASE k = h + 1
      BY <2>5, <2>6, <3>2
    <3> QED
      BY <1>0, <3>1, <3>2
  <2>8. t + n <= Len(d) /\ t + n = 2 * Len(after) + Len(<<>>)
    BY <1>0, <2>2, <2>6
  <2>9. \A j \in 1 .. Len(<<>>) : <<>>[j] = d[2 * Len(after) + j]
    OBVIOUS
  <2>10. Reads(d, <<>>, t + n, after)
    BY <2>6, <2>7, <2>8, <2>9 DEF Reads
  <2> QED
    BY <2>6, <2>10
<1> QED
  BY <1>4, <1>5 DEF text

\* A node that has just been connected has read nothing of whatever is there.
LEMMA ReadsNone ==
    ASSUME NEW d \in Seq(TaskPieces)
    PROVE  Reads(d, <<>>, 0, <<>>)
<1>1. Len(d) \in Nat
  BY LenProperties
<1> QED
  BY <1>1 DEF Reads

\* What goes into the stream later does not change what has been read of it.
LEMMA ReadsOn ==
    ASSUME NEW d \in Seq(TaskPieces), NEW part \in Seq(TaskPieces),
           NEW data \in Seq(TaskPieces), NEW t \in Nat, NEW done \in Seq(Nat),
           Reads(d, data, t, done)
    PROVE  Reads(d \o part, data, t, done)
<1> DEFINE e == d \o part
<1>1. /\ Len(d) \in Nat /\ Len(part) \in Nat /\ Len(data) \in Nat /\ Len(done) \in Nat
      /\ t <= Len(d) /\ t = 2 * Len(done) + Len(data)
  BY LenProperties DEF Reads
<1>2. Len(e) = Len(d) + Len(part) /\ \A j \in 1 .. Len(d) : e[j] = d[j]
  <2>1. /\ Len(e) = Len(d) + Len(part)
        /\ \A j \in 1 .. Len(d) + Len(part) : e[j] = IF j <= Len(d) THEN d[j]
                                                                  ELSE part[j - Len(d)]
    BY ConcatProperties
  <2> HIDE DEF e
  <2> QED
    BY <1>1, <2>1
<1> HIDE DEF e
<1>3. t <= Len(e)
  BY <1>1, <1>2
<1>4. \A j \in 1 .. Len(data) : data[j] = e[2 * Len(done) + j]
  <2> TAKE j \in 1 .. Len(data)
  <2>1. 2 * Len(done) + j \in 1 .. Len(d)
    BY <1>1
  <2> QED
    BY <1>2, <2>1 DEF Reads
<1>5. \A n \in 1 .. Len(done) : done[n] = n /\ e[2 * n] = Piece(n, "second")
  <2> TAKE n \in 1 .. Len(done)
  <2>1. 2 * n \in 1 .. Len(d)
    BY <1>1
  <2> QED
    BY <1>2, <2>1 DEF Reads
<1> QED
  BY <1>1, <1>3, <1>4, <1>5 DEF Reads, e

----------------------------------------------------------------------------
\* What a step does to the stream to a node, and to what the node has read.
StreamKept(s) ==
    /\ to_node'[s] = to_node[s]
    /\ IF Counted(socket'[s])
       THEN Counted(socket[s]) /\ confirmed'[s] = confirmed[s]
       ELSE confirmed'[s] \in {confirmed[s], confirmed[s] + 1}

StreamLost(s) == to_node'[s] = <<>> /\ confirmed'[s] = 0 /\ socket'[s] = "closed"

StreamSent(s) ==
    LET text == Text([n |-> confirmed[s] + 1, kind |-> "task"]) IN
    /\ socket[s] = "up" /\ socket'[s] = "up"
    /\ \E part \in Chunks(text) \cup {<<>>} :
        /\ to_node'[s] = to_node[s] \o part
        /\ confirmed'[s] = IF SendResult(part, text) THEN confirmed[s] + 1 ELSE confirmed[s]

NodeKept(s) == /\ message_data'[s] = message_data[s]
               /\ taken'[s] = taken[s]
               /\ handled'[s] = handled[s]

NodeLost(s) == message_data'[s] = <<>> /\ taken'[s] = 0 /\ handled'[s] = <<>>

NodeReads(s) ==
    \E chunk \in Chunks(Unread(s)) :
        LET text == Joined(message_data[s], chunk) IN
        /\ taken'[s] = taken[s] + Len(chunk)
        /\ \/ /\ Parses(text)
              /\ message_data'[s] = <<>>
              /\ handled'[s] = Append(handled[s], Parsed(text).n)
           \/ message_data'[s] = text /\ handled'[s] = handled[s]

Effect(s) == \/ StreamKept(s) /\ (NodeKept(s) \/ NodeLost(s) \/ NodeReads(s))
             \/ StreamLost(s) /\ NodeLost(s)
             \/ StreamSent(s) /\ (NodeKept(s) \/ NodeLost(s))

\* A node's program keeps what it has or ends, and ends with its connection.
LEMMA EndsWithConnection ==
    ASSUME nodeEnds, NEW s \in Fds
    PROVE  /\ NodeKept(s) \/ NodeLost(s)
           /\ socket'[s] = "closed" => NodeLost(s)
BY DEF nodeEnds, NodeKept, NodeLost

\* The gateway's close and the end of the node's program come together.
LEMMA CloseEffect ==
    ASSUME nodeEnds, NEW closed, Close(closed), NEW s \in Fds
    PROVE  Effect(s)
<1>1. CASE s \in closed
  <2>1. socket'[s] = "closed" /\ StreamLost(s)
    BY <1>1 DEF Close, StreamLost
  <2> QED
    BY <2>1, EndsWithConnection DEF Effect
<1>2. CASE s \notin closed
  <2>1. StreamKept(s)
    BY <1>2 DEF Close, StreamKept
  <2> QED
    BY <2>1, EndsWithConnection DEF Effect
<1> QED
  BY <1>1, <1>2

\* A node that hangs up is not one that is there.
LEMMA HangUpCounted ==
    ASSUME TypeOK, NEW s \in Fds, nodeHangsUp(s), NEW r \in Fds
    PROVE  Counted(socket'[r]) => Counted(socket[r])
<1>1. PICK state \in {"hung up", "reset", "broken"} : socket' = [socket EXCEPT ![s] = state]
  BY DEF nodeHangsUp
<1> QED
  BY <1>1 DEF TypeOK, Counted

\* Each step has one of these effects on each connection.
LEMMA EffectStep ==
    ASSUME TypeOK, LinkTypes, [LinkNext]_linkVars, NEW r \in Fds
    PROVE  Effect(r)
<1>0. CASE UNCHANGED linkVars
  BY <1>0 DEF linkVars, vars, sockVars, nodeVars, Effect, StreamKept, NodeKept
<1>1. ASSUME UNCHANGED <<to_node, confirmed, message_data, taken, handled>>,
             Counted(socket'[r]) => Counted(socket[r])
      PROVE  Effect(r)
  BY <1>1 DEF Effect, StreamKept, NodeKept, LinkTypes
<1>2. ASSUME NEW s \in Fds, start(s) \/ sendNext(s) \/ heartbeat_loop(s)
      PROVE  Effect(r)
  <2>1. UNCHANGED <<to_node, confirmed, message_data, taken, handled>>
    BY <1>2 DEF start, npu_add_node, sendNext, heartbeat_loop, nodeSends, nodeVars
  <2>2. Counted(socket'[r]) => Counted(socket[r])
    <3>1. CASE start(s)
      <4>1. PICK f \in FreeFds : socket' = [socket EXCEPT ![f] = "up"]
        BY <3>1 DEF start, npu_add_node
      <4> QED
        BY <4>1 DEF TypeOK, FreeFds, Counted
    <3>2. CASE sendNext(s) \/ heartbeat_loop(s)
      BY <3>2 DEF sendNext, heartbeat_loop, nodeSends
    <3> QED
      BY <1>2, <3>1, <3>2
  <2> QED
    BY <1>1, <2>1, <2>2
<1>3. ASSUME NEW s \in Fds, nodeHangsUp(s), UNCHANGED nodeVars
      PROVE  Effect(r)
  <2>1. UNCHANGED <<to_node, confirmed, message_data, taken, handled>>
    BY <1>3 DEF nodeHangsUp, nodeVars
  <2>2. Counted(socket'[r]) => Counted(socket[r])
    BY <1>3, HangUpCounted
  <2> QED
    BY <1>1, <2>1, <2>2
<1>4. ASSUME NEW s \in Fds, message_loop(s)
      PROVE  Effect(r)
  <2>1. PICK chunk \in Chunks(Unread(s)) :
           /\ taken' = [taken EXCEPT ![s] = @ + Len(chunk)]
           /\ LET text == Joined(message_data[s], chunk) IN
                IF Parses(text)
                THEN /\ message_data' = [message_data EXCEPT ![s] = <<>>]
                     /\ handled' = [handled EXCEPT ![s] = Append(@, Parsed(text).n)]
                     /\ handle_inference_task(s)
                ELSE /\ message_data' = [message_data EXCEPT ![s] = text]
                     /\ UNCHANGED <<vars, sending, handled>>
    BY <1>4 DEF message_loop
  <2> DEFINE text == Joined(message_data[s], chunk)
  <2>2. StreamKept(r)
    <3>1. UNCHANGED vars \/ nodeHangsUp(s)
      BY <2>1 DEF handle_inference_task
    <3>2. UNCHANGED <<to_node, confirmed>> /\ (Counted(socket'[r]) => Counted(socket[r]))
      BY <3>1, HangUpCounted DEF vars, sockVars, nodeHangsUp
    <3> QED
      BY <3>2 DEF StreamKept
  <2>3. /\ taken' = [taken EXCEPT ![s] = @ + Len(chunk)]
        /\ \/ /\ Parses(text)
              /\ message_data' = [message_data EXCEPT ![s] = <<>>]
              /\ handled' = [handled EXCEPT ![s] = Append(@, Parsed(text).n)]
           \/ message_data' = [message_data EXCEPT ![s] = text] /\ handled' = handled
    BY <2>1
  <2> HIDE DEF text
  <2>4. CASE r = s
    <3>1. /\ taken'[s] = taken[s] + Len(chunk)
          /\ \/ /\ Parses(text)
                /\ message_data'[s] = <<>>
                /\ handled'[s] = Append(handled[s], Parsed(text).n)
             \/ message_data'[s] = text /\ handled'[s] = handled[s]
      BY <2>3 DEF LinkTypes
    <3>2. NodeReads(s)
      BY <2>1, <3>1 DEF NodeReads, text
    <3> QED
      BY <2>2, <2>4, <3>2 DEF Effect
  <2>5. CASE r # s
    <3>1. NodeKept(r)
      BY <2>3, <2>5 DEF NodeKept, LinkTypes
    <3> QED
      BY <2>2, <3>1 DEF Effect
  <2> QED
    BY <2>4, <2>5
<1>5. ASSUME nodeEnds, npu_close_all
      PROVE  Effect(r)
  BY <1>5, CloseEffect DEF npu_close_all
<1>6. ASSUME nodeEnds, npu_set_task_manager \/ beginPoll \/ poll \/ endPoll
      PROVE  Effect(r)
  <2>1. CASE npu_set_task_manager \/ beginPoll \/ endPoll
    <3>1. StreamKept(r)
      BY <2>1 DEF npu_set_task_manager, beginPoll, endPoll, sockVars, StreamKept
    <3> QED
      BY <1>6, <3>1, EndsWithConnection DEF Effect
  <2>2. CASE poll
    <3> DEFINE s == npu_nodes[cursor].socket_fd
    <3>1. /\ s \in Fds /\ UNCHANGED <<to_node, confirmed>>
          /\ \/ UNCHANGED socket
             \/ socket' = [socket EXCEPT ![s] = IF @ = "reset" THEN "broken" ELSE @]
      BY <2>2, Entries DEF poll
    <3> HIDE DEF s
    <3>2. Counted(socket'[r]) => Counted(socket[r])
      BY <3>1 DEF TypeOK, Counted
    <3>3. StreamKept(r)
      BY <3>1, <3>2 DEF StreamKept
    <3> QED
      BY <1>6, <3>3, EndsWithConnection DEF Effect
  <2> QED
    BY <1>6, <2>1, <2>2
<1>7. ASSUME nodeEnds, NEW node_idx \in 1 .. MAX_NPU_NODES, npu_send_to_node(node_idx)
      PROVE  Effect(r)
  <2> DEFINE s == npu_nodes[node_idx].socket_fd
  <2>1. s \in Fds /\ (sendUp(s) \/ sendHungUp(s) \/ sendReset(s) \/ sendBroken(s))
    BY <1>7, Entries DEF npu_send_to_node
  <2>2. NodeKept(r) \/ NodeLost(r)
    BY <1>7, EndsWithConnection
  <2>3. CASE sendUp(s)
    <3> DEFINE text == Text([n |-> confirmed[s] + 1, kind |-> "task"])
    <3>1. PICK part \in Chunks(text) \cup {<<>>} :
             /\ to_node' = [to_node EXCEPT ![s] = @ \o part]
             /\ confirmed' = [confirmed EXCEPT ![s] =
                                IF SendResult(part, text) THEN @ + 1 ELSE @]
      BY <2>3 DEF sendUp
    <3>4. socket[s] = "up" /\ socket' = socket
      BY <2>3 DEF sendUp
    <3>2. CASE r = s
      <4>1. /\ to_node'[s] = to_node[s] \o part
            /\ confirmed'[s] = IF SendResult(part, text) THEN confirmed[s] + 1
                                                         ELSE confirmed[s]
        <5> HIDE DEF s, text
        <5> QED
          BY <2>1, <3>1 DEF LinkTypes
      <4>2. StreamSent(s)
        BY <3>1, <3>4, <4>1 DEF StreamSent
      <4> QED
        BY <2>2, <3>2, <4>2 DEF Effect
    <3>3. CASE r # s
      <4>1. StreamKept(r)
        <5> HIDE DEF s, text
        <5> QED
          BY <3>1, <3>3, <3>4 DEF StreamKept, LinkTypes
      <4> QED
        BY <2>2, <4>1 DEF Effect
    <3> QED
      BY <3>2, <3>3
  <2>4. CASE sendHungUp(s) \/ sendReset(s)
    <3>1. /\ socket[s] \in {"hung up", "reset"} /\ to_node' = to_node
          /\ socket' \in {socket, [socket EXCEPT ![s] = "broken"]}
          /\ confirmed' \in {confirmed, [confirmed EXCEPT ![s] = @ + 1]}
      BY <2>4 DEF sendHungUp, sendReset
    <3> HIDE DEF s
    <3>2. CASE r = s
      <4>1. ~Counted(socket'[r])
        BY <2>1, <3>1, <3>2 DEF TypeOK, Counted
      <4>2. confirmed'[r] \in {confirmed[r], confirmed[r] + 1}
        BY <2>1, <3>1, <3>2 DEF LinkTypes
      <4> QED
        BY <2>2, <3>1, <4>1, <4>2 DEF Effect, StreamKept
    <3>3. CASE r # s
      <4>1. socket'[r] = socket[r] /\ confirmed'[r] = confirmed[r]
        BY <3>1, <3>3 DEF TypeOK, LinkTypes
      <4> QED
        BY <2>2, <3>1, <4>1 DEF Effect, StreamKept
    <3> QED
      BY <3>2, <3>3
  <2>5. CASE Close(Fds)
    BY <1>7, <2>5, CloseEffect
  <2> QED
    BY <2>1, <2>3, <2>4, <2>5 DEF sendBroken
<1> QED
  BY NextSplit, <1>0, <1>2, <1>3, <1>4, <1>5, <1>6, <1>7

\* The effects keep what is known of a connection.
LEMMA RunKeeps ==
    ASSUME LinkTypes, RunInv, LinkTypes', \A s \in Fds : Effect(s)
    PROVE  RunInv'
<1> SUFFICES ASSUME NEW s \in Fds
             PROVE  \E c \in Nat :
                       /\ IF Counted(socket'[s]) THEN c = confirmed'[s] ELSE c <= confirmed'[s]
                       /\ Streams(to_node'[s], c)
                       /\ Seconds(to_node'[s])
                       /\ Reads(to_node'[s], message_data'[s], taken'[s], handled'[s])
  BY DEF RunInv
<1>0. PICK c \in Nat :
        /\ IF Counted(socket[s]) THEN c = confirmed[s] ELSE c <= confirmed[s]
        /\ Streams(to_node[s], c)
        /\ Seconds(to_node[s])
        /\ Reads(to_node[s], message_data[s], taken[s], handled[s])
  BY DEF RunInv
<1> DEFINE d == to_node[s]
           data == message_data[s]
           t == taken[s]
           done == handled[s]
<1>1. /\ d \in Seq(TaskPieces) /\ c \in Nat /\ data \in Seq(TaskPieces) /\ t \in Nat
      /\ done \in Seq(Nat) /\ to_node'[s] \in Seq(TaskPieces)
      /\ Streams(d, c) /\ Seconds(d) /\ Reads(d, data, t, done)
      /\ Effect(s)
  BY <1>0 DEF LinkTypes
<1>2. NodeLost(s) => Reads(to_node'[s], message_data'[s], taken'[s], handled'[s])
  BY <1>1, ReadsNone DEF NodeLost
<1>7. StreamKept(s) =>
        /\ to_node'[s] = d
        /\ IF Counted(socket'[s]) THEN c = confirmed'[s] ELSE c <= confirmed'[s]
  <2>1. confirmed[s] \in Nat
    BY DEF LinkTypes
  <2> QED
    BY <1>0, <2>1 DEF StreamKept
<1>3. CASE StreamKept(s) /\ (NodeKept(s) \/ NodeLost(s))
  <2>1. Reads(d, message_data'[s], taken'[s], handled'[s])
    BY <1>1, <1>2, <1>3, <1>7 DEF NodeKept
  <2> HIDE DEF d
  <2> QED
    BY <1>1, <1>3, <1>7, <2>1
<1>4. CASE StreamKept(s) /\ NodeReads(s)
  <2>1. PICK chunk \in Chunks(SubSeq(d, t + 1, Len(d))) :
           /\ taken'[s] = t + Len(chunk)
           /\ \/ /\ Parses(data \o chunk)
                 /\ message_data'[s] = <<>>
                 /\ handled'[s] = Append(done, Parsed(data \o chunk).n)
              \/ message_data'[s] = data \o chunk /\ handled'[s] = done
    BY <1>4 DEF NodeReads, Unread, Joined
  <2> HIDE DEF d, data, t, done
  <2>2. /\ Reads(d, data \o chunk, t + Len(chunk), done)
        /\ Parses(data \o chunk)
             => Reads(d, <<>>, t + Len(chunk), Append(done, Parsed(data \o chunk).n))
    BY <1>1, <2>1, ReadNext
  <2>3. Reads(d, message_data'[s], taken'[s], handled'[s])
    BY <2>1, <2>2
  <2> QED
    BY <1>1, <1>4, <1>7, <2>3
<1>5. CASE StreamLost(s) /\ NodeLost(s)
  <2>1. Streams(<<>>, 0) /\ Seconds(<<>>)
    BY DEF Streams, Seconds
  <2>2. to_node'[s] = <<>> /\ confirmed'[s] = 0
    BY <1>5 DEF StreamLost
  <2> QED
    BY <1>2, <1>5, <2>1, <2>2
<1>6. CASE StreamSent(s) /\ (NodeKept(s) \/ NodeLost(s))
  <2> DEFINE text == Text([n |-> c + 1, kind |-> "task"])
  <2>0. c = confirmed[s] /\ socket'[s] = "up"
    BY <1>0, <1>6 DEF StreamSent, Counted
  <2>1. PICK part \in Chunks(text) \cup {<<>>} :
           /\ to_node'[s] = d \o part
           /\ confirmed'[s] = IF SendResult(part, text) THEN c + 1 ELSE c
    BY <1>6, <2>0 DEF StreamSent
  <2>2. part \in Seq(TaskPieces)
    BY <2>0, <2>1, PartTyped
  <2> HIDE DEF d, data, t, done
  <2>3. Streams(d \o part, confirmed'[s]) /\ Seconds(d \o part)
    BY <1>1, <2>1, SendTaken
  <2>4. NodeKept(s) => Reads(to_node'[s], message_data'[s], taken'[s], handled'[s])
    <3>1. Reads(d \o part, data, t, done)
      BY <1>1, <2>2, ReadsOn
    <3>2. NodeKept(s) => message_data'[s] = data /\ taken'[s] = t /\ handled'[s] = done
      BY DEF NodeKept, data, t, done
    <3> QED
      BY <2>1, <3>1, <3>2
  <2>5. confirmed'[s] \in Nat
    BY DEF LinkTypes
  <2> QED
    BY <1>2, <1>6, <2>0, <2>1, <2>3, <2>4, <2>5 DEF Counted
<1> QED
  BY <1>1, <1>3, <1>4, <1>5, <1>6 DEF Effect

\* The streams and what has been read of them are what the sends and the reads
\* make of them, in every reachable state.
LEMMA RunHolds == LinkSpec => [](TypeOK /\ LinkTypes /\ RunInv)
<1>1. LinkInit => RunInv
  <2> SUFFICES ASSUME LinkInit, NEW s \in Fds
               PROVE  \E c \in Nat :
                         /\ IF Counted(socket[s]) THEN c = confirmed[s] ELSE c <= confirmed[s]
                         /\ Streams(to_node[s], c)
                         /\ Seconds(to_node[s])
                         /\ Reads(to_node[s], message_data[s], taken[s], handled[s])
    BY DEF RunInv
  <2>1. /\ to_node[s] = <<>> /\ confirmed[s] = 0 /\ message_data[s] = <<>>
        /\ taken[s] = 0 /\ handled[s] = <<>>
    BY DEF LinkInit, Init
  <2>2. Streams(<<>>, 0) /\ Seconds(<<>>) /\ Reads(<<>>, <<>>, 0, <<>>)
    BY DEF Streams, Seconds, Reads
  <2> QED
    BY <2>1, <2>2
<1>2. TypeOK /\ LinkTypes /\ LinkTypes' /\ RunInv /\ [LinkNext]_linkVars => RunInv'
  BY EffectStep, RunKeeps
<1> QED
  BY <1>1, <1>2, LinkTyped, PTL DEF LinkSpec

\* A node runs the first few of the tasks confirmed to it, in their order and
\* once each, however sends take part of a text and recvs cut and join them.
THEOREM NodesRunConfirmed == LinkSpec => []RunsOnlyConfirmed
<1>1. TypeOK /\ LinkTypes /\ RunInv => RunsOnlyConfirmed
  <2> SUFFICES ASSUME TypeOK, LinkTypes, RunInv, NEW s \in Fds
               PROVE  /\ Len(handled[s]) <= confirmed[s]
                      /\ handled[s] = [n \in 1 .. Len(handled[s]) |-> n]
    BY Entries DEF RunsOnlyConfirmed
  <2> DEFINE d == to_node[s]
             done == handled[s]
             h == Len(done)
  <2>0. PICK c \in Nat : /\ c <= confirmed[s] /\ confirmed[s] \in Nat
                         /\ Streams(d, c) /\ Reads(d, message_data[s], taken[s], done)
    BY DEF LinkTypes, RunInv
  <2>1. /\ d \in Seq(TaskPieces) /\ c \in Nat /\ done \in Seq(Nat) /\ taken[s] \in Nat
        /\ Streams(d, c) /\ Reads(d, message_data[s], taken[s], done)
        /\ Len(message_data[s]) \in Nat
    BY <2>0, LenProperties DEF LinkTypes
  <2> HIDE DEF d, done
  <2>2. h \in Nat /\ Len(d) \in Nat /\ 2 * h <= Len(d)
    <3>1. h \in Nat /\ Len(d) \in Nat
      BY <2>1, LenProperties
    <3>2. taken[s] <= Len(d) /\ taken[s] = 2 * h + Len(message_data[s])
      BY <2>1 DEF Reads
    <3>3. \A x, y, z, w \in Nat : x <= y /\ x = 2 * z + w => 2 * z <= y
      OBVIOUS
    <3>4. taken[s] \in Nat /\ Len(message_data[s]) \in Nat
      BY <2>1
    <3> HIDE DEF h
    <3> QED
      BY <3>1, <3>2, <3>3, <3>4
  <2>3. h <= c
    <3>1. CASE h = 0
      BY <2>1, <3>1
    <3>2. CASE h # 0
      <4>1. h \in 1 .. h /\ 2 * h \in 1 .. Len(d)
        BY <2>2, <3>2
      <4>2. d[2 * h] = Piece(h, "second")
        BY <2>1, <4>1 DEF Reads
      <4>3. d[2 * h].half = "second" /\ d[2 * h].of.n = h
        BY <2>2, <4>2, PieceTyped DEF Half
      <4> QED
        BY <2>1, <4>1, <4>3 DEF Streams
    <3> QED
      BY <3>1, <3>2
  <2>4. done = [n \in 1 .. h |-> n]
    <3>1. \A n \in 1 .. h : done[n] = n
      BY <2>1 DEF Reads
    <3> QED
      BY <2>1, <3>1
  <2>5. h <= confirmed[s]
    BY <2>0, <2>2, <2>3
  <2> QED
    BY <2>4, <2>5 DEF done
<1> QED
  BY <1>1, RunHolds, PTL

\* Nothing is run of a text that a send cut short, nor of what is sent after it,
\* however often the text is sent again.
THEOREM NothingRunsAfterPart == LinkSpec => []NothingRunAfterPart
<1>1. TypeOK /\ LinkTypes /\ RunInv => NothingRunAfterPart
  <2> SUFFICES ASSUME TypeOK, LinkTypes, RunInv, NEW s \in Fds,
                      NEW m \in DOMAIN to_node[s], m + 1 \in DOMAIN to_node[s],
                      to_node[s][m].half = "first", to_node[s][m + 1].half = "first",
                      NEW j \in DOMAIN handled[s]
               PROVE  handled[s][j] < to_node[s][m].of.n
    BY Entries DEF NothingRunAfterPart
  <2> DEFINE d == to_node[s]
             done == handled[s]
             h == Len(done)
  <2>1. /\ d \in Seq(TaskPieces) /\ done \in Seq(Nat) /\ taken[s] \in Nat
        /\ Len(message_data[s]) \in Nat
    BY LenProperties DEF LinkTypes
  <2>2. PICK c \in Nat : Streams(d, c) /\ Seconds(d) /\ Reads(d, message_data[s], taken[s], done)
    BY DEF RunInv
  <2>3. /\ m \in 1 .. Len(d) /\ m + 1 \in 1 .. Len(d) /\ j \in 1 .. h
        /\ d[m].half = "first" /\ d[m + 1].half = "first"
    BY <2>1
  <2> HIDE DEF d, done
  <2>4. h \in Nat /\ Len(d) \in Nat /\ 2 * h <= Len(d)
    <3>1. h \in Nat /\ Len(d) \in Nat
      BY <2>1, LenProperties
    <3>2. taken[s] <= Len(d) /\ taken[s] = 2 * h + Len(message_data[s])
      BY <2>2 DEF Reads
    <3>3. \A x, y, z, w \in Nat : x <= y /\ x = 2 * z + w => 2 * z <= y
      OBVIOUS
    <3> HIDE DEF h
    <3> QED
      BY <2>1, <3>1, <3>2, <3>3
  <2>5. \A n \in 1 .. h : d[2 * n] = Piece(n, "second") /\ d[2 * n].half = "second"
    <3> TAKE n \in 1 .. h
    <3>1. d[2 * n] = Piece(n, "second")
      BY <2>2 DEF Reads
    <3> QED
      BY <2>4, <3>1, PieceTyped DEF Half
  <2>6. \A n \in 1 .. h : m # 2 * n /\ m + 1 # 2 * n
    <3> TAKE n \in 1 .. h
    <3>1. d[2 * n].half # "first"
      BY <2>5
    <3> QED
      BY <2>3, <3>1
  <2>7. 2 * h < m
    <3>1. m \in Nat /\ m >= 1
      BY <2>3
    <3>2. PICK n \in Nat : m = 2 * n \/ m + 1 = 2 * n
      <4>1. m % 2 = 0 => m = 2 * (m \div 2) /\ m \div 2 \in Nat
        BY <3>1
      <4>2. m % 2 # 0 => m + 1 = 2 * (m \div 2 + 1) /\ m \div 2 + 1 \in Nat
        BY <3>1
      <4> QED
        BY <4>1, <4>2
    <3>3. n \notin 1 .. h
      BY <2>6, <3>2
    <3> HIDE DEF h
    <3> QED
      BY <2>4, <3>1, <3>2, <3>3
  <2>8. h \in 1 .. h /\ 2 * h \in 1 .. Len(d) /\ d[2 * h].of.n = h
    <3>1. h \in 1 .. h /\ 2 * h \in 1 .. Len(d)
      <4> HIDE DEF h
      <4> QED
        BY <2>3, <2>4
    <3>2. d[2 * h] = Piece(h, "second")
      BY <2>5, <3>1
    <3> QED
      BY <2>4, <3>1, <3>2, PieceTyped DEF Half
  <2>9. h < d[m].of.n
    BY <2>2, <2>3, <2>5, <2>7, <2>8 DEF Seconds
  <2>10. done[j] = j /\ j <= h /\ d[m].of.n \in Nat
    <3>1. d[m] \in TaskPieces
      BY <2>1, <2>3, ElementOfSeq
    <3>2. d[m].of.n \in Nat
      BY <3>1, TaskPiece
    <3>3. done[j] = j
      BY <2>2, <2>3 DEF Reads
    <3> QED
      BY <2>3, <3>2, <3>3
  <2>11. done[j] < d[m].of.n
    <3> HIDE DEF h
    <3> QED
      BY <2>3, <2>4, <2>9, <2>10
  <2> QED
    BY <2>11 DEF d, done
<1> QED
  BY <1>1, RunHolds, PTL

============================================================================
