------------------------- MODULE InferBridgeProofs -------------------------
(***************************************************************************)
(* Proofs about InferBridge, for any number of lives and requests: types   *)
(* (TypeCorrect), that an answer finds the bridge waiting, so that the     *)
(* engine survives (EngineOutlives), that the server gets its answers in   *)
(* order and once (AnswersOrdered), and one at most for each connection of *)
(* the bridge to the engine (OneAnswerEach).                               *)
(***************************************************************************)
EXTENDS InferBridge, SequenceTheorems, TLAPS

\* The engine has a connection in its hands.
Serving == engine \in {"recv", "send", "close"}

\* A program that is inside its loop holds a connection, and lives to come have
\* left no trace yet.
Wiring ==
    /\ Connected => life \in Lives
    /\ bridge = "connectEngine" => life + 1 \in Lives
    /\ Serving => cli_fd \in Lives /\ cli_fd <= life /\ conn[cli_fd] = "open"
    /\ engine = "send" => Parses(buf)
    /\ \A k \in Lives : k > life =>
          conn[k] = "none" /\ to_engine[k] = <<>> /\ to_bridge[k] = <<>>

\* The engine has yet to answer the k-th life of the bridge.
Unanswered(k) == conn[k] = "queued" \/ (cli_fd = k /\ engine \in {"recv", "send"})

\* Nobody has read the request of that life, or the answer is being worked on.
Asked(k) == to_engine[k] # <<>> \/ (cli_fd = k /\ engine = "send")

\* A bridge that nobody kills waits for the answer it has asked for, whatever
\* becomes of the server meanwhile.
Patient ==
    ~crashed =>
        /\ engine # "killed"
        /\ \A k \in Lives : Unanswered(k) =>
              /\ to_bridge[k] = <<>>
              /\ Asked(k) => bridge = "recvEngine" /\ life = k

----------------------------------------------------------------------------
\* What recv returns and what it leaves are the two parts of the stream.
LEMMA ChunkSplits ==
    ASSUME NEW S, NEW stream \in Seq(S), NEW chunk \in Chunks(stream)
    PROVE  /\ chunk \in Seq(S)
           /\ Rest(stream, chunk) \in Seq(S)
           /\ stream = chunk \o Rest(stream, chunk)
           /\ stream # <<>>
           /\ chunk # <<>>
<1>1. PICK n \in 1 .. Len(stream) : chunk = SubSeq(stream, 1, n)
  BY DEF Chunks
<1>0. Len(stream) \in Nat /\ n \in Nat /\ n >= 1 /\ n <= Len(stream)
  BY <1>1
<1>2. chunk \in Seq(S) /\ Len(chunk) = n /\ \A m \in 1 .. n : chunk[m] = stream[m]
  BY <1>0, <1>1, SubSeqProperties
<1>3. /\ Rest(stream, chunk) \in Seq(S)
      /\ Len(Rest(stream, chunk)) = Len(stream) - n
      /\ \A m \in 1 .. Len(stream) - n : Rest(stream, chunk)[m] = stream[m + n]
  BY <1>0, <1>2, SubSeqProperties DEF Rest
<1>4. stream = chunk \o Rest(stream, chunk)
  <2>1. stream = SubSeq(stream, 1, n) \o SubSeq(stream, n + 1, Len(stream))
    BY <1>0
  <2> QED
    BY <1>1, <1>2, <2>1 DEF Rest
<1>5. Len(chunk) # 0 /\ Len(stream) # 0
  BY <1>0, <1>2
<1> QED
  BY <1>2, <1>3, <1>4, <1>5, EmptySeq

\* A text of the server is two pieces.
LEMMA TextIsPieces ==
    ASSUME NEW n \in 1 .. MaxRequests
    PROVE  /\ Text(n) \in Seq(Pieces) /\ Len(Text(n)) = 2
           /\ Text(n)[1] = [of |-> n, half |-> "first"]
           /\ Text(n)[2] = [of |-> n, half |-> "second"]
BY DEF Text, Pieces, Half

\* What parses is the text of the request it is parsed to.
LEMMA ParsedIsText ==
    ASSUME NEW chunk \in Seq(Pieces), Parses(chunk)
    PROVE  Parsed(chunk) \in 1 .. MaxRequests /\ chunk = Text(Parsed(chunk))
<1>1. Len(chunk) = 2 /\ chunk = Text(chunk[1].of)
  BY DEF Parses
<1>2. chunk[1] \in Pieces
  BY <1>1, ElementOfSeq
<1> QED
  BY <1>1, <1>2 DEF Parsed, Pieces

\* The steps in a form that names each action once.
LEMMA NextSplit ==
    ASSUME [Next]_vars
    PROVE  \/ UNCHANGED vars
           \/ infer_net_connect \/ infer_ipc_connect \/ infer_net_recv \/ infer_ipc_send
           \/ infer_ipc_recv \/ infer_net_send \/ crash
           \/ sendRequest \/ closeServer
           \/ accept \/ recv \/ send \/ close
BY DEF Next, BridgeStep, EngineStep

\* The two programs only touch connections they hold.
LEMMA WiringStep ==
    ASSUME TypeOK, Wiring, [Next]_vars
    PROVE  TypeOK' /\ Wiring'
<1> USE BridgeAssumption DEF Lives
<1>0. CASE UNCHANGED vars
  <2>1. TypeOK'
    BY <1>0 DEF vars, bridgeVars, serverVars, engineVars, connVars, TypeOK
  <2>2. Wiring'
    BY <1>0 DEF vars, bridgeVars, serverVars, engineVars, connVars, Wiring, Connected, Running,
               Serving
  <2> QED
    BY <2>1, <2>2
<1>1. CASE infer_net_connect
  <2>1. /\ bridge' = "connectEngine" /\ server_up' = TRUE /\ net' = <<>>
        /\ UNCHANGED <<life, req_json, resp_json, crashed, requests, answers>>
        /\ UNCHANGED <<engine, cli_fd, buf, conn, to_engine, to_bridge>>
        /\ life < MaxLives
    BY <1>1 DEF infer_net_connect, engineVars, connVars
  <2>2. TypeOK'
    <3>1. <<>> \in Seq(Pieces)
      OBVIOUS
    <3> QED
      BY <2>1, <3>1 DEF TypeOK
  <2>3. life + 1 \in Lives
    BY <2>1 DEF TypeOK
  <2>4. Wiring'
    BY <2>1, <2>3 DEF Wiring, Connected, Running, Serving
  <2> QED
    BY <2>2, <2>4
<1>13. CASE infer_ipc_connect
  <2>0. CASE bridge' = "stopped" /\ UNCHANGED <<life, conn>>
    <3>1. TypeOK'
      BY <1>13, <2>0 DEF infer_ipc_connect, serverVars, engineVars, TypeOK
    <3>2. Wiring'
      BY <1>13, <2>0 DEF infer_ipc_connect, serverVars, engineVars, Wiring, Connected, Running,
                         Serving
    <3> QED
      BY <3>1, <3>2
  <2>a. CASE /\ life' = life + 1 /\ bridge' = "recvServer"
             /\ conn' = [conn EXCEPT ![life + 1] = "queued"]
    <3>1. life + 1 \in Lives /\ life' = life + 1 /\ bridge' = "recvServer"
      BY <1>13, <2>a DEF infer_ipc_connect, Wiring
    <3>2. conn' = [conn EXCEPT ![life + 1] = "queued"]
      BY <2>a
    <3>3. /\ req_json' = req_json /\ resp_json' = resp_json /\ answers' = answers
          /\ requests' = requests /\ crashed' = crashed /\ net' = net
          /\ to_engine' = to_engine /\ to_bridge' = to_bridge /\ server_up' = server_up
          /\ engine' = engine /\ cli_fd' = cli_fd /\ buf' = buf
      BY <1>13 DEF infer_ipc_connect, serverVars, engineVars
    <3>4. /\ conn' \in [Lives -> {"none", "queued", "open", "closed"}]
          /\ \A k \in Lives \ {life + 1} : conn'[k] = conn[k]
      BY <3>1, <3>2 DEF TypeOK
    <3>5. TypeOK'
      <4>1. life' \in 0 .. MaxLives /\ <<>> \in Seq(Pieces)
        BY <3>1
      <4> QED
        BY <3>1, <3>3, <3>4, <4>1 DEF TypeOK
    <3>6. (Connected => life \in Lives)'
      BY <3>1
    <3>7. (Serving => cli_fd \in Lives /\ cli_fd <= life /\ conn[cli_fd] = "open")'
      <4> SUFFICES ASSUME Serving
                   PROVE  cli_fd \in Lives /\ cli_fd <= life' /\ conn'[cli_fd] = "open"
        BY <3>3 DEF Serving
      <4>1. cli_fd \in Lives /\ cli_fd <= life /\ conn[cli_fd] = "open" /\ life \in Nat
        BY DEF Wiring, TypeOK
      <4>2. cli_fd # life + 1 /\ cli_fd <= life + 1
        BY <4>1
      <4> QED
        BY <3>1, <3>4, <4>1, <4>2
    <3>8. (\A k \in Lives : k > life =>
              conn[k] = "none" /\ to_engine[k] = <<>> /\ to_bridge[k] = <<>>)'
      <4> SUFFICES ASSUME NEW k \in Lives, k > life'
                   PROVE  conn'[k] = "none" /\ to_engine'[k] = <<>> /\ to_bridge'[k] = <<>>
        OBVIOUS
      <4>1. k > life /\ k # life + 1
        BY <3>1 DEF TypeOK
      <4> QED
        BY <3>3, <3>4, <4>1 DEF Wiring
    <3>9. (bridge = "connectEngine" => life + 1 \in Lives)'
      BY <3>1
    <3>10. (engine = "send" => Parses(buf))'
      BY <3>3 DEF Wiring
    <3> QED
      BY <3>5, <3>6, <3>7, <3>8, <3>9, <3>10 DEF Wiring
  <2> QED
    BY <1>13, <2>0, <2>a DEF infer_ipc_connect
<1> USE DEF TypeOK, Wiring, Connected, Running, Serving
<1>2. CASE infer_net_recv
  <2>1. CASE net = <<>> /\ UNCHANGED <<req_json, net>> /\ bridge' = "stopped"
    BY <1>2, <2>1 DEF infer_net_recv, engineVars, connVars
  <2>2. ASSUME NEW chunk \in Chunks(net), req_json' = chunk, net' = Rest(net, chunk),
               bridge' = "sendEngine"
        PROVE  TypeOK' /\ Wiring'
    <3>1. chunk \in Seq(Pieces) /\ Rest(net, chunk) \in Seq(Pieces)
      BY ChunkSplits
    <3> QED
      BY <1>2, <2>2, <3>1 DEF infer_net_recv, engineVars, connVars
  <2> QED
    BY <1>2, <2>1, <2>2 DEF infer_net_recv
<1>3. CASE infer_ipc_send
  <2>1. to_engine[life] \o req_json \in Seq(Pieces)
    BY <1>3, ConcatProperties DEF infer_ipc_send
  <2>2. /\ bridge' \in {"killed", "recvEngine"}
        /\ to_engine' = to_engine \/ to_engine' = [to_engine EXCEPT ![life] = @ \o req_json]
        /\ bridge = "sendEngine"
        /\ UNCHANGED <<life, crashed, req_json, resp_json, serverVars, engineVars, conn, to_bridge>>
    BY <1>3 DEF infer_ipc_send
  <2>3. CASE to_engine' = to_engine
    BY <2>2, <2>3 DEF serverVars, engineVars
  <2>4. CASE to_engine' = [to_engine EXCEPT ![life] = @ \o req_json]
    <3>1. /\ to_engine' \in [Lives -> Seq(Pieces)]
          /\ \A k \in Lives : k > life => to_engine'[k] = to_engine[k]
      BY <2>1, <2>2, <2>4
    <3> QED
      BY <2>2, <3>1 DEF serverVars, engineVars
  <2> QED
    BY <2>2, <2>3, <2>4
<1>4. CASE infer_ipc_recv
  <2>0. to_bridge[life] \in Seq(Pieces)
    BY <1>4 DEF infer_ipc_recv
  <2>1. CASE UNCHANGED <<resp_json, to_bridge>> /\ bridge' = "recvServer"
    BY <1>4, <2>1 DEF infer_ipc_recv, serverVars, engineVars
  <2>2. ASSUME NEW chunk \in Chunks(to_bridge[life]), resp_json' = chunk,
               to_bridge' = [to_bridge EXCEPT ![life] = Rest(@, chunk)],
               bridge' = "sendServer"
        PROVE  TypeOK' /\ Wiring'
    <3>1. chunk \in Seq(Pieces) /\ Rest(to_bridge[life], chunk) \in Seq(Pieces)
      BY <2>0, ChunkSplits
    <3>2. /\ bridge = "recvEngine" /\ life \in Lives
          /\ UNCHANGED <<life, crashed, req_json, serverVars, engineVars, conn, to_engine>>
      BY <1>4 DEF infer_ipc_recv
    <3>3. /\ to_bridge' \in [Lives -> Seq(Pieces)]
          /\ \A k \in Lives : k > life => to_bridge'[k] = to_bridge[k]
      BY <2>2, <3>1, <3>2
    <3>4. /\ bridge' = "sendServer" /\ resp_json' = chunk
          /\ UNCHANGED <<life, crashed, req_json, net, requests, answers, server_up>>
          /\ UNCHANGED <<engine, cli_fd, buf, conn, to_engine>>
      BY <2>2, <3>2 DEF serverVars, engineVars
    <3>5. TypeOK'
      BY <3>1, <3>3, <3>4
    <3>6. Wiring'
      BY <3>2, <3>3, <3>4
    <3> QED
      BY <3>5, <3>6
  <2> QED
    BY <1>4, <2>1, <2>2 DEF infer_ipc_recv
<1>5. CASE infer_net_send
  <2>1. answers \o resp_json \in Seq(Pieces)
    BY ConcatProperties
  <2> QED
    BY <1>5, <2>1 DEF infer_net_send, engineVars, connVars
<1>6. CASE crash
  BY <1>6 DEF crash, serverVars, engineVars, connVars
<1>7. CASE sendRequest
  <2>1. requests + 1 \in 1 .. MaxRequests
    BY <1>7 DEF sendRequest
  <2>2. net \o Text(requests + 1) \in Seq(Pieces)
    BY <2>1, TextIsPieces, ConcatProperties
  <2> QED
    BY <1>7, <2>1, <2>2 DEF sendRequest, bridgeVars, engineVars, connVars
<1>8. CASE closeServer
  BY <1>8 DEF closeServer, bridgeVars, engineVars, connVars
<1>9. CASE accept
  <2>1. PICK k \in Lives : /\ conn[k] = "queued" /\ cli_fd' = k
                           /\ conn' = [conn EXCEPT ![k] = "open"]
    BY <1>9 DEF accept
  <2>2. engine' = "recv" /\ UNCHANGED <<buf, bridgeVars, serverVars, to_engine, to_bridge>>
    BY <1>9 DEF accept
  <2>3. k <= life
    BY <2>1
  <2>4. /\ conn' \in [Lives -> {"none", "queued", "open", "closed"}] /\ conn'[k] = "open"
        /\ \A j \in Lives : j > life => conn'[j] = conn[j]
    BY <2>1, <2>3
  <2>5. cli_fd' \in Lives /\ cli_fd' <= life' /\ conn'[cli_fd'] = "open" /\ engine' = "recv"
    BY <2>1, <2>2, <2>3, <2>4 DEF bridgeVars
  <2>6. TypeOK'
    <3>1. cli_fd' \in 0 .. MaxLives /\ engine' \in {"accept", "recv", "send", "close", "killed"}
      BY <2>5
    <3> QED
      BY <2>2, <2>4, <3>1 DEF bridgeVars, serverVars
  <2> QED
    BY <2>2, <2>4, <2>5, <2>6 DEF bridgeVars
<1>10. CASE recv
  <2>0. to_engine[cli_fd] \in Seq(Pieces)
    BY <1>10 DEF recv
  <2>1. CASE UNCHANGED <<buf, to_engine>> /\ engine' = "close"
    BY <1>10, <2>1 DEF recv, bridgeVars, serverVars
  <2>2. ASSUME NEW chunk \in Chunks(to_engine[cli_fd]), buf' = chunk,
               to_engine' = [to_engine EXCEPT ![cli_fd] = Rest(@, chunk)],
               engine' = IF Parses(chunk) THEN "send" ELSE "close"
        PROVE  TypeOK' /\ Wiring'
    <3>1. chunk \in Seq(Pieces) /\ Rest(to_engine[cli_fd], chunk) \in Seq(Pieces)
      BY <2>0, ChunkSplits
    <3>2. /\ engine = "recv" /\ engine' \in {"send", "close"}
          /\ engine' = "send" => Parses(buf')
          /\ buf' = chunk
          /\ UNCHANGED <<bridge, life, crashed, req_json, resp_json>>
          /\ UNCHANGED <<net, requests, answers, server_up, cli_fd, conn, to_bridge>>
      BY <1>10, <2>2 DEF recv, bridgeVars, serverVars
    <3>3. /\ to_engine' \in [Lives -> Seq(Pieces)]
          /\ \A k \in Lives \ {cli_fd} : to_engine'[k] = to_engine[k]
      BY <2>2, <3>1
    <3>4. TypeOK'
      BY <3>1, <3>2, <3>3
    <3>5. Wiring'
      BY <3>2, <3>3
    <3> QED
      BY <3>4, <3>5
  <2> QED
    BY <1>10, <2>1, <2>2 DEF recv
<1>11. CASE send
  <2>1. to_bridge[cli_fd] \o Text(Parsed(buf)) \in Seq(Pieces)
    BY <1>11, ParsedIsText, TextIsPieces, ConcatProperties DEF send
  <2> QED
    BY <1>11, <2>1 DEF send, bridgeVars, serverVars
<1>12. CASE close
  <2>1. cli_fd \in Lives /\ cli_fd <= life
    BY <1>12 DEF close
  <2>2. /\ conn' = [conn EXCEPT ![cli_fd] = "closed"] /\ engine' = "accept" /\ cli_fd' = 0
        /\ UNCHANGED <<buf, bridgeVars, serverVars, to_engine, to_bridge>>
    BY <1>12 DEF close
  <2>3. /\ conn' \in [Lives -> {"none", "queued", "open", "closed"}]
        /\ \A j \in Lives : j > life => conn'[j] = conn[j]
    BY <2>1, <2>2
  <2>4. TypeOK'
    BY <2>2, <2>3 DEF bridgeVars, serverVars
  <2> QED
    BY <2>2, <2>3, <2>4 DEF bridgeVars
<1> QED
  BY NextSplit, <1>0, <1>1, <1>2, <1>3, <1>4, <1>5, <1>6, <1>7, <1>8, <1>9, <1>10, <1>11, <1>12,
     <1>13

\* Types and wiring hold whatever the server, the system and the killer do.
LEMMA Wired == Spec => [](TypeOK /\ Wiring)
<1>1. Init => TypeOK /\ Wiring
  <2> SUFFICES ASSUME Init PROVE TypeOK /\ Wiring
    OBVIOUS
  <2>1. TypeOK
    <3>1. {req_json, resp_json, net, answers, buf} \subseteq Seq(Pieces)
      BY DEF Init
    <3>2. /\ [k \in Lives |-> <<>>] \in [Lives -> Seq(Pieces)]
          /\ [k \in Lives |-> "none"] \in [Lives -> {"none", "queued", "open", "closed"}]
      OBVIOUS
    <3>3. life \in 0 .. MaxLives /\ requests \in 0 .. MaxRequests /\ cli_fd \in 0 .. MaxLives
      BY BridgeAssumption DEF Init
    <3>4. {server_up, crashed} \subseteq BOOLEAN
      BY DEF Init
    <3> QED
      BY <3>1, <3>2, <3>3, <3>4 DEF Init, TypeOK
  <2>2. Wiring
    BY DEF Init, Wiring, Connected, Running, Serving
  <2> QED
    BY <2>1, <2>2
<1>2. TypeOK /\ Wiring /\ [Next]_vars => TypeOK' /\ Wiring'
  BY WiringStep
<1> QED
  BY <1>1, <1>2, PTL DEF Spec

\* The variables keep their types, in particular: what is in the streams are
\* pieces of texts that the server has sent.
THEOREM TypeCorrect == Spec => []TypeOK
BY Wired, PTL

----------------------------------------------------------------------------
\* While nobody kills the bridge it waits for what it has asked for, so the
\* engine is never alone with a request.
LEMMA PatientStep ==
    ASSUME TypeOK, Wiring, Patient, [Next]_vars
    PROVE  Patient'
<1> SUFFICES ASSUME ~crashed'
             PROVE  /\ engine' # "killed"
                    /\ \A k \in Lives : Unanswered(k)' =>
                          /\ to_bridge'[k] = <<>>
                          /\ Asked(k)' => bridge' = "recvEngine" /\ life' = k
  BY DEF Patient
<1> USE BridgeAssumption
<1>a. ~crashed
  BY NextSplit DEF infer_net_connect, infer_ipc_connect, infer_net_recv, infer_ipc_send,
                   infer_ipc_recv, infer_net_send, crash, sendRequest, closeServer, accept, recv, send, close,
                   vars, bridgeVars, TypeOK
<1>b. /\ engine # "killed"
      /\ \A k \in Lives : Unanswered(k) =>
            /\ to_bridge[k] = <<>>
            /\ Asked(k) => bridge = "recvEngine" /\ life = k
  BY <1>a DEF Patient
<1> USE DEF Unanswered, Asked
<1>0. CASE UNCHANGED vars
  BY <1>0, <1>b DEF vars, bridgeVars, serverVars, engineVars, connVars
<1>1. CASE infer_net_connect
  <2>1. /\ bridge # "recvEngine" /\ UNCHANGED <<life, engine, cli_fd, conn, to_engine, to_bridge>>
    BY <1>1 DEF infer_net_connect, Running, engineVars, connVars
  <2> QED
    BY <1>b, <2>1
<1>13. CASE infer_ipc_connect
  <2>1. bridge = "connectEngine" /\ UNCHANGED <<engine, cli_fd, to_engine, to_bridge>>
    BY <1>13 DEF infer_ipc_connect, engineVars
  <2>2. life' = life + 1 /\ conn' = [conn EXCEPT ![life + 1] = "queued"]
    BY <1>13, <1>b DEF infer_ipc_connect
  <2>3. life + 1 \in Lives
    BY <2>1 DEF Wiring
  <2>4. \A k \in Lives \ {life + 1} : conn'[k] = conn[k]
    BY <2>2
  <2>5. to_engine[life + 1] = <<>> /\ to_bridge[life + 1] = <<>>
    BY <2>3 DEF Wiring, TypeOK
  <2>6. ~(Serving /\ cli_fd = life + 1)
    BY <2>3 DEF Wiring, TypeOK
  <2> QED
    BY <1>b, <2>1, <2>4, <2>5, <2>6 DEF Serving
<1>2. CASE infer_net_recv
  BY <1>2, <1>b DEF infer_net_recv, engineVars, connVars
<1>3. CASE infer_ipc_send
  <2>1. life \in Lives /\ bridge = "sendEngine"
    BY <1>3 DEF infer_ipc_send, Wiring, Connected, Running
  <2>2. /\ UNCHANGED <<life, engine, cli_fd, conn, to_bridge>>
        /\ \A k \in Lives \ {life} : to_engine'[k] = to_engine[k]
        /\ bridge' = "recvEngine" \/ (conn[life] = "closed" /\ to_engine' = to_engine)
    <3>1. CASE conn[life] = "closed"
      BY <1>3, <3>1 DEF infer_ipc_send, engineVars
    <3>2. CASE conn[life] # "closed"
      <4>1. /\ to_engine' = [to_engine EXCEPT ![life] = @ \o req_json]
            /\ bridge' = "recvEngine"
            /\ UNCHANGED <<life, engineVars, conn, to_bridge>>
        BY <1>3, <3>2 DEF infer_ipc_send
      <4> QED
        BY <4>1 DEF engineVars, TypeOK
    <3> QED
      BY <3>1, <3>2
  <2> QED
    BY <1>b, <2>1, <2>2 DEF Wiring, Serving
<1>4. CASE infer_ipc_recv
  <2>1. life \in Lives /\ bridge = "recvEngine"
    BY <1>4 DEF infer_ipc_recv, Wiring, Connected, Running
  <2>2. /\ UNCHANGED <<life, engine, cli_fd, conn, to_engine>>
        /\ \A k \in Lives \ {life} : to_bridge'[k] = to_bridge[k]
        /\ conn[life] = "closed" \/ to_bridge[life] # <<>>
    <3>1. CASE to_bridge[life] = <<>>
      BY <1>4, <2>1, <3>1 DEF infer_ipc_recv, TypeOK, engineVars, Chunks
    <3>2. CASE to_bridge[life] # <<>>
      BY <1>4, <2>1, <3>2 DEF infer_ipc_recv, TypeOK, engineVars
    <3> QED
      BY <3>1, <3>2
  <2>3. ~Unanswered(life)
    BY <1>b, <2>1, <2>2 DEF Wiring, Serving
  <2> QED
    BY <1>b, <2>2, <2>3
<1>5. CASE infer_net_send
  BY <1>5, <1>b DEF infer_net_send, engineVars, connVars
<1>6. CASE crash
  BY <1>6 DEF crash
<1>7. CASE sendRequest
  BY <1>7, <1>b DEF sendRequest, bridgeVars, engineVars, connVars
<1>8. CASE closeServer
  BY <1>8, <1>b DEF closeServer, bridgeVars, engineVars, connVars
<1>9. CASE accept
  <2>1. PICK k \in Lives : /\ conn[k] = "queued" /\ cli_fd' = k
                           /\ conn' = [conn EXCEPT ![k] = "open"]
    BY <1>9 DEF accept
  <2>2. engine' = "recv" /\ UNCHANGED <<bridge, life, to_engine, to_bridge>>
    BY <1>9 DEF accept, bridgeVars
  <2>3. \A j \in Lives \ {k} : conn'[j] = conn[j]
    BY <2>1
  <2> QED
    BY <1>b, <2>1, <2>2, <2>3
<1>10. CASE recv
  <2>1. /\ engine = "recv" /\ cli_fd \in Lives
        /\ UNCHANGED <<bridge, life, cli_fd, conn, to_bridge>>
    BY <1>10 DEF recv, bridgeVars, Wiring, Serving
  <2>2. CASE to_engine' = to_engine /\ engine' = "close"
    BY <1>b, <2>1, <2>2
  <2>3. ASSUME NEW chunk \in Chunks(to_engine[cli_fd]),
               to_engine' = [to_engine EXCEPT ![cli_fd] = Rest(@, chunk)],
               engine' \in {"send", "close"}
        PROVE  /\ engine' # "killed"
               /\ \A k \in Lives : Unanswered(k)' =>
                     /\ to_bridge'[k] = <<>>
                     /\ Asked(k)' => bridge' = "recvEngine" /\ life' = k
    <3>1. to_engine[cli_fd] # <<>>
      BY <2>1, ChunkSplits DEF TypeOK
    <3>2. \A k \in Lives \ {cli_fd} : to_engine'[k] = to_engine[k]
      BY <2>1, <2>3 DEF TypeOK
    <3> QED
      BY <1>b, <2>1, <2>3, <3>1, <3>2
  <2> QED
    BY <1>10, <2>2, <2>3 DEF recv
<1>11. CASE send
  <2>1. engine = "send" /\ cli_fd \in Lives
    BY <1>11 DEF send, Wiring, Serving
  <2>2. BridgeHolds(cli_fd)
    BY <1>b, <2>1 DEF BridgeHolds, Connected, Running
  <2>3. /\ engine' = "close" /\ UNCHANGED <<bridge, life, cli_fd, conn, to_engine>>
        /\ \A k \in Lives \ {cli_fd} : to_bridge'[k] = to_bridge[k]
    BY <1>11, <2>1, <2>2 DEF send, bridgeVars, TypeOK
  <2> QED
    BY <1>b, <2>1, <2>3 DEF Wiring, Serving
<1>12. CASE close
  <2>1. engine = "close" /\ cli_fd \in Lives
    BY <1>12 DEF close, Wiring, Serving
  <2>2. /\ engine' = "accept" /\ UNCHANGED <<bridge, life, to_engine, to_bridge>>
        /\ conn'[cli_fd] = "closed"
        /\ \A k \in Lives \ {cli_fd} : conn'[k] = conn[k]
    BY <1>12, <2>1 DEF close, bridgeVars, TypeOK
  <2> QED
    BY <1>b, <2>1, <2>2
<1> QED
  BY NextSplit, <1>0, <1>1, <1>2, <1>3, <1>4, <1>5, <1>6, <1>7, <1>8, <1>9, <1>10, <1>11, <1>12,
     <1>13

\* The engine's answer finds the bridge waiting, so the engine is never ended by
\* it, unless somebody has killed the bridge.
THEOREM EngineOutlives == Spec => []EngineSurvives
<1>1. Init => Patient
  BY DEF Init, Patient, Unanswered, Asked, Lives
<1>2. TypeOK /\ Wiring /\ Patient /\ [Next]_vars => Patient'
  BY PatientStep
<1>3. Patient => EngineSurvives
  BY DEF Patient, EngineSurvives
<1> QED
  BY <1>1, <1>2, <1>3, Wired, PTL DEF Spec

----------------------------------------------------------------------------
(***************************************************************************)
(* The way of a request and its answer, seen as one line: what has arrived *)
(* at the server in front, then the answer the bridge is about to send,    *)
(* the stream to the bridge, the request the engine is working on, the     *)
(* stream to the engine, the request the bridge is about to send, and what *)
(* the server has sent at the end.  Texts that are cut or lost, crashes    *)
(* and new lives take pieces out of the line; nothing else changes it but  *)
(* a new request at its end.                                               *)
(***************************************************************************)
Then(x, y) == x \o y

Line(arrived, back, toBridge, inEngine, toEngine, forth, fromServer) ==
    Then(Then(Then(Then(Then(Then(arrived, back), toBridge), inEngine), toEngine), forth),
         fromServer)

Stream(f) == IF life = 0 THEN <<>> ELSE f[life]

Back == IF bridge = "sendServer" THEN resp_json ELSE <<>>

InEngine == IF engine = "send" /\ cli_fd = life THEN buf ELSE <<>>

Forth == IF bridge = "sendEngine" THEN req_json ELSE <<>>

Pipe == Line(answers, Back, Stream(to_bridge), InEngine, Stream(to_engine), Forth, net)

\* The line holds texts of the first n requests, in order.
Ordered(s, n) == /\ \A j, k \in DOMAIN s : j < k => Place(s[j]) < Place(s[k])
                 /\ \A k \in DOMAIN s : s[k].of <= n

PipeInv == Ordered(Pipe, requests)

\* What is left of an ordered line when a part is taken out is ordered.
LEMMA DropMiddle ==
    ASSUME NEW x \in Seq(Pieces), NEW y \in Seq(Pieces), NEW z \in Seq(Pieces), NEW n,
           Ordered((x \o y) \o z, n)
    PROVE  Ordered(x \o z, n)
<1> DEFINE f(k) == IF k <= Len(x) THEN k ELSE k + Len(y)
<1>1. /\ (x \o y) \o z \in Seq(Pieces)
      /\ Len((x \o y) \o z) = Len(x) + Len(y) + Len(z)
      /\ x \o z \in Seq(Pieces)
      /\ Len(x \o z) = Len(x) + Len(z)
      /\ Len(x) \in Nat /\ Len(y) \in Nat /\ Len(z) \in Nat
  OBVIOUS
<1>2. \A k \in DOMAIN (x \o z) : /\ f(k) \in DOMAIN ((x \o y) \o z)
                                 /\ (x \o z)[k] = ((x \o y) \o z)[f(k)]
  OBVIOUS
<1>3. \A j, k \in DOMAIN (x \o z) : j < k => f(j) < f(k)
  BY <1>1
<1> HIDE DEF f
<1> QED
  BY <1>2, <1>3 DEF Ordered

\* A new request comes last.
LEMMA AddText ==
    ASSUME NEW x \in Seq(Pieces), NEW n \in Nat, n + 1 \in 1 .. MaxRequests, Ordered(x, n)
    PROVE  Ordered(x \o Text(n + 1), n + 1)
<1> DEFINE t == Text(n + 1)
<1>1. /\ t \in Seq(Pieces) /\ Len(t) = 2
      /\ t[1] = [of |-> n + 1, half |-> "first"]
      /\ t[2] = [of |-> n + 1, half |-> "second"]
  BY TextIsPieces
<1> HIDE DEF t
<1> DEFINE y == x \o t
<1>2. /\ DOMAIN y = 1 .. Len(x) + 2
      /\ \A k \in 1 .. Len(x) : y[k] = x[k]
      /\ y[Len(x) + 1] = t[1] /\ y[Len(x) + 2] = t[2]
      /\ DOMAIN x = 1 .. Len(x) /\ Len(x) \in Nat
  <2>1. Len(x) \in Nat /\ DOMAIN x = 1 .. Len(x) /\ x \o t \in Seq(Pieces)
    BY <1>1
  <2>2. Len(x \o t) = Len(x) + Len(t)
    BY <1>1, ConcatProperties
  <2>3. \A k \in 1 .. Len(x) + Len(t) :
           (x \o t)[k] = IF k <= Len(x) THEN x[k] ELSE t[k - Len(x)]
    BY <1>1, <2>1, ConcatProperties
  <2>4. Len(x) + 1 \in 1 .. Len(x) + Len(t) /\ Len(x) + 2 \in 1 .. Len(x) + Len(t)
    BY <1>1, <2>1
  <2>5. (x \o t)[Len(x) + 1] = t[1] /\ (x \o t)[Len(x) + 2] = t[2]
    BY <2>1, <2>3, <2>4
  <2> QED
    BY <1>1, <2>1, <2>2, <2>3, <2>5
<1> HIDE DEF y
<1>3. \A k \in 1 .. Len(x) : /\ x[k].of \in Nat /\ x[k].of <= n
                                 /\ Place(x[k]) \in Int /\ Place(x[k]) < 2 * (n + 1)
  <2> SUFFICES ASSUME NEW k \in 1 .. Len(x)
               PROVE  /\ x[k].of \in Nat /\ x[k].of <= n
                                 /\ Place(x[k]) \in Int /\ Place(x[k]) < 2 * (n + 1)
    OBVIOUS
  <2>1. x[k] \in Pieces
    BY ElementOfSeq
  <2>2. x[k].of \in 1 .. MaxRequests /\ x[k].of <= n
    BY <1>2, <2>1 DEF Ordered, Pieces
  <2> QED
    BY <2>2 DEF Place
<1>4. Place(t[1]) = 2 * (n + 1) /\ Place(t[2]) = 2 * (n + 1) + 1
  BY <1>1 DEF Place
<1>5. \A j, k \in DOMAIN y : j < k => Place(y[j]) < Place(y[k])
  <2> SUFFICES ASSUME NEW j \in 1 .. Len(x) + 2, NEW k \in 1 .. Len(x) + 2, j < k
               PROVE  Place(y[j]) < Place(y[k])
    BY <1>2
  <2>1. CASE k <= Len(x)
    <3>1. j \in 1 .. Len(x) /\ k \in 1 .. Len(x)
      BY <1>2, <2>1
    <3>2. y[j] = x[j] /\ y[k] = x[k] /\ j \in DOMAIN x /\ k \in DOMAIN x
      BY <1>2, <3>1
    <3> QED
      BY <3>2 DEF Ordered
  <2>2. CASE j <= Len(x) /\ k > Len(x)
    <3>1. j \in 1 .. Len(x) /\ (k = Len(x) + 1 \/ k = Len(x) + 2)
      BY <1>2, <2>2
    <3>2. y[j] = x[j] /\ Place(x[j]) < 2 * (n + 1)
      BY <1>2, <1>3, <3>1
    <3>3. Place(x[j]) \in Int
      BY <1>3, <3>1
    <3>4. y[k] = t[1] \/ y[k] = t[2]
      BY <1>2, <3>1
    <3>5. Place(y[k]) = 2 * (n + 1) \/ Place(y[k]) = 2 * (n + 1) + 1
      BY <1>4, <3>4
    <3>6. Place(y[j]) = Place(x[j])
      BY <3>2
    <3> QED
      BY <3>2, <3>3, <3>5, <3>6
  <2>3. CASE j > Len(x)
    <3>1. j = Len(x) + 1 /\ k = Len(x) + 2
      BY <1>2, <2>3
    <3> QED
      BY <1>2, <1>4, <3>1
  <2> QED
    BY <1>2, <2>1, <2>2, <2>3
<1>6. \A k \in DOMAIN y : y[k].of <= n + 1
  <2> SUFFICES ASSUME NEW k \in 1 .. Len(x) + 2
               PROVE  y[k].of <= n + 1
    BY <1>2
  <2>1. CASE k <= Len(x)
    BY <1>2, <1>3, <2>1
  <2>2. CASE k = Len(x) + 1 \/ k = Len(x) + 2
    BY <1>1, <1>2, <2>2
  <2> QED
    BY <1>2, <2>1, <2>2
<1> QED
  BY <1>5, <1>6 DEF Ordered, t, y

\* The laws of concatenation, under a name of its own for it: the provers are
\* to use these and not what a sequence is.
LEMMA ThenLaws ==
    /\ <<>> \in Seq(Pieces)
    /\ \A x \in Seq(Pieces) : Then(x, <<>>) = x
    /\ \A x \in Seq(Pieces) : Then(<<>>, x) = x
    /\ \A x, y \in Seq(Pieces) : Then(x, y) \in Seq(Pieces)
    /\ \A x, y, z \in Seq(Pieces) : Then(Then(x, y), z) = Then(x, Then(y, z))
BY DEF Then

\* The line is made of pieces, and each of its places is a sequence of them.
LEMMA PipeTyped ==
    ASSUME TypeOK
    PROVE  /\ answers \in Seq(Pieces) /\ Back \in Seq(Pieces)
           /\ Stream(to_bridge) \in Seq(Pieces)
           /\ InEngine \in Seq(Pieces)
           /\ Stream(to_engine) \in Seq(Pieces)
           /\ Forth \in Seq(Pieces) /\ net \in Seq(Pieces)
           /\ requests \in Nat
BY BridgeAssumption DEF TypeOK, Back, Stream, InEngine, Forth, Lives

\* The line with something taken out of it is in order.
LEMMA DropPart ==
    \A x, y, z \in Seq(Pieces) : \A n :
       Ordered(Then(Then(x, y), z), n) => Ordered(Then(x, z), n)
BY DropMiddle DEF Then

\* The three parts that follow a part of the line can be read as one.
LEMMA GathersThree ==
    ASSUME NEW p \in Seq(Pieces), NEW b \in Seq(Pieces), NEW i \in Seq(Pieces),
           NEW e \in Seq(Pieces)
    PROVE  Then(Then(Then(p, b), i), e) = Then(p, Then(Then(b, i), e))
<1>1. Then(Then(p, b), i) = Then(p, Then(b, i))
  BY ThenLaws
<1>2. Then(b, i) \in Seq(Pieces)
  BY ThenLaws
<1>3. Then(Then(p, Then(b, i)), e) = Then(p, Then(Then(b, i), e))
  BY <1>2, ThenLaws
<1> QED
  BY <1>1, <1>3

\* So can four.
LEMMA GathersFour ==
    ASSUME NEW p \in Seq(Pieces), NEW b \in Seq(Pieces), NEW i \in Seq(Pieces),
           NEW e \in Seq(Pieces), NEW q \in Seq(Pieces)
    PROVE  Then(Then(Then(Then(p, b), i), e), q) = Then(p, Then(Then(Then(b, i), e), q))
<1>1. Then(Then(Then(p, b), i), e) = Then(p, Then(Then(b, i), e))
  BY GathersThree
<1>2. Then(Then(b, i), e) \in Seq(Pieces)
  BY ThenLaws
<1>3. Then(Then(p, Then(Then(b, i), e)), q) = Then(p, Then(Then(Then(b, i), e), q))
  BY <1>2, ThenLaws
<1> QED
  BY <1>1, <1>3

\* Losing what one of the programs has in its hands, a part of a stream, what
\* the server has sent last, or all that is between that and the answers, leaves
\* the line in order.
LEMMA LineLoses ==
    ASSUME NEW a \in Seq(Pieces), NEW r \in Seq(Pieces), NEW b \in Seq(Pieces),
           NEW i \in Seq(Pieces), NEW e \in Seq(Pieces), NEW q \in Seq(Pieces),
           NEW s \in Seq(Pieces), NEW n, Ordered(Line(a, r, b, i, e, q, s), n)
    PROVE  /\ Ordered(Line(a, <<>>, b, i, e, q, s), n)
           /\ Ordered(Line(a, r, b, <<>>, e, q, s), n)
           /\ Ordered(Line(a, r, b, i, e, <<>>, s), n)
           /\ Ordered(Line(a, <<>>, <<>>, <<>>, <<>>, <<>>, s), n)
           /\ Ordered(Line(a, r, b, i, e, q, <<>>), n)
           /\ \A c, d \in Seq(Pieces) :
                 e = Then(c, d) => Ordered(Line(a, r, b, i, d, q, s), n)
<1>1. Ordered(Line(a, <<>>, b, i, e, q, s), n)
  <2> DEFINE z == Then(Then(Then(Then(b, i), e), q), s)
  <2>1. z \in Seq(Pieces)
    BY ThenLaws
  <2>2. \A p \in Seq(Pieces) :
           Then(Then(Then(Then(Then(p, b), i), e), q), s) = Then(p, z)
    <3> TAKE p \in Seq(Pieces)
    <3>1. Then(Then(Then(Then(p, b), i), e), q) = Then(p, Then(Then(Then(b, i), e), q))
      BY GathersFour
    <3>2. Then(Then(Then(b, i), e), q) \in Seq(Pieces)
      BY ThenLaws
    <3> QED
      BY <3>1, <3>2, ThenLaws
  <2>3. /\ Line(a, r, b, i, e, q, s) = Then(Then(a, r), z)
        /\ Line(a, <<>>, b, i, e, q, s) = Then(a, z)
    <3>1. Then(a, r) \in Seq(Pieces) /\ Then(a, <<>>) = a
      BY ThenLaws
    <3> QED
      BY <2>2, <3>1 DEF Line
  <2> HIDE DEF z
  <2> QED
    BY <2>1, <2>3, DropPart
<1>2. Ordered(Line(a, r, b, <<>>, e, q, s), n)
  <2> DEFINE x == Then(Then(a, r), b)
             z == Then(Then(e, q), s)
  <2>1. x \in Seq(Pieces) /\ z \in Seq(Pieces)
    BY ThenLaws
  <2>2. Line(a, r, b, i, e, q, s) = Then(Then(x, i), z)
    <3>1. Line(a, r, b, i, e, q, s) = Then(Then(Then(Then(x, i), e), q), s)
      BY DEF Line
    <3>2. Then(x, i) \in Seq(Pieces)
      BY <2>1, ThenLaws
    <3> HIDE DEF x
    <3> QED
      BY <3>1, <3>2, GathersThree
  <2>3. Line(a, r, b, <<>>, e, q, s) = Then(x, z)
    <3>1. Line(a, r, b, <<>>, e, q, s) = Then(Then(Then(Then(x, <<>>), e), q), s)
      BY DEF Line
    <3> HIDE DEF x
    <3>2. Then(x, <<>>) = x
      BY <2>1, ThenLaws
    <3> QED
      BY <2>1, <3>1, <3>2, GathersThree
  <2> HIDE DEF x, z
  <2> QED
    BY <2>1, <2>2, <2>3, DropPart
<1>3. Ordered(Line(a, r, b, i, e, <<>>, s), n)
  <2> DEFINE x == Then(Then(Then(Then(a, r), b), i), e)
  <2>1. x \in Seq(Pieces)
    BY ThenLaws
  <2>2. Line(a, r, b, i, e, q, s) = Then(Then(x, q), s)
    BY DEF Line
  <2>3. Line(a, r, b, i, e, <<>>, s) = Then(x, s)
    <3>1. Line(a, r, b, i, e, <<>>, s) = Then(Then(x, <<>>), s)
      BY DEF Line
    <3> HIDE DEF x
    <3> QED
      BY <2>1, <3>1, ThenLaws
  <2> HIDE DEF x
  <2> QED
    BY <2>1, <2>2, <2>3, DropPart
<1>4. Ordered(Line(a, <<>>, <<>>, <<>>, <<>>, <<>>, s), n)
  <2> DEFINE u == Then(Then(Then(b, i), e), q)
             y == Then(r, u)
  <2>1. y \in Seq(Pieces) /\ u \in Seq(Pieces) /\ Then(a, r) \in Seq(Pieces)
    BY ThenLaws
  <2>2. Line(a, r, b, i, e, q, s) = Then(Then(a, y), s)
    <3> DEFINE ar == Then(a, r)
    <3>1. Line(a, r, b, i, e, q, s) = Then(Then(Then(Then(Then(ar, b), i), e), q), s)
      BY DEF Line
    <3>2. ar \in Seq(Pieces)
      BY <2>1
    <3> HIDE DEF ar
    <3>3. Then(Then(Then(Then(ar, b), i), e), q) = Then(ar, u)
      BY <3>2, GathersFour
    <3> HIDE DEF u
    <3>4. Then(ar, u) = Then(a, y)
      BY <2>1, ThenLaws DEF ar
    <3> QED
      BY <3>1, <3>3, <3>4
  <2>3. Line(a, <<>>, <<>>, <<>>, <<>>, <<>>, s) = Then(a, s)
    BY ThenLaws DEF Line
  <2> HIDE DEF y
  <2>4. Ordered(Then(a, s), n)
    BY <2>1, <2>2, DropPart
  <2> QED
    BY <2>3, <2>4
<1>6. Ordered(Line(a, r, b, i, e, q, <<>>), n)
  <2> DEFINE x == Then(Then(Then(Then(Then(a, r), b), i), e), q)
  <2>1. x \in Seq(Pieces)
    BY ThenLaws
  <2>2. Line(a, r, b, i, e, q, s) = Then(x, s) /\ Line(a, r, b, i, e, q, <<>>) = Then(x, <<>>)
    BY DEF Line
  <2> HIDE DEF x
  <2>3. Then(x, s) \in Seq(Pieces) /\ <<>> \in Seq(Pieces)
    BY <2>1, ThenLaws
  <2>4. Then(Then(x, s), <<>>) = Then(x, s)
    BY <2>3, ThenLaws
  <2>5. Ordered(Then(Then(x, s), <<>>), n)
    BY <2>2, <2>4
  <2> QED
    BY <2>1, <2>2, <2>3, <2>5, DropPart
<1>5. ASSUME NEW c \in Seq(Pieces), NEW d \in Seq(Pieces), e = Then(c, d)
      PROVE  Ordered(Line(a, r, b, i, d, q, s), n)
  <2> DEFINE x == Then(Then(Then(a, r), b), i)
             z == Then(Then(d, q), s)
  <2>1. x \in Seq(Pieces) /\ z \in Seq(Pieces)
    BY ThenLaws
  <2>2. Line(a, r, b, i, e, q, s) = Then(Then(x, c), z)
    <3>1. Line(a, r, b, i, e, q, s) = Then(Then(Then(x, e), q), s)
      BY DEF Line
    <3> HIDE DEF x
    <3>2. Then(x, c) \in Seq(Pieces) /\ Then(x, e) = Then(Then(x, c), d)
      BY <1>5, <2>1, ThenLaws
    <3> QED
      BY <3>1, <3>2, GathersThree
  <2>3. Line(a, r, b, i, d, q, s) = Then(x, z)
    <3>1. Line(a, r, b, i, d, q, s) = Then(Then(Then(x, d), q), s)
      BY DEF Line
    <3> HIDE DEF x
    <3> QED
      BY <2>1, <3>1, GathersThree
  <2> HIDE DEF x, z
  <2> QED
    BY <2>1, <2>2, <2>3, DropPart
<1> QED
  BY <1>1, <1>2, <1>3, <1>4, <1>5, <1>6

\* Each step of the programs slides pieces along the line, takes some out of it,
\* or puts a new request behind it.
LEMMA PipeStep ==
    ASSUME TypeOK, TypeOK', Wiring, PipeInv, [Next]_vars
    PROVE  PipeInv'
<1> USE BridgeAssumption
<1>a. /\ answers \in Seq(Pieces) /\ Back \in Seq(Pieces)
      /\ Stream(to_bridge) \in Seq(Pieces) /\ InEngine \in Seq(Pieces)
      /\ Stream(to_engine) \in Seq(Pieces) /\ Forth \in Seq(Pieces)
      /\ net \in Seq(Pieces) /\ requests \in Nat
  BY PipeTyped
<1>b. Ordered(Line(answers, Back, Stream(to_bridge), InEngine, Stream(to_engine), Forth, net),
              requests)
  BY DEF PipeInv, Pipe
<1> DEFINE Follows(a, r, b, i, e, q, s) ==
             /\ answers' = a /\ Back' = r /\ Stream(to_bridge)' = b /\ InEngine' = i
             /\ Stream(to_engine)' = e /\ Forth' = q /\ net' = s /\ requests' = requests
<1>c. \A a, r, b, i, e, q, s :
         Follows(a, r, b, i, e, q, s) /\ Ordered(Line(a, r, b, i, e, q, s), requests) => PipeInv'
  BY DEF PipeInv, Pipe
<1>d. /\ Connected => life # 0
      /\ Serving => cli_fd # 0
  BY DEF Wiring, Lives
<1>0. CASE UNCHANGED vars
  BY <1>0, <1>b DEF vars, bridgeVars, serverVars, engineVars, connVars, PipeInv, Pipe,
                    Back, Stream, InEngine, Forth
<1>8. CASE closeServer \/ accept \/ close
  <2>1. Follows(answers, Back, Stream(to_bridge), InEngine, Stream(to_engine), Forth, net)
    BY <1>8 DEF closeServer, accept, close, bridgeVars, serverVars, engineVars, connVars,
                Back, Stream, InEngine, Forth
  <2> QED
    BY <1>b, <1>c, <2>1
<1>1. CASE infer_net_connect
  <2>1. Follows(answers, Back, Stream(to_bridge), InEngine, Stream(to_engine), Forth, <<>>)
    BY <1>1 DEF infer_net_connect, engineVars, connVars, Running, Back, Stream, InEngine, Forth
  <2>2. Ordered(Line(answers, Back, Stream(to_bridge), InEngine, Stream(to_engine), Forth, <<>>),
                requests)
    BY <1>a, <1>b, LineLoses
  <2> QED
    BY <1>c, <2>1, <2>2
<1>12. CASE infer_ipc_connect
  <2>0. /\ bridge = "connectEngine" /\ bridge' \in {"recvServer", "stopped"}
        /\ UNCHANGED <<answers, net, requests, engine, cli_fd, buf, to_engine, to_bridge>>
    BY <1>12 DEF infer_ipc_connect, serverVars, engineVars
  <2>1. Back = <<>> /\ Back' = <<>> /\ Forth = <<>> /\ Forth' = <<>>
    BY <2>0 DEF Back, Forth
  <2>2. CASE life' = life
    <3>1. Follows(answers, Back, Stream(to_bridge), InEngine, Stream(to_engine), Forth, net)
      BY <2>0, <2>1, <2>2 DEF Stream, InEngine
    <3> QED
      BY <1>b, <1>c, <3>1
  <2>3. CASE life' = life + 1
    <3>1. life + 1 \in Lives /\ life + 1 > life /\ life + 1 # 0
      BY <2>0 DEF Wiring, TypeOK
    <3>2. to_bridge[life + 1] = <<>> /\ to_engine[life + 1] = <<>>
      BY <3>1 DEF Wiring
    <3>3. ~(engine = "send" /\ cli_fd = life + 1)
      BY <3>1 DEF Wiring, Serving, TypeOK, Lives
    <3>4. Stream(to_bridge)' = <<>> /\ Stream(to_engine)' = <<>>
      BY <2>0, <2>3, <3>1, <3>2 DEF Stream
    <3>5. InEngine' = <<>>
      BY <2>0, <2>3, <3>3 DEF InEngine
    <3>6. Follows(answers, <<>>, <<>>, <<>>, <<>>, <<>>, net)
      BY <2>0, <2>1, <3>4, <3>5
    <3>7. Ordered(Line(answers, <<>>, <<>>, <<>>, <<>>, <<>>, net), requests)
      BY <1>a, <1>b, LineLoses
    <3> QED
      BY <1>c, <3>6, <3>7
  <2> QED
    BY <1>12, <2>2, <2>3 DEF infer_ipc_connect
<1>6. CASE crash
  <2>1. Follows(answers, <<>>, Stream(to_bridge), InEngine, Stream(to_engine), <<>>, net)
    BY <1>6 DEF crash, serverVars, engineVars, connVars, Back, Stream, InEngine, Forth
  <2>2. \/ Back = <<>> \/ Forth = <<>>
    BY DEF Back, Forth
  <2>3. Ordered(Line(answers, <<>>, Stream(to_bridge), InEngine, Stream(to_engine), <<>>, net),
                requests)
    <3>1. CASE Forth = <<>>
      BY <1>a, <1>b, <3>1, LineLoses
    <3>2. CASE Back = <<>>
      BY <1>a, <1>b, <3>2, LineLoses
    <3> QED
      BY <2>2, <3>1, <3>2
  <2> QED
    BY <1>c, <2>1, <2>3
<1>7. CASE sendRequest
  <2>1. /\ net' = net \o Text(requests + 1) /\ requests' = requests + 1
        /\ requests + 1 \in 1 .. MaxRequests
    BY <1>7 DEF sendRequest, TypeOK
  <2>2. UNCHANGED <<answers, Back, Stream(to_bridge), InEngine, Stream(to_engine), Forth>>
    BY <1>7 DEF sendRequest, bridgeVars, engineVars, connVars, Back, Stream, InEngine, Forth
  <2> DEFINE x == Then(Then(Then(Then(Then(answers, Back), Stream(to_bridge)), InEngine),
                                      Stream(to_engine)), Forth)
             t == Text(requests + 1)
  <2>3. x \in Seq(Pieces) /\ t \in Seq(Pieces)
    BY <1>a, <2>1, ThenLaws, TextIsPieces
  <2>4. Pipe = Then(x, net) /\ Pipe' = Then(x, Then(net, t))
    BY <2>1, <2>2 DEF Pipe, Line, Then
  <2> HIDE DEF x
  <2>5. Pipe' = Then(Pipe, t) /\ Pipe \in Seq(Pieces)
    BY <1>a, <2>3, <2>4, ThenLaws
  <2> QED
    BY <1>a, <2>1, <2>5, AddText DEF PipeInv, Then
<1>2. CASE infer_net_recv
  <2>0. Back = <<>> /\ Forth = <<>> /\ Back' = <<>>
    BY <1>2 DEF infer_net_recv, Back, Forth
  <2>1. UNCHANGED <<answers, requests, Stream(to_bridge), InEngine, Stream(to_engine)>>
    BY <1>2 DEF infer_net_recv, engineVars, connVars, Stream, InEngine
  <2>2. CASE bridge' = "stopped" /\ net' = net
    <3>1. Follows(answers, Back, Stream(to_bridge), InEngine, Stream(to_engine), Forth, net)
      BY <2>0, <2>1, <2>2 DEF Forth
    <3> QED
      BY <1>b, <1>c, <3>1
  <2>3. ASSUME NEW chunk \in Chunks(net), Forth' = chunk, net' = Rest(net, chunk)
        PROVE  PipeInv'
    <3>1. chunk \in Seq(Pieces) /\ net' \in Seq(Pieces) /\ net = Then(chunk, net')
      BY <1>a, <2>3, ChunkSplits DEF Then
    <3>2. Follows(answers, Back, Stream(to_bridge), InEngine, Stream(to_engine), chunk, net')
      BY <2>0, <2>1, <2>3
    <3> DEFINE x == Then(Then(Then(Then(answers, Back), Stream(to_bridge)), InEngine),
                         Stream(to_engine))
    <3>3. x \in Seq(Pieces)
      BY <1>a, ThenLaws
    <3>4. Then(Then(x, Forth), net) = Then(Then(x, chunk), net')
      BY <2>0, <3>1, <3>3, ThenLaws
    <3>5. Line(answers, Back, Stream(to_bridge), InEngine, Stream(to_engine), chunk, net')
            = Line(answers, Back, Stream(to_bridge), InEngine, Stream(to_engine), Forth, net)
      BY <3>4 DEF Line
    <3> QED
      BY <1>b, <1>c, <3>2, <3>5
  <2> QED
    BY <1>2, <2>2, <2>3 DEF infer_net_recv, Forth
<1>3. CASE infer_ipc_send
  <2>1. /\ bridge = "sendEngine" /\ life \in Lives /\ Forth = req_json
        /\ Back = <<>> /\ Back' = <<>> /\ Forth' = <<>>
        /\ UNCHANGED <<answers, requests, Stream(to_bridge), InEngine, net>>
    BY <1>3 DEF infer_ipc_send, serverVars, engineVars, Wiring, Connected, Running, Back, Stream,
                InEngine, Forth
  <2>2. CASE to_engine' = to_engine
    <3>1. Follows(answers, Back, Stream(to_bridge), InEngine, Stream(to_engine), <<>>, net)
      BY <1>3, <2>1, <2>2 DEF infer_ipc_send, Stream
    <3>2. Ordered(Line(answers, Back, Stream(to_bridge), InEngine, Stream(to_engine), <<>>, net),
                  requests)
      BY <1>a, <1>b, LineLoses
    <3> QED
      BY <1>c, <3>1, <3>2
  <2>3. CASE to_engine' = [to_engine EXCEPT ![life] = @ \o req_json]
    <3>0. life' = life
      BY <1>3 DEF infer_ipc_send
    <3>1. Stream(to_engine)' = Then(Stream(to_engine), Forth)
      <4>1. to_engine'[life] = to_engine[life] \o req_json
        BY <2>1, <2>3 DEF TypeOK
      <4> QED
        BY <2>1, <3>0, <4>1 DEF Stream, Then, Lives
    <3> DEFINE e == Then(Stream(to_engine), Forth)
               x == Then(Then(Then(answers, Back), Stream(to_bridge)), InEngine)
    <3>2. Follows(answers, Back, Stream(to_bridge), InEngine, e, <<>>, net)
      BY <2>1, <3>1
    <3>3. x \in Seq(Pieces)
      BY <1>a, ThenLaws
    <3>4. Then(Then(x, e), <<>>) = Then(Then(x, Stream(to_engine)), Forth)
      BY <1>a, <3>3, ThenLaws
    <3>5. Line(answers, Back, Stream(to_bridge), InEngine, e, <<>>, net)
            = Line(answers, Back, Stream(to_bridge), InEngine, Stream(to_engine), Forth, net)
      BY <3>4 DEF Line
    <3> QED
      BY <1>b, <1>c, <3>2, <3>5
  <2> QED
    BY <1>3, <2>2, <2>3 DEF infer_ipc_send
<1>4. CASE infer_ipc_recv
  <2>1. /\ bridge = "recvEngine" /\ life \in Lives /\ life' = life
        /\ Forth = <<>> /\ Forth' = <<>> /\ Back = <<>>
        /\ UNCHANGED <<answers, requests, Stream(to_engine), InEngine, net>>
    BY <1>4 DEF infer_ipc_recv, serverVars, engineVars, Wiring, Connected, Running, Back, Stream,
                InEngine, Forth
  <2>2. CASE UNCHANGED to_bridge /\ bridge' = "recvServer"
    <3>1. Follows(answers, Back, Stream(to_bridge), InEngine, Stream(to_engine), Forth, net)
      BY <2>1, <2>2 DEF Stream, Back
    <3> QED
      BY <1>b, <1>c, <3>1
  <2>3. ASSUME NEW chunk \in Chunks(to_bridge[life]), resp_json' = chunk,
               to_bridge' = [to_bridge EXCEPT ![life] = Rest(@, chunk)],
               bridge' = "sendServer"
        PROVE  PipeInv'
    <3> DEFINE b == Rest(to_bridge[life], chunk)
    <3>0. Stream(to_bridge) = to_bridge[life] /\ Stream(to_bridge)' = b /\ Back' = chunk
      BY <2>1, <2>3 DEF Stream, Back, TypeOK, Lives
    <3>1. chunk \in Seq(Pieces) /\ b \in Seq(Pieces) /\ Stream(to_bridge) = Then(chunk, b)
      BY <1>a, <3>0, ChunkSplits DEF Then
    <3> HIDE DEF b
    <3>2. Follows(answers, chunk, b, InEngine, Stream(to_engine), Forth, net)
      BY <2>1, <3>0
    <3>3. Then(Then(answers, Back), Stream(to_bridge)) = Then(Then(answers, chunk), b)
      BY <1>a, <2>1, <3>1, ThenLaws
    <3>4. Line(answers, chunk, b, InEngine, Stream(to_engine), Forth, net)
            = Line(answers, Back, Stream(to_bridge), InEngine, Stream(to_engine), Forth, net)
      BY <3>3 DEF Line
    <3> QED
      BY <1>b, <1>c, <3>2, <3>4
  <2> QED
    BY <1>4, <2>2, <2>3 DEF infer_ipc_recv
<1>5. CASE infer_net_send
  <2>1. /\ bridge = "sendServer" /\ Back = resp_json /\ Back' = <<>>
        /\ Forth = <<>> /\ Forth' = <<>>
        /\ UNCHANGED <<requests, Stream(to_bridge), InEngine, Stream(to_engine), net>>
    BY <1>5 DEF infer_net_send, engineVars, connVars, Back, Forth, Stream, InEngine
  <2>2. CASE answers' = answers
    <3>1. Follows(answers, <<>>, Stream(to_bridge), InEngine, Stream(to_engine), Forth, net)
      BY <2>1, <2>2
    <3>2. Ordered(Line(answers, <<>>, Stream(to_bridge), InEngine, Stream(to_engine), Forth, net),
                  requests)
      BY <1>a, <1>b, LineLoses
    <3> QED
      BY <1>c, <3>1, <3>2
  <2>3. CASE answers' = answers \o resp_json
    <3> DEFINE a == Then(answers, Back)
    <3>1. Follows(a, <<>>, Stream(to_bridge), InEngine, Stream(to_engine), Forth, net)
      BY <2>1, <2>3 DEF Then
    <3>2. Then(a, <<>>) = Then(answers, Back)
      BY <1>a, ThenLaws
    <3>3. Line(a, <<>>, Stream(to_bridge), InEngine, Stream(to_engine), Forth, net)
            = Line(answers, Back, Stream(to_bridge), InEngine, Stream(to_engine), Forth, net)
      BY <3>2 DEF Line
    <3> QED
      BY <1>b, <1>c, <3>1, <3>3
  <2> QED
    BY <1>5, <2>2, <2>3 DEF infer_net_send
<1>10. CASE recv
  <2>1. /\ engine = "recv" /\ cli_fd \in Lives /\ InEngine = <<>>
        /\ UNCHANGED <<answers, requests, Back, Stream(to_bridge), Forth, net, life, cli_fd>>
    BY <1>10 DEF recv, bridgeVars, serverVars, Wiring, Serving, Back, Stream, InEngine, Forth
  <2>2. CASE cli_fd # life \/ (to_engine' = to_engine /\ engine' = "close")
    <3>1. Stream(to_engine)' = Stream(to_engine)
      <4>1. CASE to_engine' = to_engine
        BY <2>1, <4>1 DEF Stream
      <4>2. CASE cli_fd # life
        <5>1. \A k \in Lives \ {cli_fd} : to_engine'[k] = to_engine[k]
          BY <1>10, <2>1 DEF recv, TypeOK
        <5>2. life = 0 \/ life \in Lives
          BY DEF TypeOK, Lives
        <5> QED
          BY <2>1, <4>2, <5>1, <5>2 DEF Stream
      <4> QED
        BY <2>2, <4>1, <4>2
    <3>2. InEngine' = InEngine
      BY <2>1, <2>2 DEF InEngine
    <3>3. Follows(answers, Back, Stream(to_bridge), InEngine, Stream(to_engine), Forth, net)
      BY <2>1, <3>1, <3>2
    <3> QED
      BY <1>b, <1>c, <3>3
  <2>3. ASSUME cli_fd = life, NEW chunk \in Chunks(to_engine[cli_fd]), buf' = chunk,
               to_engine' = [to_engine EXCEPT ![cli_fd] = Rest(@, chunk)],
               engine' = IF Parses(chunk) THEN "send" ELSE "close"
        PROVE  PipeInv'
    <3> DEFINE e == Rest(to_engine[cli_fd], chunk)
    <3>0. Stream(to_engine) = to_engine[cli_fd] /\ Stream(to_engine)' = e
      BY <2>1, <2>3 DEF Stream, TypeOK, Lives
    <3>1. chunk \in Seq(Pieces) /\ e \in Seq(Pieces) /\ Stream(to_engine) = Then(chunk, e)
      BY <1>a, <3>0, ChunkSplits DEF Then
    <3> HIDE DEF e
    <3>2. CASE engine' = "close"
      <4>1. Follows(answers, Back, Stream(to_bridge), InEngine, e, Forth, net)
        BY <2>1, <3>0, <3>2 DEF InEngine
      <4>2. Ordered(Line(answers, Back, Stream(to_bridge), InEngine, e, Forth, net), requests)
        BY <1>a, <1>b, <3>1, LineLoses
      <4> QED
        BY <1>c, <4>1, <4>2
    <3>3. CASE engine' = "send"
      <4>1. Follows(answers, Back, Stream(to_bridge), chunk, e, Forth, net)
        BY <2>1, <2>3, <3>0, <3>3 DEF InEngine
      <4> DEFINE x == Then(Then(answers, Back), Stream(to_bridge))
      <4>2. x \in Seq(Pieces)
        BY <1>a, ThenLaws
      <4>3. Then(Then(x, InEngine), Stream(to_engine)) = Then(Then(x, chunk), e)
        BY <2>1, <3>1, <4>2, ThenLaws
      <4>4. Line(answers, Back, Stream(to_bridge), chunk, e, Forth, net)
              = Line(answers, Back, Stream(to_bridge), InEngine, Stream(to_engine), Forth, net)
        BY <4>3 DEF Line
      <4> QED
        BY <1>b, <1>c, <4>1, <4>4
    <3> QED
      BY <2>3, <3>2, <3>3
  <2> QED
    BY <1>10, <2>2, <2>3 DEF recv
<1>11. CASE send
  <2>1. /\ engine = "send" /\ cli_fd \in Lives /\ InEngine' = <<>>
        /\ Parses(buf) /\ buf \in Seq(Pieces)
        /\ UNCHANGED <<answers, requests, Back, Stream(to_engine), Forth, net, life, cli_fd>>
    BY <1>11 DEF send, bridgeVars, serverVars, Wiring, Serving, TypeOK, Back, Stream, InEngine,
                 Forth
  <2>2. buf = Text(Parsed(buf))
    BY <2>1, ParsedIsText
  <2>3. CASE to_bridge' = to_bridge \/ cli_fd # life
    <3>1. Stream(to_bridge)' = Stream(to_bridge)
      <4>1. CASE to_bridge' = to_bridge
        BY <2>1, <4>1 DEF Stream
      <4>2. CASE cli_fd # life
        <5>1. \A k \in Lives \ {cli_fd} : to_bridge'[k] = to_bridge[k]
          BY <1>11, <2>1 DEF send, TypeOK
        <5>2. life = 0 \/ life \in Lives
          BY DEF TypeOK, Lives
        <5> QED
          BY <2>1, <4>2, <5>1, <5>2 DEF Stream
      <4> QED
        BY <2>3, <4>1, <4>2
    <3>2. Follows(answers, Back, Stream(to_bridge), <<>>, Stream(to_engine), Forth, net)
      BY <2>1, <3>1
    <3>3. Ordered(Line(answers, Back, Stream(to_bridge), <<>>, Stream(to_engine), Forth, net),
                  requests)
      BY <1>a, <1>b, LineLoses
    <3> QED
      BY <1>c, <3>2, <3>3
  <2>4. CASE /\ cli_fd = life
             /\ to_bridge' = [to_bridge EXCEPT ![cli_fd] = @ \o Text(Parsed(buf))]
    <3> DEFINE b == Then(Stream(to_bridge), InEngine)
    <3>1. Stream(to_bridge)' = b
      <4>1. to_bridge'[life] = to_bridge[life] \o buf
        BY <2>1, <2>2, <2>4 DEF TypeOK
      <4>2. life # 0 /\ life' = life /\ InEngine = buf
        BY <2>1, <2>4 DEF InEngine, Lives
      <4>3. Stream(to_bridge) = to_bridge[life] /\ Stream(to_bridge)' = to_bridge'[life]
        BY <4>2 DEF Stream
      <4> QED
        BY <4>1, <4>2, <4>3 DEF Then
    <3> DEFINE x == Then(answers, Back)
    <3>2. Follows(answers, Back, b, <<>>, Stream(to_engine), Forth, net)
      BY <2>1, <3>1
    <3>3. x \in Seq(Pieces)
      BY <1>a, ThenLaws
    <3>4. Then(Then(x, b), <<>>) = Then(Then(x, Stream(to_bridge)), InEngine)
      BY <1>a, <3>3, ThenLaws
    <3>5. Line(answers, Back, b, <<>>, Stream(to_engine), Forth, net)
            = Line(answers, Back, Stream(to_bridge), InEngine, Stream(to_engine), Forth, net)
      BY <3>4 DEF Line
    <3> QED
      BY <1>b, <1>c, <3>2, <3>5
  <2> QED
    BY <1>11, <2>3, <2>4 DEF send
<1> QED
  BY NextSplit, <1>0, <1>1, <1>2, <1>3, <1>4, <1>5, <1>6, <1>7, <1>8, <1>10, <1>11,
     <1>12

\* The server gets answers, or parts of them, in the order of its requests and
\* none twice, through any number of lives of the bridge, whatever recv makes
\* of the streams and whoever is killed.
THEOREM AnswersOrdered == Spec => []AnswersInOrder
<1>1. Init => PipeInv
  <2> SUFFICES ASSUME Init PROVE PipeInv
    OBVIOUS
  <2>1. Pipe = <<>>
    <3>1. /\ answers = <<>> /\ Back = <<>> /\ Stream(to_bridge) = <<>> /\ InEngine = <<>>
          /\ Stream(to_engine) = <<>> /\ Forth = <<>> /\ net = <<>>
      BY DEF Init, Back, Stream, InEngine, Forth
    <3>2. Then(<<>>, <<>>) = <<>>
      BY ThenLaws
    <3> QED
      BY <3>1, <3>2 DEF Pipe, Line
  <2> QED
    BY <2>1 DEF PipeInv, Ordered
<1>2. TypeOK /\ TypeOK' /\ Wiring /\ PipeInv /\ [Next]_vars => PipeInv'
  BY PipeStep
<1>3. TypeOK /\ PipeInv => AnswersInOrder
  <2> SUFFICES ASSUME TypeOK, PipeInv PROVE AnswersInOrder
    OBVIOUS
  <2>1. Ordered(answers, requests)
    <3>1. answers \in Seq(Pieces)
      BY PipeTyped
    <3>2. Line(answers, <<>>, <<>>, <<>>, <<>>, <<>>, <<>>) = answers
      BY <3>1, ThenLaws DEF Line
    <3>3. Ordered(Line(answers, <<>>, <<>>, <<>>, <<>>, <<>>, <<>>), requests)
      <4>1. Ordered(Line(answers, Back, Stream(to_bridge), InEngine, Stream(to_engine), Forth,
                         net), requests)
        BY DEF PipeInv, Pipe
      <4>2. Ordered(Line(answers, <<>>, <<>>, <<>>, <<>>, <<>>, net), requests)
        BY <4>1, PipeTyped, LineLoses
      <4>3. <<>> \in Seq(Pieces)
        BY ThenLaws
      <4> QED
        BY <4>2, <4>3, PipeTyped, LineLoses
    <3> QED
      BY <3>2, <3>3
  <2> QED
    BY <2>1 DEF Ordered, AnswersInOrder
<1> QED
  BY <1>1, <1>2, <1>3, Wired, PTL DEF Spec

----------------------------------------------------------------------------
\* The pieces of an answer that the bridge holds, and those that the engine has
\* yet to send to the k-th life of the bridge.
Held == IF bridge = "sendServer" THEN Len(resp_json) ELSE 0

Owed(k) == IF Unanswered(k) THEN 2 ELSE 0

\* What the present life may still pass on.
Due == Held + Len(to_bridge[life]) + Owed(life)

\* An answer has two pieces: what has been passed on and what may still be comes
\* to one answer for each life at most.
AnswerInv == /\ Len(answers) <= 2 * life
             /\ Connected => Len(answers) + Due <= 2 * life

\* The counts are numbers.
LEMMA CountsTyped ==
    TypeOK /\ Wiring =>
        /\ Len(answers) \in Nat /\ Len(resp_json) \in Nat /\ Held \in Nat /\ life \in Nat
        /\ \A k \in Lives : Len(to_bridge[k]) \in Nat /\ Owed(k) \in {0, 2}
        /\ Connected => life \in Lives
<1> SUFFICES ASSUME TypeOK, Wiring
             PROVE  /\ Len(answers) \in Nat /\ Len(resp_json) \in Nat
                    /\ Held \in Nat /\ life \in Nat
                    /\ \A k \in Lives : Len(to_bridge[k]) \in Nat /\ Owed(k) \in {0, 2}
                    /\ Connected => life \in Lives
  OBVIOUS
<1>1. /\ answers \in Seq(Pieces) /\ resp_json \in Seq(Pieces) /\ life \in Nat
      /\ \A k \in Lives : to_bridge[k] \in Seq(Pieces)
  BY DEF TypeOK
<1>2. \A s \in Seq(Pieces) : Len(s) \in Nat
  BY LenProperties
<1>3. Held \in Nat
  BY <1>1, <1>2 DEF Held
<1>4. \A k \in Lives : Owed(k) \in {0, 2}
  BY DEF Owed
<1>5. Connected => life \in Lives
  BY DEF Wiring
<1> QED
  BY <1>1, <1>2, <1>3, <1>4, <1>5

\* No step brings a life more than one answer.
LEMMA AnswerStep ==
    ASSUME TypeOK, TypeOK', Wiring, Wiring', AnswerInv, [Next]_vars
    PROVE  AnswerInv'
<1>0. /\ Len(answers) \in Nat /\ Len(resp_json) \in Nat /\ Held \in Nat /\ life \in Nat
      /\ \A k \in Lives : Len(to_bridge[k]) \in Nat /\ Owed(k) \in {0, 2}
      /\ Connected => life \in Lives
  BY CountsTyped
<1>10. (/\ Len(answers) \in Nat /\ Len(resp_json) \in Nat /\ Held \in Nat /\ life \in Nat
        /\ \A k \in Lives : Len(to_bridge[k]) \in Nat /\ Owed(k) \in {0, 2}
        /\ Connected => life \in Lives)'
  BY CountsTyped, PTL
\* A step that adds nothing to what the present life may pass on.
<1>1. ASSUME life' = life, Len(answers)' = Len(answers), Connected' => Connected,
             Connected' => Due' <= Due
      PROVE  AnswerInv'
  <2>1. ASSUME Connected'
        PROVE  Len(answers)' + Due' <= 2 * life'
    <3>1. Due \in Nat /\ Due' \in Nat
      <4>1. life \in Lives /\ life' \in Lives
        BY <1>10, <1>1, <2>1
      <4>2. /\ Len(to_bridge[life]) \in Nat /\ Owed(life) \in Nat
            /\ Len(to_bridge[life])' \in Nat /\ Owed(life)' \in Nat
        BY <1>0, <1>10, <1>1, <4>1
      <4>3. Due \in Nat
        BY <1>0, <4>2 DEF Due
      <4>4. Due' \in Nat
        <5>1. Held' \in Nat
          BY <1>10
        <5> QED
          BY <4>2, <5>1 DEF Due
      <4> QED
        BY <4>3, <4>4
    <3>2. Len(answers) + Due <= 2 * life /\ Due' <= Due
      BY <1>1, <2>1 DEF AnswerInv
    <3> QED
      BY <1>0, <1>1, <3>1, <3>2
  <2>2. Len(answers)' <= 2 * life'
    BY <1>1 DEF AnswerInv
  <2> QED
    BY <2>1, <2>2 DEF AnswerInv
\* The same, part by part.
<1>2. ASSUME life' = life, Len(answers)' = Len(answers), Connected' => Connected,
             Held' <= Held, to_bridge' = to_bridge,
             \A k \in Lives : Unanswered(k)' => Unanswered(k)
      PROVE  AnswerInv'
  <2>1. \A k \in Lives : Owed(k)' <= Owed(k)
    <3> TAKE k \in Lives
    <3>1. Unanswered(k)' => Unanswered(k)
      BY <1>2
    <3>2. CASE Unanswered(k)
      <4>1. Owed(k) = 2
        BY <3>2 DEF Owed
      <4> QED
        BY <1>10, <4>1
    <3>3. CASE ~Unanswered(k)
      <4>1. Owed(k) = 0 /\ Owed(k)' = 0
        BY <3>1, <3>3 DEF Owed
      <4> QED
        BY <4>1
    <3> QED
      BY <3>2, <3>3
  <2>2. ASSUME Connected'
        PROVE  Due' <= Due
    <3>1. life \in Lives /\ Owed(life)' <= Owed(life)
      BY <1>10, <1>2, <2>1, <2>2
    <3>2. /\ Len(to_bridge[life])' = Len(to_bridge[life])
          /\ Len(to_bridge[life]) \in Nat /\ Owed(life) \in Int /\ Owed(life)' \in Int
      BY <1>0, <1>10, <1>2, <3>1
    <3>3. Held \in Nat /\ Held' \in Nat /\ Held' <= Held
      BY <1>0, <1>10, <1>2
    <3> QED
      BY <3>1, <3>2, <3>3 DEF Due
  <2> QED
    BY <1>1, <1>2, <2>2
<1>3. CASE infer_net_connect
  <2>1. bridge' = "connectEngine" /\ UNCHANGED <<life, answers>>
    BY <1>3 DEF infer_net_connect
  <2>2. Len(answers) <= 2 * life
    BY DEF AnswerInv
  <2> QED
    BY <2>1, <2>2 DEF AnswerInv, Connected
<1>11. CASE infer_ipc_connect
  <2>0. bridge = "connectEngine" /\ UNCHANGED <<answers, to_bridge>>
    BY <1>11 DEF infer_ipc_connect, serverVars
  <2>a. Len(answers)' = Len(answers) /\ Len(answers) <= 2 * life
    BY <2>0 DEF AnswerInv
  <2>b. CASE life' = life /\ bridge' = "stopped"
    BY <2>a, <2>b DEF AnswerInv, Connected, Running
  <2>c. CASE life' = life + 1 /\ bridge' = "recvServer"
    <3>1. life + 1 \in Lives /\ life + 1 > life
      BY <1>0, <2>0 DEF Wiring
    <3>2. Held' = 0 /\ Len(to_bridge[life])' = 0
      BY <2>0, <2>c, <3>1 DEF Held, Wiring
    <3>3. Owed(life)' \in {0, 2}
      BY <1>10, <2>c, <3>1
    <3>4. Due' <= 2 /\ Due' \in Nat
      BY <3>2, <3>3 DEF Due
    <3> QED
      BY <1>0, <2>a, <2>c, <3>4 DEF AnswerInv
  <2> QED
    BY <1>11, <2>b, <2>c DEF infer_ipc_connect
<1>4. CASE infer_net_recv \/ infer_ipc_send
  BY <1>2, <1>4 DEF infer_net_recv, infer_ipc_send, engineVars, connVars, serverVars,
                    Held, Connected, Running, Unanswered
<1>5. CASE infer_ipc_recv
  <2>1. /\ bridge = "recvEngine" /\ life \in Lives
        /\ UNCHANGED <<life, answers, engine, cli_fd, conn>>
    BY <1>0, <1>5 DEF infer_ipc_recv, serverVars, engineVars, Connected, Running
  <2>2. CASE UNCHANGED <<resp_json, to_bridge>> /\ bridge' = "recvServer"
    BY <1>2, <2>1, <2>2 DEF Held, Connected, Running, Unanswered
  <2>3. ASSUME NEW chunk \in Chunks(to_bridge[life]), resp_json' = chunk,
               to_bridge' = [to_bridge EXCEPT ![life] = Rest(@, chunk)],
               bridge' = "sendServer"
        PROVE  AnswerInv'
    <3>1. /\ chunk \in Seq(Pieces) /\ Rest(to_bridge[life], chunk) \in Seq(Pieces)
          /\ to_bridge[life] = chunk \o Rest(to_bridge[life], chunk)
      BY <2>1, ChunkSplits DEF TypeOK
    <3>2. /\ Len(to_bridge[life]) = Len(chunk) + Len(Rest(to_bridge[life], chunk))
          /\ Len(chunk) \in Nat /\ Len(Rest(to_bridge[life], chunk)) \in Nat
      BY <3>1, ConcatProperties, LenProperties
    <3>3. to_bridge'[life] = Rest(to_bridge[life], chunk)
      BY <2>1, <2>3 DEF TypeOK
    <3>4. Held = 0 /\ Held' = Len(chunk)
      BY <2>1, <2>3 DEF Held
    <3>5. Len(to_bridge[life])' = Len(Rest(to_bridge[life], chunk))
      BY <2>1, <3>3
    <3>6. Owed(life)' = Owed(life) /\ Owed(life) \in {0, 2}
      BY <1>0, <2>1 DEF Owed, Unanswered
    <3>7. Due' = Due
      BY <3>2, <3>4, <3>5, <3>6 DEF Due
    <3>8. Connected /\ Due \in Nat
      BY <2>1, <3>2, <3>4, <3>6 DEF Connected, Running, Due
    <3> QED
      BY <1>1, <2>1, <3>7, <3>8
  <2> QED
    BY <1>5, <2>2, <2>3 DEF infer_ipc_recv
<1>6. CASE infer_net_send
  <2>1. /\ bridge = "sendServer" /\ life \in Lives
        /\ bridge' \in {"recvServer", "killed"}
        /\ UNCHANGED <<life, resp_json, engine, cli_fd, conn, to_bridge>>
    BY <1>0, <1>6 DEF infer_net_send, engineVars, connVars, Connected, Running
  <2>2. Held = Len(resp_json) /\ Held' = 0
    BY <2>1 DEF Held
  <2>3. CASE UNCHANGED answers
    BY <1>0, <1>2, <2>1, <2>2, <2>3 DEF Connected, Running, Unanswered
  <2>4. CASE answers' = answers \o resp_json
    <3>1. Len(answers)' = Len(answers) + Len(resp_json)
      BY <2>4, ConcatProperties DEF TypeOK
    <3>2. Len(to_bridge[life])' = Len(to_bridge[life]) /\ Len(to_bridge[life]) \in Nat
      BY <1>0, <2>1
    <3>3. Owed(life)' = Owed(life) /\ Owed(life) \in {0, 2}
      BY <1>0, <2>1 DEF Owed, Unanswered
    <3>4. /\ Len(answers)' + Due' = Len(answers) + Due
          /\ Due' \in Nat
      BY <1>0, <2>2, <3>1, <3>2, <3>3 DEF Due
    <3>5. Len(answers) + Due <= 2 * life
      BY <2>1 DEF AnswerInv, Connected, Running
    <3> QED
      BY <1>0, <1>10, <2>1, <3>4, <3>5 DEF AnswerInv
  <2> QED
    BY <1>6, <2>3, <2>4 DEF infer_net_send
<1>7. CASE UNCHANGED vars \/ crash \/ sendRequest \/ closeServer
  <2>1. /\ UNCHANGED <<life, resp_json, answers, engine, cli_fd, conn, to_bridge>>
        /\ bridge' = bridge \/ bridge' = "killed"
        /\ Connected' => Connected
    BY <1>7 DEF vars, crash, sendRequest, closeServer, bridgeVars, serverVars, engineVars,
                connVars, Connected, Running
  <2>2. Held' <= Held
    BY <1>0, <2>1 DEF Held
  <2> QED
    BY <1>2, <2>1, <2>2 DEF Unanswered
<1>8. CASE accept \/ recv \/ close
  <2>1. UNCHANGED <<bridge, life, resp_json, answers, to_bridge>>
    BY <1>8 DEF accept, recv, close, bridgeVars, serverVars
  <2>2. \A k \in Lives : Unanswered(k)' => Unanswered(k)
    BY <1>8 DEF accept, recv, close, Unanswered, TypeOK, Wiring, Serving
  <2>3. Held' <= Held /\ Connected' = Connected
    BY <1>0, <2>1 DEF Held, Connected, Running
  <2> QED
    BY <1>2, <2>1, <2>2, <2>3
<1>9. CASE send
  <2>1. /\ engine = "send" /\ cli_fd \in Lives /\ Parses(buf)
        /\ UNCHANGED <<cli_fd, buf, bridge, life, resp_json, answers>>
    BY <1>9 DEF send, Wiring, Serving, bridgeVars, serverVars
  <2>2. Held' = Held /\ Connected' = Connected
    BY <2>1 DEF Held, Connected, Running
  <2>3. CASE ~BridgeHolds(cli_fd)
    <3>1. /\ engine' = "killed" /\ UNCHANGED to_bridge
          /\ conn' = [k \in Lives |-> IF conn[k] = "none" THEN "none" ELSE "closed"]
      BY <1>9, <2>3 DEF send
    <3>2. \A k \in Lives : ~Unanswered(k)'
      BY <3>1 DEF Unanswered
    <3> QED
      BY <1>0, <1>2, <2>1, <2>2, <3>1, <3>2
  <2>4. CASE BridgeHolds(cli_fd)
    <3>1. /\ engine' = "close" /\ UNCHANGED conn /\ cli_fd = life /\ Connected
          /\ to_bridge' = [to_bridge EXCEPT ![cli_fd] = @ \o Text(Parsed(buf))]
      BY <1>9, <2>4 DEF send, BridgeHolds
    <3>2. Parsed(buf) \in 1 .. MaxRequests
      BY <2>1, ParsedIsText DEF TypeOK
    <3>3. Text(Parsed(buf)) \in Seq(Pieces) /\ Len(Text(Parsed(buf))) = 2
      BY <3>2, TextIsPieces
    <3>4. /\ Len(to_bridge[life] \o Text(Parsed(buf))) = Len(to_bridge[life]) + 2
          /\ Len(to_bridge[life]) \in Nat
      <4>1. to_bridge[life] \in Seq(Pieces)
        BY <2>1, <3>1 DEF TypeOK
      <4>2. \A s, t \in Seq(Pieces) : Len(s \o t) = Len(s) + Len(t) /\ Len(s) \in Nat
        BY ConcatProperties, LenProperties
      <4> QED
        BY <3>3, <4>1, <4>2
    <3>5. Len(to_bridge[life])' = Len(to_bridge[life]) + 2
      BY <2>1, <3>1, <3>4 DEF TypeOK
    <3>6. Owed(life) = 2
      BY <2>1, <3>1 DEF Owed, Unanswered
    <3>7. Owed(life)' = 0
      BY <2>1, <3>1 DEF Owed, Unanswered, Wiring, Serving
    <3>8. Due' = Due /\ Due \in Nat
      BY <1>0, <2>2, <3>4, <3>5, <3>6, <3>7 DEF Due
    <3> QED
      BY <1>1, <2>1, <2>2, <3>8
  <2> QED
    BY <2>3, <2>4
<1> QED
  BY NextSplit, <1>3, <1>4, <1>5, <1>6, <1>7, <1>8, <1>9, <1>11

\* Each life of the bridge brings the server at most one answer.
OneAnswerPerLife == Len(answers) <= 2 * life

\* The bridge's loop (infer_main.cpp:16-29) is written for any number of
\* requests over one connection, but what run bridge_forward shows is not a
\* matter of timing: however often the server asks, it gets one answer for each
\* connection of the bridge at most, since the engine closes after it
\* (engine_ipc_server.cpp:37).
THEOREM OneAnswerEach == Spec => []OneAnswerPerLife
<1>1. Init => AnswerInv
  <2>1. Len(<<>>) = 0 /\ 0 <= 2 * 0
    OBVIOUS
  <2> QED
    BY <2>1 DEF Init, AnswerInv, Connected, Running
<1>2. TypeOK /\ TypeOK' /\ Wiring /\ Wiring' /\ AnswerInv /\ [Next]_vars => AnswerInv'
  BY AnswerStep
<1>3. AnswerInv => OneAnswerPerLife
  BY DEF AnswerInv, OneAnswerPerLife
<1> QED
  BY <1>1, <1>2, <1>3, Wired, PTL DEF Spec

============================================================================
