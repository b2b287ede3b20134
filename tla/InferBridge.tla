---------------------------- MODULE InferBridge ----------------------------
(***************************************************************************)
(* The two programs in infer/: the bridge (infer_main.cpp), which connects *)
(* to the server and to the inference engine and passes each request and   *)
(* each answer on, and the engine (engine_ipc_server.cpp), which accepts a *)
(* connection, reads once, answers if it could parse what it read, and     *)
(* closes the connection.  All their calls block.                          *)
(*                                                                         *)
(* Neither program handles SIGPIPE: a send on a connection that the other  *)
(* side has closed ends the process.  The server is external, and so is    *)
(* whoever starts the bridge again; a life of the bridge is counted from   *)
(* its connection to the engine, and starts that do not get one end        *)
(* without a trace.                                                        *)
(***************************************************************************)
EXTENDS ByteStream, Integers, FiniteSets

CONSTANTS MaxLives,        \* bound on how often the bridge is started
          MaxRequests      \* bound on the requests the server sends

\* listen(listen_fd, 1): one connection more than this may wait for accept.
Backlog == 1

ASSUME BridgeAssumption == MaxLives \in Nat \ {0} /\ MaxRequests \in Nat

VARIABLES
    \* the bridge
    bridge,      \* its next step
    life,        \* how often it has been connected to the engine
    req_json, resp_json,
    crashed,     \* ghost: it has been killed from outside
    \* the server, and its connection to the bridge
    requests,    \* how many requests it has sent
    server_up,   \* it has not closed the connection
    net,         \* stream from the server to the bridge
    answers,     \* what has arrived at the server, over all lives
    \* the engine, and its connections to the bridge, one per life
    engine,      \* its next step
    cli_fd,      \* the connection it serves, or 0
    buf,
    conn,        \* life -> the engine's side: "none", "queued", "open", "closed"
    to_engine, to_bridge

bridgeVars == <<bridge, life, req_json, resp_json, crashed>>
serverVars == <<requests, server_up, net, answers>>
engineVars == <<engine, cli_fd, buf>>
connVars   == <<conn, to_engine, to_bridge>>
vars       == <<bridgeVars, serverVars, engineVars, connVars>>

Lives == 1 .. MaxLives

Init == /\ bridge = "stopped" /\ life = 0
        /\ req_json = <<>> /\ resp_json = <<>>
        /\ crashed = FALSE
        /\ requests = 0 /\ server_up = FALSE
        /\ net = <<>> /\ answers = <<>>
        /\ engine = "accept" /\ cli_fd = 0 /\ buf = <<>>
        /\ conn = [k \in Lives |-> "none"]
        /\ to_engine = [k \in Lives |-> <<>>]
        /\ to_bridge = [k \in Lives |-> <<>>]

\* The bridge holds its sockets until its process ends.
Running == bridge \notin {"stopped", "killed"}

Connected == Running /\ bridge # "connectEngine"

BridgeHolds(k) == Connected /\ life = k

Queued == {k \in Lives : conn[k] = "queued"}

----------------------------------------------------------------------------
\* Mutants of the actions below, each a plausible slip in infer/.
infer_ipc_recvOnce ==
    /\ bridge = "recvEngine"
    /\ \/ /\ to_bridge[life] = <<>>
          /\ conn[life] = "closed"
          /\ bridge' = "recvServer"
          /\ UNCHANGED <<resp_json, to_bridge>>
       \/ \E chunk \in Chunks(to_bridge[life]) :
             /\ resp_json' = chunk
             /\ bridge' = "sendServer"
             /\ UNCHANGED to_bridge
    /\ UNCHANGED <<life, crashed, req_json, serverVars, engineVars, conn, to_engine>>

infer_ipc_sendOnly ==
    /\ bridge = "sendEngine"
    /\ IF conn[life] = "closed"
       THEN bridge' = "killed" /\ UNCHANGED to_engine
       ELSE /\ to_engine' = [to_engine EXCEPT ![life] = @ \o req_json]
            /\ bridge' = "recvServer"
    /\ UNCHANGED <<life, crashed, req_json, resp_json, serverVars, engineVars, conn, to_bridge>>

recvUntilParsed ==
    /\ engine = "recv"
    /\ \/ /\ to_engine[cli_fd] = <<>>
          /\ ~BridgeHolds(cli_fd)
          /\ engine' = "close"
          /\ UNCHANGED <<buf, to_engine>>
       \/ \E chunk \in Chunks(to_engine[cli_fd]) :
             /\ buf' = chunk
             /\ to_engine' = [to_engine EXCEPT ![cli_fd] = Rest(@, chunk)]
             /\ engine' = IF Parses(chunk) THEN "send" ELSE "recv"
    /\ UNCHANGED <<cli_fd, bridgeVars, serverVars, conn, to_bridge>>

acceptUnchecked ==
    /\ engine = "accept"
    /\ \E k \in Lives :
         /\ conn[k] = "queued"
         /\ cli_fd' = -1
         /\ conn' = [conn EXCEPT ![k] = "closed"]
    /\ engine' = "recv"
    /\ UNCHANGED <<buf, bridgeVars, serverVars, to_engine, to_bridge>>

recvForever ==
    /\ engine = "recv"
    /\ \E chunk \in Chunks(to_engine[cli_fd]) :
          /\ buf' = chunk
          /\ to_engine' = [to_engine EXCEPT ![cli_fd] = Rest(@, chunk)]
          /\ engine' = IF Parses(chunk) THEN "send" ELSE "close"
    /\ UNCHANGED <<cli_fd, bridgeVars, serverVars, conn, to_bridge>>

----------------------------------------------------------------------------
\* The bridge ------------------------------------------------------------------
\* A start that finds no server changes nothing.
infer_net_connect ==
    /\ ~Running
    /\ life < MaxLives
    /\ bridge' = "connectEngine"
    /\ server_up' = TRUE
    /\ net' = <<>>
    /\ UNCHANGED <<life, req_json, resp_json, crashed, requests, answers, engineVars, connVars>>

\* The connection waits for a place in the engine's listen queue, not for its
\* accept.  Without an engine the program gives its connection to the server up.
infer_ipc_connect ==
    /\ bridge = "connectEngine"
    /\ \/ /\ engine # "killed"
          /\ Cardinality(Queued) <= Backlog
          /\ life' = life + 1
          /\ conn' = [conn EXCEPT ![life + 1] = "queued"]
          /\ bridge' = "recvServer"
       \/ /\ engine = "killed"
          /\ bridge' = "stopped"
          /\ UNCHANGED <<life, conn>>
    /\ UNCHANGED <<req_json, resp_json, crashed, serverVars, engineVars, to_engine, to_bridge>>

\* End of stream ends the program.
infer_net_recv ==
    /\ bridge = "recvServer"
    /\ \/ /\ net = <<>>
          /\ ~server_up
          /\ bridge' = "stopped"
          /\ UNCHANGED <<req_json, net>>
       \/ \E chunk \in Chunks(net) :
             /\ req_json' = chunk
             /\ net' = Rest(net, chunk)
             /\ bridge' = "sendEngine"
    /\ UNCHANGED <<life, resp_json, crashed, requests, server_up, answers,
                   engineVars, connVars>>

infer_ipc_send ==
    /\ bridge = "sendEngine"
    /\ IF conn[life] = "closed"
       THEN bridge' = "killed" /\ UNCHANGED to_engine
       ELSE /\ to_engine' = [to_engine EXCEPT ![life] = @ \o req_json]
            /\ bridge' = "recvEngine"
    /\ UNCHANGED <<life, crashed, req_json, resp_json, serverVars, engineVars, conn, to_bridge>>

\* No data and a closed connection is "Engine error": on to the next request.
infer_ipc_recv ==
    /\ bridge = "recvEngine"
    /\ \/ /\ to_bridge[life] = <<>>
          /\ conn[life] = "closed"
          /\ bridge' = "recvServer"
          /\ UNCHANGED <<resp_json, to_bridge>>
       \/ \E chunk \in Chunks(to_bridge[life]) :
             /\ resp_json' = chunk
             /\ to_bridge' = [to_bridge EXCEPT ![life] = Rest(@, chunk)]
             /\ bridge' = "sendServer"
    /\ UNCHANGED <<life, crashed, req_json, serverVars, engineVars, conn, to_engine>>

\* The first send after the server has closed is lost, a later one is fatal.
infer_net_send ==
    /\ bridge = "sendServer"
    /\ \/ /\ server_up
          /\ answers' = answers \o resp_json
          /\ bridge' = "recvServer"
       \/ /\ ~server_up
          /\ bridge' \in {"recvServer", "killed"}
          /\ UNCHANGED answers
    /\ UNCHANGED <<life, req_json, resp_json, crashed, requests, server_up, net,
                   engineVars, connVars>>

crash ==
    /\ Running
    /\ crashed' = TRUE
    /\ bridge' = "killed"
    /\ UNCHANGED <<life, req_json, resp_json, serverVars, engineVars, connVars>>

\* The server ------------------------------------------------------------------
sendRequest ==
    /\ server_up /\ Running
    /\ requests < MaxRequests
    /\ requests' = requests + 1
    /\ net' = net \o Text(requests')
    /\ UNCHANGED <<server_up, answers, bridgeVars, engineVars, connVars>>

closeServer ==
    /\ server_up
    /\ server_up' = FALSE
    /\ UNCHANGED <<requests, net, answers, bridgeVars, engineVars, connVars>>

\* The engine: engine_ipc_server_run -------------------------------------------
accept ==
    /\ engine = "accept"
    /\ \E k \in Lives :
         /\ conn[k] = "queued"
         /\ \A j \in 1 .. k - 1 : conn[j] # "queued"
         /\ cli_fd' = k
         /\ conn' = [conn EXCEPT ![k] = "open"]
    /\ engine' = "recv"
    /\ UNCHANGED <<buf, bridgeVars, serverVars, to_engine, to_bridge>>

\* What does not parse gets no answer.
recv ==
    /\ engine = "recv"
    /\ \/ /\ to_engine[cli_fd] = <<>>
          /\ ~BridgeHolds(cli_fd)
          /\ engine' = "close"
          /\ UNCHANGED <<buf, to_engine>>
       \/ \E chunk \in Chunks(to_engine[cli_fd]) :
             /\ buf' = chunk
             /\ to_engine' = [to_engine EXCEPT ![cli_fd] = Rest(@, chunk)]
             /\ engine' = IF Parses(chunk) THEN "send" ELSE "close"
    /\ UNCHANGED <<cli_fd, bridgeVars, serverVars, conn, to_bridge>>

\* mock_infer and the answer, under the id of the request.  Without a reader the
\* send is fatal, and what the engine held or had queued is closed with it.
send ==
    /\ engine = "send"
    /\ IF BridgeHolds(cli_fd)
       THEN /\ to_bridge' = [to_bridge EXCEPT ![cli_fd] = @ \o Text(Parsed(buf))]
            /\ engine' = "close"
            /\ UNCHANGED conn
       ELSE /\ engine' = "killed"
            /\ conn' = [k \in Lives |-> IF conn[k] = "none" THEN "none" ELSE "closed"]
            /\ UNCHANGED to_bridge
    /\ UNCHANGED <<cli_fd, buf, bridgeVars, serverVars, to_engine>>

close ==
    /\ engine = "close"
    /\ conn' = [conn EXCEPT ![cli_fd] = "closed"]
    /\ engine' = "accept"
    /\ cli_fd' = 0
    /\ UNCHANGED <<buf, bridgeVars, serverVars, to_engine, to_bridge>>

----------------------------------------------------------------------------
BridgeStep == \/ infer_ipc_connect
              \/ infer_net_recv \/ infer_ipc_send \/ infer_ipc_recv \/ infer_net_send

EngineStep == accept \/ recv \/ send \/ close

Next == \/ infer_net_connect
        \/ BridgeStep
        \/ crash
        \/ sendRequest
        \/ closeServer
        \/ EngineStep

Spec == Init /\ [][Next]_vars

\* Two processes on one machine, each of which runs when its call can return.
LiveSpec == Spec /\ WF_vars(BridgeStep) /\ WF_vars(EngineStep)

----------------------------------------------------------------------------
Pieces == [of : 1 .. MaxRequests, half : Half]

TypeOK == /\ bridge \in {"stopped", "killed", "connectEngine", "recvServer",
                         "sendEngine", "recvEngine", "sendServer"}
          /\ life \in 0 .. MaxLives
          /\ {req_json, resp_json, net, answers, buf} \subseteq Seq(Pieces)
          /\ requests \in 0 .. MaxRequests
          /\ {server_up, crashed} \subseteq BOOLEAN
          /\ engine \in {"accept", "recv", "send", "close", "killed"}
          /\ cli_fd \in 0 .. MaxLives
          /\ conn \in [Lives -> {"none", "queued", "open", "closed"}]
          /\ to_engine \in [Lives -> Seq(Pieces)]
          /\ to_bridge \in [Lives -> Seq(Pieces)]

Place(p) == 2 * p.of + IF p.half = "second" THEN 1 ELSE 0

\* Whatever recv cut the streams into, the server gets the halves of answers
\* in the order of its requests and none twice: at worst a request goes
\* without its answer or with a part of it.
AnswersInOrder ==
    \A m, n \in DOMAIN answers : m < n => Place(answers[m]) < Place(answers[n])

\* The engine's answer finds the bridge still waiting for it, so that its send
\* is never the fatal one: as long as nobody kills the bridge, the engine
\* outlives every loss of connection.
EngineSurvives == ~crashed => engine # "killed"

\* The bridge does not wait for ever for an answer, also when the engine could
\* not parse the request, or closes before it has read it.
BridgeComesBack == bridge = "recvEngine" ~> bridge # "recvEngine"

\* A new life of the bridge gets its turn: the engine does not hang on to the
\* connection of an earlier one.
QueuedIsAccepted ==
    \A k \in Lives : conn[k] = "queued" ~> conn[k] # "queued"

\* "Forward it to the inference engine directly" (infer_main.cpp:20): a request
\* that has been received is handed to the engine, unless the bridge is killed
\* before it can be.
ForwardReachesEngine ==
    [][bridge = "sendEngine" /\ ~crashed' => bridge' \in {"sendEngine", "recvEngine"}]_vars

============================================================================
