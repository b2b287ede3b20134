---------------------------- MODULE TokenStream ----------------------------
(***************************************************************************)
(* Streaming of tokens to clients: the TokenList per request id that       *)
(* TaskManager keeps in token_map_ (src/core/task_manager.h, .cpp), and    *)
(* client_manager_process_pending_tokens (src/core/client_manager.cpp),    *)
(* the pass over client_requests that sends at most one token per mapping. *)
(*                                                                         *)
(* Nothing here is locked, and the producer of tokens may run on a thread  *)
(* of its own; each of its calls is one action.  A mapping is served in    *)
(* two steps, sending a token and looking whether the list is through: a   *)
(* call of the producer that falls into the middle of one of them has the  *)
(* effect it has before or after it.  What a list looks like while a call  *)
(* is changing it is left out.                                             *)
(*                                                                         *)
(* No code in the repository registers a mapping or calls resetOutput, so  *)
(* these two are external.  The constant BufferedIds names the ids that    *)
(* are used the careful way: a stream is finished, then rewound, then      *)
(* registered.  For the other ids the order of the calls is open.  Either  *)
(* way callers are taken to rewind a list at most once, which the code     *)
(* does not enforce (task_manager.h:100).                                  *)
(***************************************************************************)
EXTENDS Naturals, Sequences, SequencesExt

CONSTANTS Ids, Clients, nullptr,
          MAX_CLIENTS,     \* capacity of client_requests
          MaxTokens,       \* bound on the tokens produced for one id
          BufferedIds      \* ids that are registered when all is there

ASSUME StreamAssumption == /\ MAX_CLIENTS \in Nat \ {0}
                           /\ MaxTokens \in Nat
                           /\ BufferedIds \subseteq Ids

VARIABLES token_map,        \* request id -> TokenList, or nullptr
          client_requests,  \* the mappings, in order
          cursor,           \* the mapping a pass serves next; 0 outside a pass
          served,           \* that mapping has had its token, if there was one
          produced,         \* ghost: how many tokens each id has had so far
          ended,            \* ghost: ids whose stream has been marked finished
          rewound,          \* ghost: ids whose list has been rewound
          sent              \* ghost: client -> the tokens sent to it, in order

streamVars ==
    <<token_map, client_requests, cursor, served, produced, ended, rewound, sent>>

\* The k-th token of an id is the number k; output_ptr is the position of the
\* next token to send, 0 for a null pointer.
TokenList == [tokens      : Seq(1 .. MaxTokens),
              output_ptr  : 0 .. MaxTokens,
              is_finished : BOOLEAN]

ASSUME NullAssumption == nullptr \notin TokenList

Mapping == [client_socket : Clients, request_id : Ids, is_active : BOOLEAN]

Init == /\ token_map = [id \in Ids |-> nullptr]
        /\ client_requests = <<>>
        /\ cursor = 0
        /\ served = FALSE
        /\ produced = [id \in Ids |-> 0]
        /\ ended = {}
        /\ rewound = {}
        /\ sent = [c \in Clients |-> <<>>]

----------------------------------------------------------------------------
\* Mutants of the operators below, each a plausible slip in task_manager.h.
AfterNextTokenStuck(list) == list

AfterNextTokenPastTail(list) ==
    [list EXCEPT !.output_ptr = IF @ \in 1 .. Len(list.tokens) THEN @ + 1 ELSE 0]

isCompletelyFinishedEarly(list) == list.is_finished

isCompletelyFinishedWhenEmpty(list) == list.is_finished /\ list.tokens = <<>>

----------------------------------------------------------------------------
\* class TokenList ------------------------------------------------------------
NewList == [tokens |-> <<>>, output_ptr |-> 0, is_finished |-> FALSE]

Appended(list, token) == [list EXCEPT !.tokens = Append(@, token)]

hasMoreTokens(list) ==
    list.output_ptr # 0 \/ (~list.is_finished /\ list.tokens # <<>>)

isCompletelyFinished(list) == list.is_finished /\ list.output_ptr = 0

\* getNextToken yields nothing on a null pointer, and once the pointer has
\* moved past the tail it stays null whatever is appended later.
NextToken(list) ==
    IF list.output_ptr = 0 THEN <<>> ELSE <<list.tokens[list.output_ptr]>>

AfterNextToken(list) ==
    [list EXCEPT !.output_ptr = IF @ \in 1 .. Len(list.tokens) - 1 THEN @ + 1 ELSE 0]

\* The head is null while the list is empty.
AfterResetOutput(list) ==
    [list EXCEPT !.output_ptr = IF list.tokens = <<>> THEN 0 ELSE 1]

\* The producer's calls -------------------------------------------------------
HasList(id) == token_map[id] # nullptr

addToken(id) ==
    /\ produced[id] < MaxTokens
    /\ id \in BufferedIds => id \notin ended
    /\ token_map' = [token_map EXCEPT ![id] =
                       Appended(IF HasList(id) THEN @ ELSE NewList, produced[id] + 1)]
    /\ produced' = [produced EXCEPT ![id] = @ + 1]
    /\ UNCHANGED <<client_requests, cursor, served, ended, rewound, sent>>

\* A null token is not appended, but the list that was made for it stays; where
\* there is a list, the call does nothing.
addNullToken(id) ==
    /\ produced[id] < MaxTokens
    /\ id \in BufferedIds => id \notin ended
    /\ ~HasList(id)
    /\ token_map' = [token_map EXCEPT ![id] = NewList]
    /\ UNCHANGED <<client_requests, cursor, served, produced, ended, rewound, sent>>

\* An id without a list is ignored.
markTokenStreamFinished(id) ==
    /\ token_map' = IF HasList(id)
                    THEN [token_map EXCEPT ![id].is_finished = TRUE]
                    ELSE token_map
    /\ ended' = IF HasList(id) THEN ended \cup {id} ELSE ended
    /\ UNCHANGED <<client_requests, cursor, served, produced, rewound, sent>>

\* External calls -------------------------------------------------------------
\* That a list is rewound once at most is a promise of the callers.
resetOutput(id) ==
    /\ HasList(id)
    /\ id \notin rewound
    /\ id \in BufferedIds => token_map[id].is_finished
    /\ token_map' = [token_map EXCEPT ![id] = AfterResetOutput(@)]
    /\ rewound' = rewound \cup {id}
    /\ UNCHANGED <<client_requests, cursor, served, produced, ended, sent>>

\* Registration happens on the thread of the event loop, so never in a pass.
registerRequest(client, id) ==
    /\ cursor = 0
    /\ Len(client_requests) < MAX_CLIENTS
    /\ id \in BufferedIds => id \in rewound
    /\ client_requests' = Append(client_requests, [client_socket |-> client,
                                                   request_id    |-> id,
                                                   is_active     |-> TRUE])
    /\ UNCHANGED <<token_map, cursor, served, produced, ended, rewound, sent>>

\* client_manager_process_pending_tokens --------------------------------------
beginPass ==
    /\ cursor = 0
    /\ cursor' = 1
    /\ UNCHANGED <<token_map, client_requests, served, produced, ended, rewound, sent>>

\* A mapping without a list is dropped; one token of a list goes out.
serve ==
    /\ cursor \in DOMAIN client_requests
    /\ ~served
    /\ LET req  == client_requests[cursor]
           id   == req.request_id
           list == token_map[id]
       IN  \/ /\ ~req.is_active \/ ~HasList(id)
              /\ client_requests' = [client_requests EXCEPT ![cursor].is_active = FALSE]
              /\ cursor' = cursor + 1
              /\ UNCHANGED <<token_map, served, sent>>
           \/ /\ req.is_active /\ HasList(id)
              /\ sent' = [sent EXCEPT ![req.client_socket] =
                            IF hasMoreTokens(list)
                            THEN @ \o [k \in DOMAIN NextToken(list) |->
                                         <<id, NextToken(list)[k]>>]
                            ELSE @]
              /\ token_map' = [token_map EXCEPT ![id] =
                                 IF hasMoreTokens(list) THEN AfterNextToken(list) ELSE list]
              /\ served' = TRUE
              /\ UNCHANGED <<client_requests, cursor>>
    /\ UNCHANGED <<produced, ended, rewound>>

\* A list that is through is deleted, and its mapping dropped.
endTurn ==
    /\ served
    /\ served' = FALSE
    /\ cursor' = cursor + 1
    /\ LET id == client_requests[cursor].request_id
       IN  \/ /\ isCompletelyFinished(token_map[id])
              /\ token_map' = [token_map EXCEPT ![id] = nullptr]
              /\ client_requests' = [client_requests EXCEPT ![cursor].is_active = FALSE]
              /\ rewound' = rewound \ {id}
           \/ /\ ~isCompletelyFinished(token_map[id])
              /\ UNCHANGED <<token_map, client_requests, rewound>>
    /\ UNCHANGED <<produced, ended, sent>>

\* What the loops over client_requests leave that erase the entries at the
\* places in gone: kept[n] is what is left of the first n.
Erased(requests, gone) ==
    LET kept[n \in 0 .. Len(requests)] ==
            IF n = 0 THEN <<>>
            ELSE IF n \in gone THEN kept[n - 1]
            ELSE Append(kept[n - 1], requests[n])
    IN  kept[Len(requests)]

Inactive == {k \in DOMAIN client_requests : ~client_requests[k].is_active}

endPass ==
    /\ cursor = Len(client_requests) + 1
    /\ cursor' = 0
    /\ client_requests' = Erased(client_requests, Inactive)
    /\ UNCHANGED <<token_map, served, produced, ended, rewound, sent>>

Pass == beginPass \/ serve \/ endTurn \/ endPass

----------------------------------------------------------------------------
Next == \/ Pass
        \/ \E id \in Ids : \/ addToken(id)
                           \/ addNullToken(id)
                           \/ markTokenStreamFinished(id)
                           \/ resetOutput(id)
                           \/ \E client \in Clients : registerRequest(client, id)

Spec == Init /\ [][Next]_streamVars

\* A pass that has begun goes on to its end: no call in it blocks, since the
\* client sockets are non-blocking.  Whether another pass begins is up to the
\* event loop (see ClientManager), so that is not assumed here.
LiveSpec == Spec /\ WF_streamVars(serve \/ endTurn \/ endPass)

----------------------------------------------------------------------------
TypeOK == /\ token_map \in [Ids -> TokenList \cup {nullptr}]
          /\ \A id \in Ids : HasList(id) =>
                token_map[id].output_ptr <= Len(token_map[id].tokens)
          /\ client_requests \in Seq(Mapping)
          /\ Len(client_requests) <= MAX_CLIENTS
          /\ cursor \in 0 .. MAX_CLIENTS + 1
          /\ served \in BOOLEAN
          /\ produced \in [Ids -> 0 .. MaxTokens]
          /\ ended \subseteq Ids
          /\ rewound \subseteq Ids
          /\ sent \in [Clients -> Seq(Ids \X (1 .. MaxTokens))]

\* The tokens of one id reach a client in the order in which the node produced
\* them, and none twice, even if lists are deleted and made anew in between.
InOrderOnce ==
    \A c \in Clients : \A i, j \in DOMAIN sent[c] :
        i < j /\ sent[c][i][1] = sent[c][j][1] => sent[c][i][2] < sent[c][j][2]

SentTokens(id) == {t \in 1 .. MaxTokens :
                     \E c \in Clients : <<id, t>> \in Range(sent[c])}

\* The step deletes the list of this id.
Deletes(id) == HasList(id) /\ token_map'[id] = nullptr

AllSent(id) == Range(token_map[id].tokens) \subseteq SentTokens(id)'

\* "Completely finished: all tokens sent and the stream ended"
\* (task_manager.h:73, client_manager.cpp:140): a list is deleted only after
\* each of its tokens has gone to some client.
DeletedMeansSent ==
    [][\A id \in Ids : Deletes(id) => AllSent(id)]_streamVars

\* For an id that is registered after its stream has been finished and rewound
\* this is so, although several clients draw on the one list, each call of the
\* pass moves it on, and mappings come and go between two passes.
BufferedIsSent ==
    [][\A id \in BufferedIds : Deletes(id) => AllSent(id)]_streamVars

Listened(id) == \E i \in DOMAIN client_requests :
                  client_requests[i].request_id = id /\ client_requests[i].is_active

\* A finished stream that some client still listens to does not stay for ever:
\* provided that passes keep beginning, its list is deleted in the end,
\* although a pass sends one token at most.
FinishedIsDeleted ==
    []<><<beginPass>>_streamVars =>
        \A id \in Ids :
            HasList(id) /\ token_map[id].is_finished /\ Listened(id) ~> ~HasList(id)

============================================================================
