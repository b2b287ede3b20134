------------------------ MODULE ClientManagerProofs ------------------------
(***************************************************************************)
(* Proofs about ClientManager, for any number of clients, descriptors and  *)
(* ids, any capacity of the list and of the queues.                        *)
(*                                                                         *)
(*   LoopHolds      the inductive invariant, and what follows from it:     *)
(*   TypeCorrect    types                                                  *)
(*   SocketsListed  the list holds the open sockets and nothing else       *)
(*   ReadyStays     what select reported still holds when it is used       *)
(*   TokensInOrder, TokensSentFirst                                        *)
(*                  the token streams keep, inside the loop, what          *)
(*                  TokenStreamProofs shows of them                        *)
(*   DisconnectErases, MappingsFollow                                      *)
(*                  which mappings a disconnect erases, and when these are *)
(*                  the ones of the client that hung up                    *)
(***************************************************************************)
EXTENDS ClientManager, SequenceTheorems, FiniteSetTheorems, FunctionTheorems,
        WellFoundedInduction, TLAPS

TP == INSTANCE TokenStreamProofs WITH Clients <- Fds

\* The assumptions of TokenStream hold of the constants it is given here.
LEMMA StreamConstants ==
    /\ MAX_CLIENTS \in Nat \ {0} /\ MaxTokens \in Nat /\ BufferedIds \subseteq Ids
    /\ nullptr \notin TP!TokenList
BY LoopAssumption, NullAssumption DEF T!TokenList, TP!TokenList

----------------------------------------------------------------------------
\* The token streams: lists, mappings and what has been sent.
StreamInv == TP!StreamTypes /\ TP!OrderInv /\ TP!BufferedInv

\* Every step of TokenStream keeps what is known of the streams.
LEMMA StreamStep ==
    ASSUME StreamInv, TP!Next \/ UNCHANGED streamVars
    PROVE  StreamInv'
BY StreamConstants, TP!TypeStep, TP!OrderStep, TP!BufferedStep
DEF StreamInv, streamVars, TP!streamVars

\* The calls of the producer and of the pass are calls of TokenStream.
LEMMA CallsOfStreams ==
    ASSUME \/ \E id \in Ids : \/ T!addToken(id)
                              \/ T!addNullToken(id)
                              \/ T!markTokenStreamFinished(id)
                              \/ T!resetOutput(id)
                              \/ \E s \in Fds : T!registerRequest(s, id)
           \/ T!Pass
    PROVE  TP!Next
<1> USE DEF T!HasList, TP!HasList, T!Appended, TP!Appended, T!NewList, TP!NewList,
            T!hasMoreTokens, TP!hasMoreTokens, T!NextToken, TP!NextToken,
            T!AfterNextToken, TP!AfterNextToken,
            T!AfterResetOutput, TP!AfterResetOutput,
            T!isCompletelyFinished, TP!isCompletelyFinished
<1>1. ASSUME NEW id \in Ids, T!addToken(id)
      PROVE  TP!addToken(id)
  BY <1>1 DEF T!addToken, TP!addToken
<1>2. ASSUME NEW id \in Ids, T!markTokenStreamFinished(id)
      PROVE  TP!markTokenStreamFinished(id)
  BY <1>2 DEF T!markTokenStreamFinished, TP!markTokenStreamFinished
<1>3. ASSUME NEW id \in Ids, T!resetOutput(id)
      PROVE  TP!resetOutput(id)
  BY <1>3 DEF T!resetOutput, TP!resetOutput
<1>4. ASSUME NEW id \in Ids, NEW s \in Fds, T!registerRequest(s, id)
      PROVE  TP!registerRequest(s, id)
  BY <1>4 DEF T!registerRequest, TP!registerRequest
<1>5. ASSUME T!beginPass
      PROVE  TP!beginPass
  BY <1>5 DEF T!beginPass, TP!beginPass
<1>6. ASSUME T!serve
      PROVE  TP!serve
  BY <1>6 DEF T!serve, TP!serve
<1>8. ASSUME NEW id \in Ids, T!addNullToken(id)
      PROVE  TP!addNullToken(id)
  BY <1>8 DEF T!addNullToken, TP!addNullToken
<1>9. ASSUME T!endTurn
      PROVE  TP!endTurn
  BY <1>9 DEF T!endTurn, TP!endTurn
<1>7. ASSUME T!endPass
      PROVE  TP!endPass
  <2>1. \A requests, gone : T!Erased(requests, gone) = TP!Erased(requests, gone)
    BY DEF T!Erased, TP!Erased
  <2>2. T!Inactive = TP!Inactive
    BY DEF T!Inactive, TP!Inactive
  <2> QED
    BY <1>7, <2>1, <2>2 DEF T!endPass, TP!endPass
<1> QED
  BY <1>1, <1>2, <1>3, <1>4, <1>5, <1>6, <1>7, <1>8, <1>9 DEF T!Pass, TP!Pass, TP!Next

\* The mappings of a client that is gone are erased between two passes, which
\* leaves the streams as they should be.
LEMMA MappingsErased ==
    ASSUME StreamInv, cursor = 0, NEW gone,
           client_requests' = T!Erased(client_requests, gone),
           UNCHANGED <<token_map, cursor, served, produced, ended, rewound, sent>>
    PROVE  StreamInv'
<1>1. \A requests : T!Erased(requests, gone) = TP!Erased(requests, gone)
  BY DEF T!Erased, TP!Erased
<1>2. client_requests \in Seq(TP!Mapping) /\ Len(client_requests) <= MAX_CLIENTS
  BY DEF StreamInv, TP!StreamTypes, TP!TypeOK
<1>3. client_requests' \in Seq(TP!Mapping) /\ Len(client_requests') <= MAX_CLIENTS
  <2>1. client_requests' = TP!Erased(client_requests, gone)
    BY <1>1
  <2>2. /\ TP!Erased(client_requests, gone) \in Seq(TP!Mapping)
        /\ Len(TP!Erased(client_requests, gone)) <= Len(client_requests)
    BY <1>2, StreamConstants, TP!ErasedTyped
  <2> QED
    BY <1>2, <2>1, <2>2, StreamConstants
<1>4. TP!StreamTypes'
  <2>1. ~served
    BY <1>2 DEF StreamInv, TP!StreamTypes, TP!Turn
  <2>2. TP!Turn'
    BY <2>1 DEF TP!Turn
  <2> QED
    BY <1>3, <2>2 DEF StreamInv, TP!StreamTypes, TP!TypeOK, TP!Lists, TP!HasList, TP!ListOf
<1>5. TP!OrderInv'
  BY DEF StreamInv, TP!OrderInv, TP!InOrderOnce, TP!OrderOf, TP!SentTokens, TP!HasList
<1>6. TP!BufferedInv'
  <2>1. client_requests' = TP!Erased(client_requests, gone)
    BY <1>1
  <2> QED
    BY <2>1, StreamConstants, TP!ErasingKeepsBuffered DEF StreamInv
<1> QED
  BY <1>4, <1>5, <1>6 DEF StreamInv

----------------------------------------------------------------------------
\* The types of what the loop and the kernel keep.
LoopTypes == /\ backlog \in Seq(Conns)
             /\ conn \in [Conns -> {"none", "queued", "open"}]
             /\ fd \in [Conns -> Fds \cup {nullptr}]
             /\ hungup \subseteq Conns
             /\ unread \in [Conns -> Nat]
             /\ clients \in Seq(Fds)
             /\ Len(clients) <= MAX_CLIENTS
             /\ ready \subseteq Fds
             /\ listening \in BOOLEAN
             /\ pc \in {"select", "accept", "read", "tokens"}
             /\ i \in 0 .. MAX_CLIENTS
             /\ input_queue \in 0 .. MAX_TASKS

\* Every open connection has a descriptor of its own, and the list holds these
\* descriptors, each once.
SocketsInv == /\ \A c \in Open : fd[c] \in Fds
              /\ \A c, d \in Open : fd[c] = fd[d] => c = d
              /\ \A j, k \in DOMAIN clients : clients[j] = clients[k] => j = k
              /\ Range(clients) = OpenFds

\* The backlog holds connections that wait, each once, and it is not empty
\* when accept is about to be called.
BacklogInv == /\ \A k \in DOMAIN backlog : conn[backlog[k]] = "queued"
              /\ \A j, k \in DOMAIN backlog : backlog[j] = backlog[k] => j = k
              /\ pc = "accept" => backlog # <<>>

\* recv would return at once on the descriptor s.
HasInput(s) == \E c \in Open : fd[c] = s /\ (unread[c] > 0 \/ c \in hungup)

\* What select has reported is still so; a connection accepted since then is
\* not among it, since its descriptor was free.
ReadInv == /\ pc = "accept" => \A s \in ready : HasInput(s)
           /\ pc = "read" => /\ i <= Len(clients)
                             /\ \A k \in 1 .. i : clients[k] \in ready => HasInput(clients[k])

\* The mappings are only walked at the end of a round.
CursorInv == pc # "tokens" => cursor = 0

Inv == StreamInv /\ LoopTypes /\ SocketsInv /\ BacklogInv /\ ReadInv /\ CursorInv

----------------------------------------------------------------------------
\* The client at a descriptor is the one whose descriptor it is.
LEMMA ConnAtFd ==
    ASSUME SocketsInv, NEW c \in Open
    PROVE  ConnAt(fd[c]) = c
BY DEF SocketsInv, ConnAt

\* Readable says of an open descriptor that it has input.
LEMMA ReadableHasInput ==
    ASSUME SocketsInv, NEW s \in OpenFds
    PROVE  Readable(s) <=> HasInput(s)
<1>1. PICK c \in Open : fd[c] = s
  BY DEF OpenFds
<1>2. ConnAt(s) = c
  BY <1>1, ConnAtFd
<1>3. \A d \in Open : fd[d] = s => d = c
  BY <1>1 DEF SocketsInv
<1> QED
  BY <1>1, <1>2, <1>3 DEF Readable, HasInput

\* The client the loop reads from is the one at the i-th place of its list.
LEMMA ReadingFrom ==
    ASSUME LoopTypes, SocketsInv, ReadInv, NEW c \in Conns, Reading(c)
    PROVE  /\ i \in 1 .. Len(clients)
           /\ c \in Open /\ clients[i] = fd[c]
<1>1. i \in 1 .. Len(clients)
  BY DEF Reading, ReadInv, LoopTypes
<1>2. clients[i] \in OpenFds
  BY <1>1 DEF SocketsInv, LoopTypes, Range
<1>3. PICK d \in Open : fd[d] = clients[i]
  BY <1>2 DEF OpenFds
<1>4. c = d
  BY <1>3, ConnAtFd DEF Reading
<1> QED
  BY <1>1, <1>3, <1>4

\* A nonempty set of naturals has a least element, and Min is it.
LEMMA LeastElement ==
    ASSUME NEW S \in SUBSET Nat, S # {}
    PROVE  Min(S) \in S
<1> DEFINE R == {ss \in Nat \X Nat : ss[1] < ss[2]}
<1>1. IsWellFoundedOn(R, Nat)
  BY NatLessThanWellFounded DEF OpToRel
<1>2. \A m, n \in Nat : m < n => <<m, n>> \in R
  OBVIOUS
<1> HIDE DEF R
<1>3. PICK x \in S : \A y \in S : ~(<<y, x>> \in R)
  BY <1>1, WFMin
<1>4. \A y \in S : x =< y
  <2> TAKE y \in S
  <2>1. x \in Nat /\ y \in Nat /\ ~(y < x)
    BY <1>2, <1>3
  <2> QED
    BY <2>1
<1>5. \E z \in S : \A y \in S : z =< y
  BY <1>4
<1> QED
  BY <1>5 DEF Min

\* The list is a bijection between its places and the open descriptors, and
\* descriptors one between these and the open connections.
LEMMA AsManyAsOpen ==
    ASSUME LoopTypes, SocketsInv
    PROVE  /\ IsFiniteSet(OpenFds) /\ Cardinality(OpenFds) = Len(clients)
           /\ IsFiniteSet(Open) /\ Cardinality(Open) = Len(clients)
<1>1. Len(clients) \in Nat /\ DOMAIN clients = 1 .. Len(clients)
  BY LenProperties DEF LoopTypes
<1>2. clients \in Bijection(1 .. Len(clients), OpenFds)
  <2>1. clients \in [1 .. Len(clients) -> OpenFds]
    <3>1. \A k \in 1 .. Len(clients) : clients[k] \in OpenFds
      BY <1>1 DEF SocketsInv, Range
    <3>2. clients = [k \in 1 .. Len(clients) |-> clients[k]]
      BY <1>1 DEF LoopTypes
    <3> QED
      BY <3>1, <3>2
  <2>2. \A s \in OpenFds : \E k \in 1 .. Len(clients) : clients[k] = s
    BY <1>1 DEF SocketsInv, Range
  <2>3. \A j, k \in 1 .. Len(clients) : clients[j] = clients[k] => j = k
    BY <1>1 DEF SocketsInv
  <2> QED
    BY <2>1, <2>2, <2>3, Fun_IsBij
<1>3. IsFiniteSet(1 .. Len(clients)) /\ Cardinality(1 .. Len(clients)) = Len(clients)
  <2>1. \A n \in Nat : IsFiniteSet(1 .. n) /\ Cardinality(1 .. n) = n
    <3> TAKE n \in Nat
    <3>1. 1 \in Int /\ n \in Int
      OBVIOUS
    <3>2. IsFiniteSet(1 .. n) /\ Cardinality(1 .. n) = IF 1 > n THEN 0 ELSE n - 1 + 1
      BY <3>1, FS_Interval
    <3> QED
      BY <3>2
  <2> QED
    BY <1>1, <2>1
<1>4. IsFiniteSet(OpenFds) /\ Cardinality(OpenFds) = Len(clients)
  BY <1>2, <1>3, FS_Bijection DEF ExistsBijection
<1> DEFINE g == [s \in OpenFds |-> CHOOSE c \in Open : fd[c] = s]
<1>5. g \in Bijection(OpenFds, Open)
  <2>1. \A s \in OpenFds : g[s] \in Open /\ fd[g[s]] = s
    BY DEF OpenFds
  <2>2. g \in [OpenFds -> Open]
    BY <2>1
  <2>3. \A r, s \in OpenFds : g[r] = g[s] => r = s
    BY <2>1
  <2>4. \A c \in Open : \E s \in OpenFds : g[s] = c
    <3> TAKE c \in Open
    <3>1. fd[c] \in OpenFds
      BY DEF OpenFds
    <3>2. g[fd[c]] = c
      BY <2>1, <3>1 DEF SocketsInv
    <3> QED
      BY <3>1, <3>2
  <2> HIDE DEF g
  <2> QED
    BY <2>2, <2>3, <2>4, Fun_IsBij
<1>6. IsFiniteSet(Open) /\ Cardinality(Open) = Cardinality(OpenFds)
  BY <1>4, <1>5, FS_Bijection DEF ExistsBijection
<1> QED
  BY <1>4, <1>6

\* While the list has room there is a free descriptor for accept to return.
LEMMA FreeDescriptor ==
    ASSUME LoopTypes, SocketsInv, Len(clients) < MAX_CLIENTS
    PROVE  Min(Fds \ OpenFds) \in Fds \ OpenFds
<1>1. Fds \ OpenFds # {}
  <2> SUFFICES ASSUME Fds \subseteq OpenFds
               PROVE  FALSE
    OBVIOUS
  <2>1. Cardinality(Fds) <= Len(clients)
    BY AsManyAsOpen, FS_Subset
  <2>2. /\ MAX_CLIENTS \in Nat /\ MAX_CLIENTS <= Cardinality(Fds)
        /\ Cardinality(Fds) \in Nat /\ Len(clients) \in Nat
    BY LoopAssumption, FS_CardinalityType DEF LoopTypes
  <2> QED
    BY <2>1, <2>2
<1> QED
  BY <1>1, LeastElement, LoopAssumption

----------------------------------------------------------------------------
\* The steps of ClientManager in a form that names each action once.
LEMMA NextSplit ==
    ASSUME [Next]_vars
    PROVE  \/ UNCHANGED vars
           \/ select \/ accept \/ skip
           \/ client_manager_process_pending_tokens
           \/ \E c \in Conns : \/ receive(c) \/ disconnect(c)
                               \/ connect(c) \/ sendRequest(c) \/ hangUp(c)
           \/ \E id \in Ids : produce(id)
BY DEF Next, Loop

\* The sequence without the entry at k: those behind it move up.
LEMMA Removed ==
    ASSUME NEW S, NEW s \in Seq(S), NEW k \in 1 .. Len(s)
    PROVE  /\ RemoveAt(s, k) \in Seq(S)
           /\ Len(RemoveAt(s, k)) = Len(s) - 1
           /\ \A j \in 1 .. Len(s) - 1 : RemoveAt(s, k)[j] = IF j < k THEN s[j] ELSE s[j + 1]
<1> DEFINE front == SubSeq(s, 1, k - 1)
           back  == SubSeq(s, k + 1, Len(s))
<1>1. /\ Len(s) \in Nat /\ k \in Nat /\ 1 <= k /\ k <= Len(s)
      /\ \A j \in 1 .. Len(s) : s[j] \in S
  BY LenProperties, ElementOfSeq
<1>2. /\ front \in Seq(S) /\ Len(front) = k - 1
      /\ \A j \in 1 .. k - 1 : front[j] = s[j]
  <2>1. 1 \in Int /\ k - 1 \in Int /\ \A j \in 1 .. k - 1 : s[j] \in S
    BY <1>1
  <2>2. /\ front \in Seq(S) /\ Len(front) = IF 1 <= k - 1 THEN (k - 1) - 1 + 1 ELSE 0
        /\ \A j \in 1 .. (k - 1) - 1 + 1 : front[j] = s[1 + j - 1]
    BY <2>1, SubSeqProperties
  <2> HIDE DEF front
  <2> QED
    BY <1>1, <2>2
<1>3. /\ back \in Seq(S) /\ Len(back) = Len(s) - k
      /\ \A j \in 1 .. Len(s) - k : back[j] = s[k + j]
  <2>1. k + 1 \in Int /\ Len(s) \in Int /\ \A j \in k + 1 .. Len(s) : s[j] \in S
    BY <1>1
  <2>2. /\ back \in Seq(S)
        /\ Len(back) = IF k + 1 <= Len(s) THEN Len(s) - (k + 1) + 1 ELSE 0
        /\ \A j \in 1 .. Len(s) - (k + 1) + 1 : back[j] = s[(k + 1) + j - 1]
    BY <2>1, SubSeqProperties
  <2> HIDE DEF back
  <2>3. \A j \in 1 .. Len(s) - k : (k + 1) + j - 1 = k + j
    BY <1>1
  <2>4. Len(s) - (k + 1) + 1 = Len(s) - k
    BY <1>1
  <2>5. Len(back) = Len(s) - k
    <3>1. CASE k + 1 <= Len(s)
      BY <2>2, <2>4, <3>1
    <3>2. CASE ~(k + 1 <= Len(s))
      BY <1>1, <2>2, <3>2
    <3> QED
      BY <3>1, <3>2
  <2>6. ASSUME NEW j \in 1 .. Len(s) - k
        PROVE  back[j] = s[k + j]
    <3>1. j \in 1 .. Len(s) - (k + 1) + 1
      BY <2>4
    <3>2. back[j] = s[(k + 1) + j - 1]
      BY <2>2, <3>1
    <3> QED
      BY <2>3, <3>2
  <2> QED
    BY <2>2, <2>5, <2>6
<1>4. RemoveAt(s, k) = front \o back
  BY DEF RemoveAt
<1> HIDE DEF front, back
<1>5. /\ front \o back \in Seq(S) /\ Len(front \o back) = Len(front) + Len(back)
      /\ \A j \in 1 .. Len(front) + Len(back) :
            (front \o back)[j] = IF j <= Len(front) THEN front[j] ELSE back[j - Len(front)]
  BY <1>2, <1>3, ConcatProperties
<1>6. ASSUME NEW j \in 1 .. Len(s) - 1
      PROVE  (front \o back)[j] = IF j < k THEN s[j] ELSE s[j + 1]
  <2>1. j \in 1 .. Len(front) + Len(back)
    BY <1>1, <1>2, <1>3
  <2>2. CASE j < k
    BY <1>1, <1>2, <1>5, <2>1, <2>2
  <2>3. CASE ~(j < k)
    <3>1. j - (k - 1) \in 1 .. Len(s) - k /\ k + (j - (k - 1)) = j + 1 /\ ~(j <= k - 1)
      BY <1>1, <2>3
    <3>2. back[j - (k - 1)] = s[j + 1]
      BY <1>3, <3>1
    <3> QED
      BY <1>2, <1>5, <2>1, <2>3, <3>1, <3>2
  <2> QED
    BY <2>2, <2>3
<1>7. Len(front) + Len(back) = Len(s) - 1
  BY <1>1, <1>2, <1>3
<1> QED
  BY <1>4, <1>5, <1>6, <1>7

\* accept takes the connection at the head of the backlog: with room in the
\* list it becomes open, under a descriptor no other connection has.
LEMMA AcceptEffect ==
    ASSUME LoopTypes, SocketsInv, BacklogInv, accept
    PROVE  /\ Head(backlog) \in Conns /\ conn[Head(backlog)] = "queued"
           /\ backlog # <<>> /\ backlog' = Tail(backlog)
           /\ pc = "accept" /\ pc' = "read" /\ i' = Len(clients')
           /\ UNCHANGED <<hungup, unread, ready, listening, input_queue>>
           /\ UNCHANGED streamVars
           /\ \/ \E s \in Fds \ OpenFds :
                    /\ Len(clients) < MAX_CLIENTS
                    /\ conn' = [conn EXCEPT ![Head(backlog)] = "open"]
                    /\ fd' = [fd EXCEPT ![Head(backlog)] = s]
                    /\ clients' = Append(clients, s)
              \/ /\ conn' = [conn EXCEPT ![Head(backlog)] = "none"]
                 /\ UNCHANGED <<fd, clients>>
<1>1. backlog # <<>> /\ Head(backlog) \in Conns
  BY HeadTailProperties DEF accept, BacklogInv, LoopTypes
<1>2. conn[Head(backlog)] = "queued"
  <2>1. Head(backlog) = backlog[1] /\ 1 \in DOMAIN backlog
    BY <1>1 DEF LoopTypes
  <2> QED
    BY <2>1 DEF BacklogInv
<1>3. CASE Len(clients) < MAX_CLIENTS
  <2>1. Min(Fds \ OpenFds) \in Fds \ OpenFds
    BY <1>3, FreeDescriptor
  <2> QED
    BY <1>1, <1>2, <1>3, <2>1 DEF accept
<1>4. CASE ~(Len(clients) < MAX_CLIENTS)
  BY <1>1, <1>2, <1>4 DEF accept
<1> QED
  BY <1>3, <1>4

\* disconnect closes the connection that is being read from and takes it out
\* of its place in the list.
LEMMA DisconnectEffect ==
    ASSUME LoopTypes, SocketsInv, ReadInv, NEW c \in Conns, disconnect(c)
    PROVE  /\ i \in 1 .. Len(clients) /\ c \in Open /\ clients[i] = fd[c]
           /\ Open' = Open \ {c}
           /\ \A d \in Open' : fd'[d] = fd[d] /\ unread'[d] = unread[d]
           /\ clients' \in Seq(Fds) /\ Len(clients') = Len(clients) - 1
           /\ \A k \in 1 .. Len(clients) - 1 :
                 clients'[k] = IF k < i THEN clients[k] ELSE clients[k + 1]
           /\ i' = i - 1 /\ pc = "read"
           /\ UNCHANGED <<backlog, hungup, ready, listening, pc, input_queue>>
<1>1. i \in 1 .. Len(clients) /\ c \in Open /\ clients[i] = fd[c]
  BY ReadingFrom DEF disconnect
<1>2. Open' = Open \ {c} /\ \A d \in Open' : fd'[d] = fd[d] /\ unread'[d] = unread[d]
  BY DEF LoopTypes, disconnect, Open
<1>3. clients' = RemoveAt(clients, i) /\ clients \in Seq(Fds)
  BY DEF LoopTypes, disconnect
<1>4. /\ clients' \in Seq(Fds) /\ Len(clients') = Len(clients) - 1
      /\ \A k \in 1 .. Len(clients) - 1 :
            clients'[k] = IF k < i THEN clients[k] ELSE clients[k + 1]
  BY <1>1, <1>3, Removed
<1> QED
  BY <1>1, <1>2, <1>4 DEF disconnect, Reading

----------------------------------------------------------------------------
\* Types after a step.
LEMMA TypesStep ==
    ASSUME LoopTypes, SocketsInv, BacklogInv, ReadInv, [Next]_vars
    PROVE  LoopTypes'
<1> USE LoopAssumption
<1>0. Len(clients) \in 0 .. MAX_CLIENTS
  BY LenProperties DEF LoopTypes
<1>1. CASE UNCHANGED vars \/ \E id \in Ids : produce(id)
  BY <1>1 DEF LoopTypes, vars, kernelVars, loopVars, produce
<1>2. CASE select
  <2>1. /\ UNCHANGED <<backlog, conn, fd, hungup, unread, clients, input_queue>>
        /\ ready' \subseteq Range(clients) /\ listening' \in BOOLEAN
        /\ pc' \in {"accept", "read"} /\ i' = Len(clients)
    BY <1>2 DEF select, kernelVars
  <2>2. Range(clients) \subseteq Fds
    BY DEF LoopTypes, Range
  <2> QED
    BY <1>0, <2>1, <2>2 DEF LoopTypes
<1>3. CASE accept
  <2>1. /\ Head(backlog) \in Conns /\ backlog # <<>> /\ backlog' = Tail(backlog)
        /\ pc' = "read" /\ i' = Len(clients')
        /\ UNCHANGED <<hungup, unread, ready, listening, input_queue>>
    BY <1>3, AcceptEffect
  <2>2. backlog' \in Seq(Conns)
    BY <2>1, HeadTailProperties DEF LoopTypes
  <2>3. /\ conn' \in [Conns -> {"none", "queued", "open"}]
        /\ fd' \in [Conns -> Fds \cup {nullptr}]
        /\ clients' \in Seq(Fds) /\ Len(clients') \in 0 .. MAX_CLIENTS
    <3>1. ASSUME NEW s \in Fds, Len(clients) < MAX_CLIENTS, clients' = Append(clients, s)
          PROVE  clients' \in Seq(Fds) /\ Len(clients') \in 0 .. MAX_CLIENTS
      BY <1>0, <3>1, AppendProperties DEF LoopTypes
    <3> QED
      BY <1>0, <1>3, <2>1, <3>1, AcceptEffect DEF LoopTypes
  <2> QED
    BY <2>1, <2>2, <2>3 DEF LoopTypes
<1>4. CASE skip
  <2>1. i' \in 0 .. MAX_CLIENTS
    <3>1. i' = i \/ (i # 0 /\ i' = i - 1)
      BY <1>4 DEF skip
    <3> QED
      BY <3>1 DEF LoopTypes
  <2>2. pc' \in {"read", "tokens"} /\ ready' \subseteq ready /\ listening' \in BOOLEAN
    BY <1>4 DEF LoopTypes, skip
  <2> QED
    BY <1>4, <2>1, <2>2 DEF LoopTypes, skip, kernelVars
<1>5. ASSUME NEW c \in Conns, receive(c)
      PROVE  LoopTypes'
  <2>1. unread' \in [Conns -> Nat]
    <3>1. PICK n \in 1 .. unread[c] : unread' = [unread EXCEPT ![c] = @ - n]
      BY <1>5 DEF receive
    <3>2. unread[c] - n \in Nat
      BY <3>1 DEF LoopTypes
    <3> QED
      BY <3>1, <3>2 DEF LoopTypes
  <2>2. input_queue' \in 0 .. MAX_TASKS
    BY <1>5 DEF LoopTypes, receive, pushRequest
  <2>3. i' \in 0 .. MAX_CLIENTS
    BY <1>5 DEF LoopTypes, receive, Reading
  <2> QED
    BY <1>5, <2>1, <2>2, <2>3 DEF LoopTypes, receive
<1>6. ASSUME NEW c \in Conns, disconnect(c)
      PROVE  LoopTypes'
  <2>1. /\ clients' \in Seq(Fds) /\ Len(clients') = Len(clients) - 1
        /\ i \in 1 .. Len(clients) /\ i' = i - 1
        /\ UNCHANGED <<backlog, hungup, ready, listening, pc, input_queue>>
    BY <1>6, DisconnectEffect
  <2>2. /\ conn' \in [Conns -> {"none", "queued", "open"}]
        /\ fd' \in [Conns -> Fds \cup {nullptr}]
        /\ unread' \in [Conns -> Nat]
    BY <1>6 DEF LoopTypes, disconnect
  <2>3. Len(clients') <= MAX_CLIENTS /\ i' \in 0 .. MAX_CLIENTS
    BY <1>0, <2>1
  <2> QED
    BY <2>1, <2>2, <2>3 DEF LoopTypes
<1>7. CASE client_manager_process_pending_tokens
  BY <1>7 DEF LoopTypes, client_manager_process_pending_tokens, kernelVars
<1>8. ASSUME NEW c \in Conns, connect(c)
      PROVE  LoopTypes'
  <2>1. backlog' \in Seq(Conns)
    BY <1>8, AppendProperties DEF LoopTypes, connect
  <2> QED
    BY <1>8, <2>1 DEF LoopTypes, connect, loopVars
<1>9. ASSUME NEW c \in Conns, sendRequest(c) \/ hangUp(c)
      PROVE  LoopTypes'
  <2>1. unread' \in [Conns -> Nat]
    <3>1. CASE hangUp(c)
      BY <3>1 DEF LoopTypes, hangUp
    <3>2. CASE sendRequest(c)
      <4>1. unread[c] + 1 \in Nat
        BY DEF LoopTypes
      <4> QED
        BY <3>2, <4>1 DEF LoopTypes, sendRequest
    <3> QED
      BY <1>9, <3>1, <3>2
  <2> QED
    BY <1>9, <2>1 DEF LoopTypes, sendRequest, hangUp, loopVars
<1> QED
  BY NextSplit, <1>1, <1>2, <1>3, <1>4, <1>5, <1>6, <1>7, <1>8, <1>9

\* Every open connection is in the list once after a step, and nothing else is.
LEMMA SocketsStep ==
    ASSUME LoopTypes, SocketsInv, BacklogInv, ReadInv, [Next]_vars
    PROVE  SocketsInv'
<1>0. Len(clients) \in Nat /\ DOMAIN clients = 1 .. Len(clients)
  BY LenProperties DEF LoopTypes
<1>1. ASSUME Open' = Open, UNCHANGED <<fd, clients>>
      PROVE  SocketsInv'
  <2>1. OpenFds' = OpenFds
    BY <1>1 DEF OpenFds
  <2>2. Range(clients') = OpenFds'
    BY <1>1, <2>1 DEF SocketsInv
  <2> QED
    BY <1>1, <2>2 DEF SocketsInv
<1>2. CASE accept
  <2> DEFINE h == Head(backlog)
  <2>1. h \in Conns /\ h \notin Open
    BY <1>2, AcceptEffect DEF Open
  <2>2. CASE conn' = [conn EXCEPT ![h] = "none"] /\ UNCHANGED <<fd, clients>>
    <3>1. Open' = Open
      BY <2>1, <2>2 DEF Open, LoopTypes
    <3> QED
      BY <1>1, <2>2, <3>1
  <2>3. ASSUME NEW s \in Fds \ OpenFds,
               conn' = [conn EXCEPT ![h] = "open"],
               fd' = [fd EXCEPT ![h] = s], clients' = Append(clients, s)
        PROVE  SocketsInv'
    <3>1. Open' = Open \cup {h}
      BY <2>1, <2>3 DEF Open, LoopTypes
    <3>2. fd'[h] = s /\ \A c \in Open : fd'[c] = fd[c]
      BY <2>1, <2>3 DEF Open, LoopTypes
    <3>3. /\ DOMAIN clients' = 1 .. Len(clients) + 1
          /\ clients'[Len(clients) + 1] = s
          /\ \A k \in 1 .. Len(clients) : clients'[k] = clients[k]
      <4>1. /\ clients' \in Seq(Fds) /\ Len(clients') = Len(clients) + 1
            /\ clients'[Len(clients) + 1] = s
            /\ \A k \in 1 .. Len(clients) : clients'[k] = clients[k]
        BY <2>3, AppendProperties DEF LoopTypes
      <4> QED
        BY <4>1, LenProperties
    <3>4. OpenFds' = OpenFds \cup {s}
      BY <3>1, <3>2 DEF OpenFds
    <3>5. \A k \in 1 .. Len(clients) + 1 : k \in 1 .. Len(clients) \/ k = Len(clients) + 1
      BY <1>0
    <3>6. \A k \in 1 .. Len(clients) : clients[k] \in OpenFds
      BY <1>0 DEF SocketsInv, Range
    <3>7. \A j, k \in DOMAIN clients' : clients'[j] = clients'[k] => j = k
      BY <1>0, <3>3, <3>5, <3>6 DEF SocketsInv
    <3>8. Range(clients') = OpenFds'
      <4>1. \A x : x \in Range(clients') <=> x \in Range(clients) \/ x = s
        BY <1>0, <3>3, <3>5 DEF Range
      <4> QED
        BY <3>4, <4>1 DEF SocketsInv
    <3>9. \A c, d \in Open' : fd'[c] = fd'[d] => c = d
      <4>1. \A c \in Open : fd[c] # s
        BY DEF OpenFds
      <4> QED
        BY <3>1, <3>2, <4>1 DEF SocketsInv
    <3>10. \A c \in Open' : fd'[c] \in Fds
      BY <3>1, <3>2 DEF SocketsInv
    <3> QED
      BY <3>7, <3>8, <3>9, <3>10 DEF SocketsInv
  <2> QED
    BY <1>2, <2>2, <2>3, AcceptEffect
<1>3. ASSUME NEW c \in Conns, disconnect(c)
      PROVE  SocketsInv'
  <2> DEFINE n == Len(clients)
  <2>1. /\ i \in 1 .. n /\ c \in Open /\ clients[i] = fd[c]
        /\ Open' = Open \ {c} /\ \A d \in Open' : fd'[d] = fd[d]
        /\ clients' \in Seq(Fds) /\ Len(clients') = n - 1
        /\ \A k \in 1 .. n - 1 : clients'[k] = IF k < i THEN clients[k] ELSE clients[k + 1]
    BY <1>3, DisconnectEffect
  <2>2. DOMAIN clients' = 1 .. n - 1 /\ DOMAIN clients = 1 .. n /\ n \in Nat
    BY <1>0, <2>1, LenProperties
  <2>3. /\ \A c1, d \in Open : fd[c1] = fd[d] => c1 = d
        /\ \A j, k \in 1 .. n : clients[j] = clients[k] => j = k
        /\ Range(clients) = OpenFds
    BY <2>2 DEF SocketsInv
  <2> HIDE DEF n
  <2> DEFINE old(k) == IF k < i THEN k ELSE k + 1
  <2>4. /\ \A k \in 1 .. n - 1 : old(k) \in 1 .. n /\ old(k) # i /\ clients'[k] = clients[old(k)]
        /\ \A j, k \in 1 .. n - 1 : old(j) = old(k) => j = k
        /\ \A m \in 1 .. n : m = i \/ \E k \in 1 .. n - 1 : old(k) = m
    <3>1. i \in Nat /\ 1 <= i /\ i <= n
      BY <2>1, <2>2
    <3>2. ASSUME NEW k \in 1 .. n - 1
          PROVE  old(k) \in 1 .. n /\ old(k) # i /\ clients'[k] = clients[old(k)]
      BY <2>1, <2>2, <3>1
    <3>3. \A j, k \in 1 .. n - 1 : old(j) = old(k) => j = k
      BY <2>2, <3>1
    <3>4. ASSUME NEW m \in 1 .. n, m # i
          PROVE  \E k \in 1 .. n - 1 : old(k) = m
      <4>1. CASE m < i
        <5>1. m \in 1 .. n - 1 /\ old(m) = m
          BY <2>2, <3>1, <4>1
        <5> QED
          BY <5>1
      <4>2. CASE ~(m < i)
        <5>1. m - 1 \in 1 .. n - 1 /\ old(m - 1) = m
          BY <2>2, <3>1, <3>4, <4>2
        <5> QED
          BY <5>1
      <4> QED
        BY <4>1, <4>2
    <3> QED
      BY <3>2, <3>3, <3>4
  <2> HIDE DEF old
  <2>5. \A j, k \in DOMAIN clients' : clients'[j] = clients'[k] => j = k
    BY <2>2, <2>3, <2>4
  <2>6. OpenFds' = OpenFds \ {clients[i]}
    BY <2>1, <2>3 DEF OpenFds
  <2>7. \A x : x \in Range(clients') <=> x \in Range(clients) /\ x # clients[i]
    <3>1. ASSUME NEW k \in 1 .. n - 1
          PROVE  clients'[k] \in Range(clients) /\ clients'[k] # clients[i]
      <4>1. old(k) \in 1 .. n /\ old(k) # i /\ clients'[k] = clients[old(k)]
        BY <2>4
      <4> QED
        BY <2>1, <2>2, <2>3, <4>1 DEF Range
    <3>2. ASSUME NEW m \in 1 .. n, clients[m] # clients[i]
          PROVE  \E k \in 1 .. n - 1 : clients'[k] = clients[m]
      BY <2>4, <3>2
    <3> QED
      BY <2>2, <3>1, <3>2 DEF Range
  <2>8. Range(clients') = OpenFds'
    BY <2>3, <2>6, <2>7
  <2>9. /\ \A d \in Open' : fd'[d] \in Fds
        /\ \A d, e \in Open' : fd'[d] = fd'[e] => d = e
    BY <2>1, <2>3 DEF SocketsInv
  <2> QED
    BY <2>5, <2>8, <2>9 DEF SocketsInv
<1>4. CASE \/ UNCHANGED vars \/ select \/ skip \/ client_manager_process_pending_tokens
           \/ \E c \in Conns : receive(c) \/ sendRequest(c) \/ hangUp(c)
           \/ \E id \in Ids : produce(id)
  <2>1. UNCHANGED <<conn, fd, clients>>
    BY <1>4 DEF vars, kernelVars, loopVars, select, skip, receive, sendRequest, hangUp, produce,
                client_manager_process_pending_tokens
  <2> QED
    BY <1>1, <2>1 DEF Open
<1>5. ASSUME NEW c \in Conns, connect(c)
      PROVE  SocketsInv'
  <2>1. Open' = Open /\ UNCHANGED <<fd, clients>>
    BY <1>5 DEF connect, Open, LoopTypes, loopVars
  <2> QED
    BY <1>1, <2>1
<1> QED
  BY NextSplit, <1>2, <1>3, <1>4, <1>5

\* The backlog holds waiting connections after a step, each once.
LEMMA BacklogStep ==
    ASSUME LoopTypes, SocketsInv, BacklogInv, ReadInv, [Next]_vars
    PROVE  BacklogInv'
<1>0. /\ Len(backlog) \in Nat /\ DOMAIN backlog = 1 .. Len(backlog)
      /\ \A k \in 1 .. Len(backlog) : backlog[k] \in Conns /\ conn[backlog[k]] = "queued"
      /\ \A j, k \in 1 .. Len(backlog) : backlog[j] = backlog[k] => j = k
  BY LenProperties, ElementOfSeq DEF LoopTypes, BacklogInv
<1>1. CASE accept
  <2> DEFINE n == Len(backlog)
  <2>1. /\ Head(backlog) = backlog[1] /\ n \in Nat \ {0}
        /\ DOMAIN backlog' = 1 .. n - 1 /\ \A k \in 1 .. n - 1 : backlog'[k] = backlog[k + 1]
    <3>1. backlog \in Seq(Conns) /\ backlog # <<>> /\ backlog' = Tail(backlog)
      BY <1>1, AcceptEffect DEF LoopTypes
    <3>2. /\ backlog' \in Seq(Conns) /\ Len(backlog') = n - 1
          /\ \A k \in 1 .. Len(backlog') : backlog'[k] = backlog[k + 1]
      BY <3>1, HeadTailProperties
    <3>3. n # 0 /\ Head(backlog) = backlog[1]
      BY <3>1, EmptySeq
    <3> QED
      BY <1>0, <3>2, <3>3, LenProperties
  <2> HIDE DEF n
  <2>2. \A d \in Conns : d # Head(backlog) => conn'[d] = conn[d]
    BY <1>1, AcceptEffect DEF LoopTypes
  <2>3. ASSUME NEW k \in 1 .. n - 1
        PROVE  /\ k + 1 \in 1 .. n /\ 1 \in 1 .. n
               /\ backlog[k + 1] # backlog[1] /\ backlog[k + 1] \in Conns
    <3>1. k + 1 \in 1 .. n /\ 1 \in 1 .. n /\ k + 1 # 1
      BY <2>1
    <3> QED
      BY <1>0, <3>1 DEF n
  <2>4. \A k \in 1 .. n - 1 : conn'[backlog'[k]] = "queued"
    BY <1>0, <2>1, <2>2, <2>3 DEF n
  <2>5. \A j, k \in 1 .. n - 1 : backlog'[j] = backlog'[k] => j = k
    <3> SUFFICES ASSUME NEW j \in 1 .. n - 1, NEW k \in 1 .. n - 1, backlog'[j] = backlog'[k]
                 PROVE  j = k
      OBVIOUS
    <3>1. j + 1 = k + 1
      BY <1>0, <2>1, <2>3 DEF n
    <3> QED
      BY <2>1, <3>1
  <2>6. pc' = "read"
    BY <1>1, AcceptEffect
  <2> QED
    BY <2>1, <2>4, <2>5, <2>6 DEF BacklogInv
<1>2. ASSUME NEW c \in Conns, connect(c)
      PROVE  BacklogInv'
  <2> DEFINE n == Len(backlog)
  <2>1. /\ conn[c] = "none" /\ conn'[c] = "queued" /\ pc' = pc
        /\ \A d \in Conns : d # c => conn'[d] = conn[d]
    BY <1>2 DEF connect, LoopTypes, loopVars
  <2>2. /\ DOMAIN backlog' = 1 .. n + 1 /\ backlog'[n + 1] = c /\ backlog' # <<>>
        /\ \A k \in 1 .. n : backlog'[k] = backlog[k]
    <3>0. backlog \in Seq(Conns) /\ backlog' = Append(backlog, c)
      BY <1>2 DEF LoopTypes, connect
    <3>1. /\ backlog' \in Seq(Conns) /\ Len(backlog') = n + 1 /\ backlog' # <<>>
          /\ backlog'[n + 1] = c /\ \A k \in 1 .. n : backlog'[k] = backlog[k]
      BY <3>0, AppendProperties
    <3> QED
      BY <3>1, LenProperties
  <2>3. \A k \in 1 .. n + 1 : k \in 1 .. n \/ k = n + 1
    BY <1>0
  <2>4. \A k \in 1 .. n : backlog[k] # c /\ backlog[k] \in Conns /\ conn[backlog[k]] = "queued"
    BY <1>0, <2>1
  <2>5. \A j, k \in 1 .. n : backlog[j] = backlog[k] => j = k
    BY <1>0
  <2> HIDE DEF n
  <2>6. \A k \in 1 .. n + 1 : conn'[backlog'[k]] = "queued"
    BY <2>1, <2>2, <2>3, <2>4
  <2>7. \A j, k \in 1 .. n + 1 : backlog'[j] = backlog'[k] => j = k
    BY <2>2, <2>3, <2>4, <2>5
  <2> QED
    BY <2>2, <2>6, <2>7 DEF BacklogInv
<1>3. ASSUME NEW c \in Conns, disconnect(c)
      PROVE  BacklogInv'
  <2>1. conn[c] = "open" /\ UNCHANGED <<backlog, pc>>
    BY <1>3, DisconnectEffect DEF Open
  <2>2. \A d \in Conns : conn[d] = "queued" => conn'[d] = "queued"
    BY <1>3, <2>1 DEF disconnect, LoopTypes
  <2> QED
    BY <1>0, <2>1, <2>2 DEF BacklogInv
<1>4. CASE select
  BY <1>4 DEF select, kernelVars, BacklogInv
<1>5. CASE \/ UNCHANGED vars \/ skip \/ client_manager_process_pending_tokens
           \/ \E c \in Conns : receive(c) \/ sendRequest(c) \/ hangUp(c)
           \/ \E id \in Ids : produce(id)
  <2>1. UNCHANGED <<backlog, conn>>
    BY <1>5 DEF vars, kernelVars, skip, receive, sendRequest, hangUp, produce,
                client_manager_process_pending_tokens
  <2>2. pc' = "accept" => pc = "accept"
    BY <1>5 DEF vars, loopVars, skip, receive, sendRequest, hangUp, produce,
                client_manager_process_pending_tokens
  <2> QED
    BY <2>1, <2>2 DEF BacklogInv
<1> QED
  BY NextSplit, <1>1, <1>2, <1>3, <1>4, <1>5

\* A descriptor keeps its input while no one reads from its connection.
LEMMA InputStays ==
    ASSUME NEW s, HasInput(s),
           \A c \in Open : fd[c] = s =>
              /\ c \in Open' /\ fd'[c] = fd[c]
              /\ unread[c] > 0 => unread'[c] > 0
              /\ c \in hungup => c \in hungup'
    PROVE  HasInput(s)'
<1>1. PICK c \in Open : fd[c] = s /\ (unread[c] > 0 \/ c \in hungup)
  BY DEF HasInput
<1>2. c \in Open' /\ fd'[c] = s /\ (unread'[c] > 0 \/ c \in hungup')
  BY <1>1
<1> QED
  BY <1>2 DEF HasInput

\* What select reported is still so after a step, of whatever the loop has yet
\* to visit.
LEMMA ReadStep ==
    ASSUME LoopTypes, SocketsInv, BacklogInv, ReadInv, [Next]_vars
    PROVE  ReadInv'
<1>0. Len(clients) \in Nat /\ DOMAIN clients = 1 .. Len(clients) /\ i \in Nat
  BY LenProperties DEF LoopTypes
<1>1. ASSUME UNCHANGED <<ready, clients, pc, i>>, \A s : HasInput(s) => HasInput(s)'
      PROVE  ReadInv'
  BY <1>1 DEF ReadInv
<1>2. CASE \/ UNCHANGED vars
           \/ \E c \in Conns : connect(c) \/ sendRequest(c) \/ hangUp(c)
           \/ \E id \in Ids : produce(id)
  <2>1. UNCHANGED <<ready, clients, pc, i>>
    BY <1>2 DEF vars, loopVars, connect, sendRequest, hangUp, produce
  <2>2. ASSUME NEW c \in Open
        PROVE  /\ c \in Open' /\ fd'[c] = fd[c]
               /\ unread[c] > 0 => unread'[c] > 0
               /\ c \in hungup => c \in hungup'
    <3>1. /\ c \in Conns /\ conn[c] = "open" /\ unread[c] \in Nat
      BY LoopAssumption DEF Open, LoopTypes
    <3>2. CASE UNCHANGED kernelVars
      BY <3>1, <3>2 DEF kernelVars, Open
    <3>3. ASSUME NEW d \in Conns, connect(d)
          PROVE  /\ c \in Open' /\ fd'[c] = fd[c]
                 /\ unread[c] > 0 => unread'[c] > 0
                 /\ c \in hungup => c \in hungup'
      BY <3>1, <3>3 DEF connect, LoopTypes, Open
    <3>4. ASSUME NEW d \in Conns, sendRequest(d) \/ hangUp(d)
          PROVE  /\ c \in Open' /\ fd'[c] = fd[c]
                 /\ unread[c] > 0 => unread'[c] > 0
                 /\ c \in hungup => c \in hungup'
      <4>1. /\ UNCHANGED <<conn, fd>> /\ hungup \subseteq hungup'
            /\ unread' = unread \/ unread' = [unread EXCEPT ![d] = @ + 1]
        BY <3>4 DEF sendRequest, hangUp
      <4>2. unread'[c] = unread[c] \/ unread'[c] = unread[c] + 1
        BY <3>1, <4>1 DEF LoopTypes
      <4> QED
        BY <3>1, <4>1, <4>2 DEF Open
    <3> QED
      BY <1>2, <3>2, <3>3, <3>4 DEF vars, produce
  <2>3. \A s : HasInput(s) => HasInput(s)'
    BY <2>2, InputStays
  <2> QED
    BY <1>1, <2>1, <2>3
<1>3. CASE select
  <2>1. /\ ready' = {s \in Range(clients) : Readable(s)}
        /\ pc' \in {"accept", "read"} /\ i' = Len(clients) /\ UNCHANGED <<kernelVars, clients>>
    BY <1>3 DEF select
  <2>2. \A s \in ready' : HasInput(s)
    BY <2>1, ReadableHasInput DEF SocketsInv
  <2>3. \A s : HasInput(s) => HasInput(s)'
    BY <2>1 DEF HasInput, Open, kernelVars
  <2>4. \A s \in ready' : HasInput(s)'
    BY <2>2, <2>3
  <2>5. i' <= Len(clients')
    BY <1>0, <2>1
  <2> QED
    BY <2>4, <2>5 DEF ReadInv
<1>4. CASE accept
  <2>1. /\ pc = "accept" /\ pc' = "read" /\ i' = Len(clients')
        /\ UNCHANGED <<hungup, unread, ready>>
    BY <1>4, AcceptEffect
  <2>2. ASSUME NEW c \in Open
        PROVE  c \in Open' /\ fd'[c] = fd[c]
    <3>1. c \in Conns /\ conn[c] = "open" /\ c # Head(backlog)
      BY <1>4, AcceptEffect DEF Open
    <3> QED
      BY <1>4, <3>1, AcceptEffect DEF Open, LoopTypes
  <2>3. \A s \in ready : HasInput(s)'
    BY <2>1, <2>2, InputStays DEF ReadInv
  <2>4. Len(clients') \in Nat
    BY TypesStep, LenProperties DEF LoopTypes
  <2>5. i' <= Len(clients')
    BY <2>1, <2>4
  <2> QED
    BY <2>1, <2>3, <2>5 DEF ReadInv
<1>5. CASE skip
  <2>1. UNCHANGED <<kernelVars, clients>>
    BY <1>5 DEF skip
  <2>2. \A s : HasInput(s) => HasInput(s)'
    BY <2>1 DEF HasInput, Open, kernelVars
  <2>3. pc' = "tokens" \/ (pc' = "read" /\ pc = "read" /\ i' = i - 1 /\ ready' = ready)
    BY <1>5 DEF skip
  <2>4. CASE pc' = "tokens"
    BY <2>4 DEF ReadInv
  <2>5. CASE pc' = "read" /\ pc = "read" /\ i' = i - 1 /\ ready' = ready
    <3>1. i' <= Len(clients) /\ \A k \in 1 .. i' : k \in 1 .. i
      BY <1>0, <2>5 DEF ReadInv
    <3> QED
      BY <2>1, <2>2, <2>5, <3>1 DEF ReadInv
  <2> QED
    BY <2>3, <2>4, <2>5
<1>6. ASSUME NEW c \in Conns, receive(c)
      PROVE  ReadInv'
  <2>1. /\ i \in 1 .. Len(clients) /\ c \in Open /\ clients[i] = fd[c] /\ pc = "read"
        /\ i' = i - 1 /\ \E n \in 1 .. unread[c] : unread' = [unread EXCEPT ![c] = @ - n]
        /\ UNCHANGED <<conn, fd, hungup, clients, ready, pc>>
    BY <1>6, ReadingFrom DEF receive, Reading
  <2>2. ASSUME NEW k \in 1 .. i', clients[k] \in ready
        PROVE  HasInput(clients[k])'
    <3>1. k \in 1 .. i /\ k \in 1 .. Len(clients) /\ k # i
      BY <1>0, <2>1
    <3>2. HasInput(clients[k]) /\ clients[k] # fd[c]
      BY <1>0, <2>1, <2>2, <3>1 DEF ReadInv, SocketsInv
    <3>3. \A d \in Open : fd[d] = clients[k] => unread'[d] = unread[d]
      BY <2>1, <3>2 DEF LoopTypes, Open
    <3> QED
      BY <2>1, <3>2, <3>3, InputStays DEF Open
  <2>3. i' <= Len(clients')
    BY <1>0, <2>1
  <2> QED
    BY <2>1, <2>2, <2>3 DEF ReadInv
<1>7. ASSUME NEW c \in Conns, disconnect(c)
      PROVE  ReadInv'
  <2>1. /\ i \in 1 .. Len(clients) /\ c \in Open /\ clients[i] = fd[c] /\ pc = "read"
        /\ Open' = Open \ {c} /\ \A d \in Open' : fd'[d] = fd[d] /\ unread'[d] = unread[d]
        /\ Len(clients') = Len(clients) - 1 /\ i' = i - 1
        /\ \A k \in 1 .. Len(clients) - 1 :
              clients'[k] = IF k < i THEN clients[k] ELSE clients[k + 1]
        /\ UNCHANGED <<hungup, ready, pc>>
    BY <1>7, DisconnectEffect
  <2>2. ASSUME NEW k \in 1 .. i', NEW s, s = clients'[k], s \in ready
        PROVE  HasInput(s)'
    <3>1. k \in 1 .. i /\ k \in 1 .. Len(clients) - 1 /\ k < i
      BY <1>0, <2>1
    <3>2. clients'[k] = clients[k] /\ k \in 1 .. Len(clients) /\ k # i
      BY <1>0, <2>1, <3>1
    <3>3. HasInput(s) /\ s # fd[c]
      BY <1>0, <2>1, <2>2, <3>1, <3>2 DEF ReadInv, SocketsInv
    <3>4. \A d \in Open : fd[d] = s => d \in Open'
      BY <2>1, <3>3
    <3> QED
      BY <2>1, <3>3, <3>4, InputStays
  <2>3. i' <= Len(clients')
    BY <1>0, <2>1
  <2>4. \A k \in 1 .. i' : clients'[k] \in ready' => HasInput(clients[k])'
    BY <2>1, <2>2 DEF HasInput
  <2> QED
    BY <2>1, <2>3, <2>4 DEF ReadInv
<1>8. CASE client_manager_process_pending_tokens
  BY <1>8 DEF client_manager_process_pending_tokens, ReadInv
<1> QED
  BY NextSplit, <1>2, <1>3, <1>4, <1>5, <1>6, <1>7, <1>8

\* The streams are as they should be after a step of the loop, which erases
\* mappings on a disconnect too, and only between two passes.
LEMMA StreamsStep ==
    ASSUME StreamInv, CursorInv, LoopTypes, SocketsInv, ReadInv, [Next]_vars
    PROVE  StreamInv' /\ CursorInv'
<1>1. CASE UNCHANGED streamVars
  <2>1. StreamInv' /\ cursor' = cursor
    BY <1>1, StreamStep DEF streamVars
  <2>2. pc = "tokens" => pc' = "tokens" \/ cursor' = 0
    <3>1. CASE UNCHANGED vars \/ \E c \in Conns : connect(c) \/ sendRequest(c) \/ hangUp(c)
      BY <3>1 DEF vars, loopVars, connect, sendRequest, hangUp
    <3>2. CASE select \/ accept \/ skip \/ \E c \in Conns : receive(c) \/ disconnect(c)
      BY <3>2 DEF select, accept, skip, receive, disconnect, Reading
    <3>3. CASE client_manager_process_pending_tokens
      BY <3>3 DEF client_manager_process_pending_tokens
    <3>4. CASE \E id \in Ids : produce(id)
      BY <3>4 DEF produce, loopVars
    <3> QED
      BY NextSplit, <3>1, <3>2, <3>3, <3>4
  <2> QED
    BY <2>1, <2>2 DEF CursorInv
<1>2. ASSUME NEW c \in Conns, receive(c)
      PROVE  StreamInv' /\ CursorInv'
  <2>1. clients[i] \in Fds /\ pc = "read" /\ pc' = pc
    BY <1>2, ReadingFrom, ElementOfSeq DEF receive, Reading, LoopTypes
  <2>2. CASE UNCHANGED streamVars
    BY <1>1, <2>2
  <2>3. ASSUME NEW id \in Ids, T!registerRequest(clients[i], id)
        PROVE  StreamInv' /\ CursorInv'
    <3>1. StreamInv'
      BY <2>1, <2>3, CallsOfStreams, StreamStep
    <3>2. cursor' = cursor
      BY <2>3 DEF T!registerRequest
    <3> QED
      BY <2>1, <3>1, <3>2 DEF CursorInv
  <2> QED
    BY <1>2, <2>2, <2>3 DEF receive
<1>3. ASSUME NEW c \in Conns, disconnect(c)
      PROVE  StreamInv' /\ CursorInv'
  <2>1. /\ pc = "read" /\ pc' = pc
        /\ UNCHANGED <<token_map, cursor, served, produced, ended, rewound, sent>>
        /\ \E gone : client_requests' = T!Erased(client_requests, gone)
    BY <1>3 DEF disconnect, Reading
  <2>2. cursor = 0
    BY <2>1 DEF CursorInv
  <2> QED
    BY <2>1, <2>2, MappingsErased DEF CursorInv
<1>4. CASE client_manager_process_pending_tokens
  <2>1. T!Pass /\ pc' = IF cursor' = 0 THEN "select" ELSE "tokens"
    BY <1>4 DEF client_manager_process_pending_tokens
  <2> QED
    BY <2>1, CallsOfStreams, StreamStep DEF CursorInv
<1>5. ASSUME NEW id \in Ids, produce(id)
      PROVE  StreamInv' /\ CursorInv'
  <2>1. StreamInv'
    BY <1>5, CallsOfStreams, StreamStep DEF produce
  <2>2. cursor' = cursor /\ pc' = pc
    BY <1>5 DEF produce, loopVars, T!addToken, T!addNullToken, T!markTokenStreamFinished,
                T!resetOutput
  <2> QED
    BY <2>1, <2>2 DEF CursorInv
<1>6. CASE \/ UNCHANGED vars \/ select \/ accept \/ skip
           \/ \E c \in Conns : connect(c) \/ sendRequest(c) \/ hangUp(c)
  <2>1. UNCHANGED streamVars
    BY <1>6 DEF vars, select, accept, skip, connect, sendRequest, hangUp
  <2> QED
    BY <1>1, <2>1
<1> QED
  BY NextSplit, <1>2, <1>3, <1>4, <1>5, <1>6

----------------------------------------------------------------------------
\* The inductive invariant of the event loop.
THEOREM LoopHolds == Spec => []Inv
<1>1. Init => Inv
  <2> SUFFICES ASSUME Init
               PROVE  Inv
    OBVIOUS
  <2>1. Open = {} /\ OpenFds = {}
    BY DEF Init, Open, OpenFds
  <2>2. LoopTypes
    <3>1. /\ <<>> \in Seq(Conns) /\ <<>> \in Seq(Fds) /\ Len(<<>>) = 0
          /\ 0 \in 0 .. MAX_CLIENTS /\ 0 \in 0 .. MAX_TASKS
          /\ 0 <= MAX_CLIENTS
      BY LoopAssumption
    <3> QED
      BY <3>1 DEF Init, LoopTypes
  <2>3. SocketsInv /\ BacklogInv /\ ReadInv
    BY <2>1 DEF Init, SocketsInv, BacklogInv, ReadInv, Range
  <2>4. TP!Init
    BY DEF Init, T!Init, TP!Init
  <2>5. StreamInv
    BY <2>4, StreamConstants, TP!TypesInit, TP!OrderInit, TP!BufferedInit DEF StreamInv
  <2>6. CursorInv
    BY DEF Init, T!Init, CursorInv
  <2> QED
    BY <2>2, <2>3, <2>5, <2>6 DEF Inv
<1>2. Inv /\ [Next]_vars => Inv'
  BY TypesStep, SocketsStep, BacklogStep, ReadStep, StreamsStep DEF Inv
<1> QED
  BY <1>1, <1>2, PTL DEF Spec

\* The loop, the kernel and the streams keep their types, and the list its
\* capacity (client_manager.cpp:77), whatever the clients do and when.
THEOREM TypeCorrect == Spec => []TypeOK
<1>1. Inv => TypeOK
  BY DEF Inv, StreamInv, LoopTypes, TypeOK, TP!StreamTypes, TP!TypeOK, T!TypeOK, TP!TokenList,
         T!TokenList, TP!HasList, T!HasList, TP!Mapping, T!Mapping
<1> QED
  BY <1>1, LoopHolds, PTL

\* Each open connection is in the list once and the list holds nothing else,
\* although entries go while it is being walked (client_manager.cpp:72-99).
THEOREM SocketsListed == Spec => []ListIsOpenSockets
<1>1. Inv => ListIsOpenSockets
  BY AsManyAsOpen DEF Inv, SocketsInv, ListIsOpenSockets
<1> QED
  BY <1>1, LoopHolds, PTL

\* What select reported still holds when the loop comes to read: no recv of a
\* round takes silence for a hang-up (client_manager.cpp:88).
THEOREM ReadyStays == Spec => []ReadyStaysReady
<1>1. Inv => ReadyStaysReady
  <2> SUFFICES ASSUME Inv, pc = "read", NEW k \in 1 .. i, clients[k] \in ready
               PROVE  Readable(clients[k])
    BY DEF ReadyStaysReady
  <2>1. k \in DOMAIN clients /\ HasInput(clients[k])
    BY LenProperties DEF Inv, ReadInv, LoopTypes
  <2>2. clients[k] \in OpenFds
    BY <2>1 DEF Inv, SocketsInv, Range
  <2> QED
    BY <2>1, <2>2, ReadableHasInput DEF Inv
<1> QED
  BY <1>1, LoopHolds, PTL

\* What TokenStream promises of the order of the tokens it keeps inside the
\* event loop too, where clients leave and take their mappings with them.
THEOREM TokensInOrder == Spec => []T!InOrderOnce
<1>1. Inv => T!InOrderOnce
  BY DEF Inv, StreamInv, TP!OrderInv, TP!InOrderOnce, T!InOrderOnce
<1> QED
  BY <1>1, LoopHolds, PTL

\* A step of the loop is one of TokenStream, or leaves the lists alone.
LEMMA StreamSplit ==
    ASSUME Inv, [Next]_vars
    PROVE  TP!Next \/ UNCHANGED streamVars \/ UNCHANGED token_map
<1>1. ASSUME NEW c \in Conns, receive(c)
      PROVE  TP!Next \/ UNCHANGED streamVars
  <2>1. clients[i] \in Fds
    BY <1>1, ReadingFrom, ElementOfSeq DEF receive, Inv, LoopTypes
  <2> QED
    BY <1>1, <2>1, CallsOfStreams DEF receive
<1>2. ASSUME NEW c \in Conns, disconnect(c)
      PROVE  UNCHANGED token_map
  BY <1>2 DEF disconnect
<1>3. CASE client_manager_process_pending_tokens \/ \E id \in Ids : produce(id)
  BY <1>3, CallsOfStreams DEF client_manager_process_pending_tokens, produce
<1>4. CASE \/ UNCHANGED vars \/ select \/ accept \/ skip
           \/ \E c \in Conns : connect(c) \/ sendRequest(c) \/ hangUp(c)
  BY <1>4 DEF vars, select, accept, skip, connect, sendRequest, hangUp
<1> QED
  BY NextSplit, <1>1, <1>2, <1>3, <1>4

\* "Completely finished: all tokens sent and the stream ended"
\* (client_manager.cpp:140) stays true of the ids that are registered the
\* careful way when clients leave and their mappings go: a list that nobody
\* draws on is kept, not deleted unsent.
THEOREM TokensSentFirst == Spec => T!BufferedIsSent
<1>1. ASSUME Inv, Inv', [Next]_vars, NEW id \in BufferedIds, T!Deletes(id)
      PROVE  T!AllSent(id)
  <2>1. TP!Deletes(id) /\ token_map'[id] # token_map[id]
    BY <1>1 DEF T!Deletes, TP!Deletes, T!HasList, TP!HasList
  <2>2. TP!Next
    BY <1>1, <2>1, StreamSplit DEF streamVars
  <2>3. TP!AllSent(id)
    BY <1>1, <2>1, <2>2, StreamConstants, TP!DeletesWhatIsSent DEF Inv, StreamInv
  <2>4. \A f : T!Range(f) = TP!Range(f)
    BY DEF T!Range, TP!Range
  <2>5. T!SentTokens(id)' = TP!SentTokens(id)'
    BY <2>4 DEF T!SentTokens, TP!SentTokens
  <2> QED
    BY <2>3, <2>4, <2>5 DEF T!AllSent, TP!AllSent
<1>2. Inv /\ Inv' /\ [Next]_vars
        => [\A id \in BufferedIds : T!Deletes(id) => T!AllSent(id)]_(T!streamVars)
  BY <1>1
<1> QED
  BY <1>2, LoopHolds, PTL DEF Spec, T!BufferedIsSent

----------------------------------------------------------------------------
\* What an erasing loop leaves, in the terms of this module.
LEMMA MappingsLeft ==
    ASSUME StreamInv, NEW gone
    PROVE  Range(T!Erased(client_requests, gone)) =
              {client_requests[k] : k \in DOMAIN client_requests \ gone}
<1>1. T!Erased(client_requests, gone) = TP!Erased(client_requests, gone)
  BY DEF T!Erased, TP!Erased
<1>2. \A f : Range(f) = TP!Range(f)
  BY DEF Range, TP!Range
<1>3. client_requests \in Seq(TP!Mapping)
  BY DEF StreamInv, TP!StreamTypes, TP!TypeOK
<1>4. TP!Range(TP!Erased(client_requests, gone)) =
         {client_requests[k] : k \in DOMAIN client_requests \ gone}
  BY <1>3, StreamConstants, TP!ErasedLeaves
<1> QED
  BY <1>1, <1>2, <1>4

\* The descriptor that the reference c denotes after the erase.
Referred == IF i < Len(clients) THEN clients[i + 1] ELSE clients[i]

\* What a disconnect erases is the mappings of the client behind the one that
\* hung up, all of them and no other's, or its own if it is the last.
LEMMA ErasesReferred ==
    ASSUME Inv, NEW c \in Conns, disconnect(c)
    PROVE  Range(client_requests') =
              {m \in Range(client_requests) : m.client_socket # Referred}
<1>1. /\ i \in 1 .. Len(clients) /\ Len(clients) \in Nat
      /\ clients' \in Seq(Fds) /\ Len(clients') = Len(clients) - 1
      /\ \A k \in 1 .. Len(clients) - 1 :
            clients'[k] = IF k < i THEN clients[k] ELSE clients[k + 1]
  BY DisconnectEffect, LenProperties DEF Inv, LoopTypes
<1> DEFINE at   == IF i \in DOMAIN clients' THEN clients'[i] ELSE clients[i]
           gone == {k \in DOMAIN client_requests :
                       client_requests[k].client_socket = at}
<1>2. at = Referred
  <2>1. i \in DOMAIN clients' <=> i < Len(clients)
    BY <1>1, LenProperties
  <2>2. CASE i < Len(clients)
    <3>1. i \in 1 .. Len(clients) - 1 /\ ~(i < i)
      BY <1>1, <2>2
    <3> QED
      BY <1>1, <2>1, <2>2, <3>1 DEF Referred
  <2>3. CASE ~(i < Len(clients))
    BY <2>1, <2>3 DEF Referred
  <2> QED
    BY <2>2, <2>3
<1>3. client_requests' = T!Erased(client_requests, gone)
  BY DEF disconnect
<1> HIDE DEF at
<1>4. Range(client_requests') = {client_requests[k] : k \in DOMAIN client_requests \ gone}
  BY <1>3, MappingsLeft DEF Inv
<1> QED
  BY <1>2, <1>4 DEF Range

\* client_manager.cpp:92-96 as it is: whatever happened before, a disconnect
\* erases all mappings of the client that moved into the slot of the one that
\* hung up and keeps those of that one, unless it was the last of the list.
THEOREM DisconnectErases ==
    Spec => [][\A c \in Conns : disconnect(c) =>
                  Range(client_requests') =
                     {m \in Range(client_requests) : m.client_socket # Referred}]_vars
<1>1. Inv /\ [Next]_vars =>
         [\A c \in Conns : disconnect(c) =>
             Range(client_requests') =
                {m \in Range(client_requests) : m.client_socket # Referred}]_vars
  BY ErasesReferred
<1> QED
  BY <1>1, LoopHolds, PTL DEF Spec

\* Each client that hangs up is the last of the list.
LastLeaves == \A c \in Conns : disconnect(c) => i = Len(clients)

\* A step keeps the mappings to clients that are there, unless it is a
\* disconnect of a client that is not the last.
LEMMA MappingsStep ==
    ASSUME Inv, [Next]_vars, [LastLeaves]_vars, MappingsFollowClients
    PROVE  MappingsFollowClients'
<1> DEFINE Sockets == {m.client_socket : m \in Range(client_requests)}
<1>1. Sockets \subseteq OpenFds
  BY DEF MappingsFollowClients, Range
<1>2. ASSUME Sockets' \subseteq OpenFds'
      PROVE  MappingsFollowClients'
  BY <1>2 DEF MappingsFollowClients, Range
<1>3. client_requests \in Seq(TP!Mapping)
  BY DEF Inv, StreamInv, TP!StreamTypes, TP!TypeOK
<1>4. CASE UNCHANGED client_requests /\ OpenFds \subseteq OpenFds'
  BY <1>1, <1>2, <1>4
<1>5. CASE \/ UNCHANGED vars \/ select \/ skip
           \/ \E c \in Conns : connect(c) \/ sendRequest(c) \/ hangUp(c)
  <2>1. UNCHANGED <<client_requests, fd>> /\ Open' = Open
    BY <1>5 DEF vars, kernelVars, streamVars, select, skip, connect, sendRequest, hangUp,
                Inv, LoopTypes, Open
  <2> QED
    BY <1>4, <2>1 DEF OpenFds
<1>6. CASE accept
  <2>1. /\ Head(backlog) \in Conns /\ conn[Head(backlog)] = "queued"
        /\ UNCHANGED client_requests
        /\ \/ \E s \in Fds : /\ conn' = [conn EXCEPT ![Head(backlog)] = "open"]
                             /\ fd' = [fd EXCEPT ![Head(backlog)] = s]
           \/ /\ conn' = [conn EXCEPT ![Head(backlog)] = "none"]
              /\ UNCHANGED fd
    BY <1>6, AcceptEffect DEF Inv, streamVars
  <2>2. \A c \in Open : c \in Open' /\ fd'[c] = fd[c]
    BY <2>1 DEF Inv, LoopTypes, Open
  <2> QED
    BY <1>4, <2>1, <2>2 DEF OpenFds
<1>7. ASSUME NEW c \in Conns, receive(c)
      PROVE  MappingsFollowClients'
  <2>1. /\ i \in 1 .. Len(clients) /\ clients[i] = fd[c] /\ c \in Open
        /\ OpenFds' = OpenFds
    BY <1>7, ReadingFrom DEF Inv, receive, Open, OpenFds
  <2>2. CASE UNCHANGED streamVars
    BY <1>4, <2>1, <2>2 DEF streamVars
  <2>3. ASSUME NEW id \in Ids, T!registerRequest(clients[i], id)
        PROVE  MappingsFollowClients'
    <3>1. client_requests' = Append(client_requests, [client_socket |-> clients[i],
                                                      request_id    |-> id,
                                                      is_active     |-> TRUE])
      BY <2>3 DEF T!registerRequest
    <3>2. Sockets' \subseteq Sockets \cup {clients[i]}
      BY <1>3, <3>1 DEF Range
    <3>3. clients[i] \in OpenFds
      BY <2>1 DEF OpenFds
    <3> QED
      BY <1>1, <1>2, <2>1, <3>2, <3>3
  <2> QED
    BY <1>7, <2>2, <2>3 DEF receive
<1>8. ASSUME NEW c \in Conns, disconnect(c)
      PROVE  MappingsFollowClients'
  <2>1. /\ i \in 1 .. Len(clients) /\ c \in Open /\ clients[i] = fd[c]
        /\ Open' = Open \ {c} /\ \A d \in Open' : fd'[d] = fd[d]
        /\ Len(clients') = Len(clients) - 1 /\ Len(clients) \in Nat
    BY <1>8, DisconnectEffect, LenProperties DEF Inv, LoopTypes
  <2>2. i = Len(clients)
    <3>1. vars' # vars
      <4>1. clients' # clients
        BY <2>1
      <4> QED
        BY <4>1 DEF vars, loopVars
    <3> QED
      BY <1>8, <3>1 DEF LastLeaves
  <2>3. Referred = fd[c]
    BY <2>1, <2>2 DEF Referred
  <2>4. Sockets' \subseteq Sockets \ {fd[c]}
    BY <1>8, <2>3, ErasesReferred
  <2>5. OpenFds \ {fd[c]} \subseteq OpenFds'
    BY <2>1 DEF OpenFds
  <2> QED
    BY <1>1, <1>2, <2>4, <2>5
<1>9. CASE client_manager_process_pending_tokens \/ \E id \in Ids : produce(id)
  <2>1. OpenFds' = OpenFds
    BY <1>9 DEF client_manager_process_pending_tokens, produce, kernelVars, Open, OpenFds
  <2>2. Sockets' \subseteq Sockets
    <3>1. CASE UNCHANGED client_requests
      BY <3>1
    <3>2. CASE (T!serve \/ T!endTurn) /\ ~UNCHANGED client_requests
      <4>1. client_requests' = [client_requests EXCEPT ![cursor].is_active = FALSE]
        BY <3>2 DEF T!serve, T!endTurn
      <4>2. cursor \in DOMAIN client_requests
        BY <3>2 DEF T!serve, T!endTurn, Inv, StreamInv, TP!StreamTypes, TP!Turn
      <4>3. \A k \in DOMAIN client_requests :
               client_requests'[k].client_socket = client_requests[k].client_socket
        BY <1>3, <4>1, <4>2 DEF TP!Mapping
      <4>4. DOMAIN client_requests' = DOMAIN client_requests
        BY <4>1
      <4> QED
        BY <4>3, <4>4 DEF Range
    <3>3. CASE T!endPass
      <4>1. Range(client_requests') =
               {client_requests[k] : k \in DOMAIN client_requests \ T!Inactive}
        BY <3>3, MappingsLeft DEF T!endPass, Inv
      <4> QED
        BY <4>1 DEF Range
    <3>4. UNCHANGED client_requests \/ T!serve \/ T!endTurn \/ T!endPass
      BY <1>9 DEF client_manager_process_pending_tokens, produce, T!Pass, T!beginPass,
                  T!addToken, T!addNullToken, T!markTokenStreamFinished, T!resetOutput
    <3> QED
      BY <3>1, <3>2, <3>3, <3>4
  <2> QED
    BY <1>1, <1>2, <2>1, <2>2
<1> QED
  BY NextSplit, <1>5, <1>6, <1>7, <1>8, <1>9

\* "Clean up the request mappings that belong to it" (client_manager.cpp:92)
\* is what happens as long as each client that hangs up is the last of the
\* list: the mappings name clients that are there.  The order in which clients
\* leave is all that the comment depends on.
THEOREM MappingsFollow == Spec /\ [][LastLeaves]_vars => []MappingsFollowClients
<1>1. Init => MappingsFollowClients
  BY DEF Init, T!Init, MappingsFollowClients
<1>2. ASSUME Inv, MappingsFollowClients, [Next]_vars, [LastLeaves]_vars
      PROVE  MappingsFollowClients'
  BY <1>2, MappingsStep
<1> QED
  BY <1>1, <1>2, LoopHolds, PTL DEF Spec

\* With room for one client in the list no other can move into its slot.
THEOREM OneClientIsLast ==
    ASSUME MAX_CLIENTS = 1
    PROVE  Spec => []MappingsFollowClients
<1>1. ASSUME Inv
      PROVE  LastLeaves
  <2> SUFFICES ASSUME NEW c \in Conns, disconnect(c)
               PROVE  i = Len(clients)
    BY DEF LastLeaves
  <2> QED
    BY <1>1, DisconnectEffect, LenProperties DEF Inv, LoopTypes
<1>2. Init => MappingsFollowClients
  BY DEF Init, T!Init, MappingsFollowClients
<1>3. ASSUME Inv, MappingsFollowClients, [Next]_vars
      PROVE  MappingsFollowClients'
  BY <1>1, <1>3, MappingsStep
<1> QED
  BY <1>2, <1>3, LoopHolds, PTL DEF Spec

============================================================================
