------------------------- MODULE TokenStreamProofs -------------------------
(***************************************************************************)
(* Proofs about TokenStream, for any ids and clients, any capacity and any *)
(* number of tokens.                                                       *)
(*                                                                         *)
(*   ErasedTyped    what the erasing loops leave, by induction over their  *)
(*                  turns                                                  *)
(*   TypeCorrect    types                                                  *)
(*   OrderOnce      tokens arrive in order and once                        *)
(*   BufferedSent   the careful use of a list loses no token               *)
(***************************************************************************)
EXTENDS TokenStream, SequenceTheorems, WellFoundedInduction, TLAPS

\* Induction over the natural numbers, for a set instead of a predicate.
LEMMA SetInduction ==
    ASSUME NEW S, 0 \in S, \A n \in Nat : n \in S => n + 1 \in S
    PROVE  Nat \subseteq S
<1> DEFINE R == {ss \in Nat \X Nat : ss[1] < ss[2]}
<1>1. IsWellFoundedOn(R, Nat)
  BY NatLessThanWellFounded DEF OpToRel
<1>2. \A m, n \in Nat : m < n => <<m, n>> \in R
  OBVIOUS
<1> HIDE DEF R
<1> SUFFICES ASSUME Nat \ S # {}
             PROVE  FALSE
  OBVIOUS
<1>3. PICK n \in Nat \ S : \A m \in Nat \ S : ~(<<m, n>> \in R)
  BY <1>1, WFMin
<1>4. n # 0
  OBVIOUS
<1>5. n - 1 \in Nat /\ n - 1 < n /\ n = (n - 1) + 1
  BY <1>4
<1>6. n - 1 \in S
  BY <1>2, <1>3, <1>5
<1> QED
  BY <1>5, <1>6

\* kept is the record of the first m turns of an erasing loop.
Erases(kept, requests, gone, m) ==
    kept = [n \in 0 .. m |-> IF n = 0 THEN <<>>
                             ELSE IF n \in gone THEN kept[n - 1]
                             ELSE Append(kept[n - 1], requests[n])]

\* There is such a record: the recursion of Erased defines a function.
LEMMA RecordExists ==
    ASSUME NEW requests, NEW gone, NEW m \in Nat
    PROVE  \E kept : Erases(kept, requests, gone, m)
<1> DEFINE P == {k \in Nat : \E g : Erases(g, requests, gone, k)}
<1>1. 0 \in P
  <2>1. Erases([n \in 0 .. 0 |-> <<>>], requests, gone, 0)
    BY DEF Erases
  <2> QED
    BY <2>1
<1>2. ASSUME NEW k \in Nat, k \in P
      PROVE  k + 1 \in P
  <2>1. PICK g : Erases(g, requests, gone, k)
    BY <1>2
  <2> DEFINE last == IF k + 1 \in gone THEN g[k] ELSE Append(g[k], requests[k + 1])
             h == [n \in 0 .. k + 1 |-> IF n = k + 1 THEN last ELSE g[n]]
  <2>2. /\ \A n \in 0 .. k : h[n] = g[n]
        /\ h[k + 1] = last
    OBVIOUS
  <2>3. \A n \in 0 .. k : g[n] = IF n = 0 THEN <<>>
                                 ELSE IF n \in gone THEN g[n - 1]
                                 ELSE Append(g[n - 1], requests[n])
    BY <2>1 DEF Erases
  <2>4. ASSUME NEW n \in 0 .. k + 1
        PROVE  h[n] = IF n = 0 THEN <<>>
                      ELSE IF n \in gone THEN h[n - 1]
                      ELSE Append(h[n - 1], requests[n])
    <3> HIDE DEF h
    <3>1. CASE n = k + 1
      BY <2>2, <3>1
    <3>2. CASE n \in 0 .. k
      <4>1. n # 0 => n - 1 \in 0 .. k
        BY <3>2
      <4> QED
        BY <2>2, <2>3, <3>2, <4>1
    <3> QED
      BY <3>1, <3>2
  <2>5. Erases(h, requests, gone, k + 1)
    BY <2>4 DEF Erases
  <2> HIDE DEF h
  <2> QED
    BY <2>5
<1> HIDE DEF P
<1>3. m \in P
  BY <1>1, <1>2, SetInduction
<1> QED
  BY <1>3 DEF P

\* What an erasing loop leaves has only entries that were there, and no more
\* of them: client_manager.cpp:92-96 and 149-153, whatever is erased.
LEMMA ErasedTyped ==
    ASSUME NEW S, NEW requests \in Seq(S), NEW gone
    PROVE  /\ Erased(requests, gone) \in Seq(S)
           /\ Len(Erased(requests, gone)) <= Len(requests)
<1> DEFINE g == CHOOSE kept : Erases(kept, requests, gone, Len(requests))
<1>1. Len(requests) \in Nat
  OBVIOUS
<1>2. Erased(requests, gone) = g[Len(requests)]
  BY DEF Erased, Erases
<1>3. Erases(g, requests, gone, Len(requests))
  BY <1>1, RecordExists
<1> HIDE DEF g
<1>4. g[0] = <<>>
  BY <1>1, <1>3 DEF Erases
<1> DEFINE P == {n \in Nat : n <= Len(requests) => g[n] \in Seq(S) /\ Len(g[n]) <= n}
<1>5. 0 \in P
  <2>1. <<>> \in Seq(S) /\ Len(<<>>) = 0
    OBVIOUS
  <2>2. g[0] \in Seq(S) /\ Len(g[0]) <= 0
    BY <1>4, <2>1
  <2> QED
    BY <2>2
<1>6. ASSUME NEW n \in Nat, n \in P
      PROVE  n + 1 \in P
  <2> SUFFICES ASSUME n + 1 <= Len(requests)
               PROVE  g[n + 1] \in Seq(S) /\ Len(g[n + 1]) <= n + 1
    OBVIOUS
  <2>1. /\ g[n] \in Seq(S) /\ Len(g[n]) <= n /\ Len(g[n]) \in Nat
        /\ n + 1 \in 1 .. Len(requests) /\ requests[n + 1] \in S
    BY <1>1, <1>6
  <2>2. n + 1 \in 0 .. Len(requests) /\ n + 1 # 0 /\ (n + 1) - 1 = n
    BY <2>1
  <2>3. g[n + 1] = IF n + 1 \in gone THEN g[n] ELSE Append(g[n], requests[n + 1])
    BY <1>3, <2>2 DEF Erases
  <2>4. /\ Append(g[n], requests[n + 1]) \in Seq(S)
        /\ Len(Append(g[n], requests[n + 1])) = Len(g[n]) + 1
    BY <2>1, AppendProperties
  <2> QED
    BY <2>1, <2>3, <2>4
<1> HIDE DEF P
<1>7. Len(requests) \in P
  BY <1>1, <1>5, <1>6, SetInduction
<1> QED
  BY <1>2, <1>7 DEF P

\* An erasing loop leaves exactly the entries at the places it does not erase.
LEMMA ErasedLeaves ==
    ASSUME NEW S, NEW requests \in Seq(S), NEW gone
    PROVE  Range(Erased(requests, gone)) = {requests[k] : k \in DOMAIN requests \ gone}
<1> DEFINE g == CHOOSE kept : Erases(kept, requests, gone, Len(requests))
           Left(n) == {requests[k] : k \in (1 .. n) \ gone}
<1>1. Len(requests) \in Nat /\ DOMAIN requests = 1 .. Len(requests)
  OBVIOUS
<1>2. Erased(requests, gone) = g[Len(requests)]
  BY DEF Erased, Erases
<1>3. Erases(g, requests, gone, Len(requests))
  BY <1>1, RecordExists
<1> HIDE DEF g
<1> DEFINE P == {n \in Nat : n <= Len(requests) => g[n] \in Seq(S) /\ Range(g[n]) = Left(n)}
<1>4. 0 \in P
  <2>1. g[0] = <<>>
    BY <1>1, <1>3 DEF Erases
  <2>2. Range(<<>>) = {} /\ Left(0) = {} /\ <<>> \in Seq(S)
    BY DEF Range
  <2> QED
    BY <2>1, <2>2
<1>5. ASSUME NEW n \in Nat, n \in P
      PROVE  n + 1 \in P
  <2> SUFFICES ASSUME n + 1 <= Len(requests)
               PROVE  g[n + 1] \in Seq(S) /\ Range(g[n + 1]) = Left(n + 1)
    OBVIOUS
  <2>1. /\ g[n] \in Seq(S) /\ Range(g[n]) = Left(n)
        /\ n + 1 \in 1 .. Len(requests) /\ requests[n + 1] \in S
    BY <1>1, <1>5
  <2>2. n + 1 \in 0 .. Len(requests) /\ n + 1 # 0 /\ (n + 1) - 1 = n
    BY <2>1
  <2>3. g[n + 1] = IF n + 1 \in gone THEN g[n] ELSE Append(g[n], requests[n + 1])
    BY <1>3, <2>2 DEF Erases
  <2>4. 1 .. n + 1 = (1 .. n) \cup {n + 1}
    OBVIOUS
  <2>5. Left(n + 1) = IF n + 1 \in gone THEN Left(n) ELSE Left(n) \cup {requests[n + 1]}
    BY <2>4
  <2>6. /\ Append(g[n], requests[n + 1]) \in Seq(S)
        /\ Range(Append(g[n], requests[n + 1])) = Range(g[n]) \cup {requests[n + 1]}
    <3>1. /\ Append(g[n], requests[n + 1]) \in Seq(S)
          /\ DOMAIN Append(g[n], requests[n + 1]) = (1 .. Len(g[n])) \cup {Len(g[n]) + 1}
          /\ DOMAIN g[n] = 1 .. Len(g[n])
          /\ \A k \in 1 .. Len(g[n]) : Append(g[n], requests[n + 1])[k] = g[n][k]
          /\ Append(g[n], requests[n + 1])[Len(g[n]) + 1] = requests[n + 1]
      BY <2>1, AppendProperties
    <3> QED
      BY <3>1 DEF Range
  <2> HIDE DEF Left
  <2> QED
    BY <2>1, <2>3, <2>5, <2>6
<1> HIDE DEF P
<1>6. Len(requests) \in P
  BY <1>1, <1>4, <1>5, SetInduction
<1> QED
  BY <1>1, <1>2, <1>6 DEF P

----------------------------------------------------------------------------
\* A list of an id that has had n tokens.  What the type invariant leaves out:
\* a list has no more tokens than were produced.
ListOf(list, n) == /\ list \in TokenList
                   /\ list.output_ptr <= Len(list.tokens)
                   /\ Len(list.tokens) \in 0 .. n

Lists == \A id \in Ids : HasList(id) => ListOf(token_map[id], produced[id])

\* A turn that has begun is that of a mapping whose list is still there.
Turn == served => /\ cursor \in DOMAIN client_requests
                  /\ HasList(client_requests[cursor].request_id)

StreamTypes == TypeOK /\ Lists /\ Turn

\* The calls keep a list a list, and move the pointer or append, never both.
LEMMA ListCalls ==
    ASSUME NEW n \in 0 .. MaxTokens, NEW list, ListOf(list, n)
    PROVE  /\ ListOf(AfterNextToken(list), n)
           /\ AfterNextToken(list).tokens = list.tokens
           /\ AfterNextToken(list).is_finished = list.is_finished
           /\ AfterNextToken(list).output_ptr =
                 IF list.output_ptr \in 1 .. Len(list.tokens) - 1
                 THEN list.output_ptr + 1 ELSE 0
           /\ ListOf([list EXCEPT !.is_finished = TRUE], n)
           /\ ListOf(AfterResetOutput(list), n)
           /\ AfterResetOutput(list).tokens = list.tokens
           /\ AfterResetOutput(list).is_finished = list.is_finished
           /\ AfterResetOutput(list).output_ptr = IF list.tokens = <<>> THEN 0 ELSE 1
<1> USE StreamAssumption
<1>1. PICK t \in Seq(1 .. MaxTokens), p \in 0 .. MaxTokens, f \in BOOLEAN :
         list = [tokens |-> t, output_ptr |-> p, is_finished |-> f]
  BY DEF ListOf, TokenList
<1>2. /\ list.tokens = t /\ list.output_ptr = p /\ list.is_finished = f
      /\ p <= Len(t) /\ Len(t) \in 0 .. n
  BY <1>1 DEF ListOf
<1> DEFINE q == IF p \in 1 .. Len(t) - 1 THEN p + 1 ELSE 0
           h == IF t = <<>> THEN 0 ELSE 1
<1>3. /\ q \in 0 .. MaxTokens /\ q <= Len(t)
      /\ h \in 0 .. MaxTokens /\ h <= Len(t)
  <2>1. t # <<>> => Len(t) # 0
    BY <1>1
  <2> QED
    BY <1>2, <2>1
<1>4. /\ [list EXCEPT !.is_finished = TRUE]
            = [tokens |-> t, output_ptr |-> p, is_finished |-> TRUE]
      /\ AfterResetOutput(list) = [tokens |-> t, output_ptr |-> h, is_finished |-> f]
  <2> DEFINE r == [tokens |-> t, output_ptr |-> p, is_finished |-> f]
  <2>1. \A b : [r EXCEPT !.is_finished = b]
                = [tokens |-> t, output_ptr |-> p, is_finished |-> b]
    OBVIOUS
  <2>2. \A x : [r EXCEPT !.output_ptr = x]
                = [tokens |-> t, output_ptr |-> x, is_finished |-> f]
    OBVIOUS
  <2>3. list = r /\ list.tokens = t
    BY <1>1
  <2> HIDE DEF r
  <2> QED
    BY <2>1, <2>2, <2>3 DEF AfterResetOutput
<1>5. AfterNextToken(list) = [tokens |-> t, output_ptr |-> q, is_finished |-> f]
  BY <1>1 DEF AfterNextToken
<1> HIDE DEF q, h
<1>6. ListOf([tokens |-> t, output_ptr |-> q, is_finished |-> f], n)
  BY <1>2, <1>3 DEF ListOf, TokenList
<1>7. ListOf([tokens |-> t, output_ptr |-> p, is_finished |-> TRUE], n)
  BY <1>2 DEF ListOf, TokenList
<1>8. ListOf([tokens |-> t, output_ptr |-> h, is_finished |-> f], n)
  BY <1>2, <1>3 DEF ListOf, TokenList
<1>9. q = IF list.output_ptr \in 1 .. Len(list.tokens) - 1 THEN list.output_ptr + 1 ELSE 0
  BY <1>2 DEF q
<1>10. h = IF list.tokens = <<>> THEN 0 ELSE 1
  BY <1>2 DEF h
<1> QED
  BY <1>2, <1>4, <1>5, <1>6, <1>7, <1>8, <1>9, <1>10

\* A list with other tokens.
LEMMA ListWithTokens ==
    ASSUME NEW t, NEW p, NEW f, NEW x
    PROVE  [[tokens |-> t, output_ptr |-> p, is_finished |-> f] EXCEPT !.tokens = x]
             = [tokens |-> x, output_ptr |-> p, is_finished |-> f]
OBVIOUS

\* A token appended to a sequence is its last, and the others stay.
LEMMA AppendedSeq ==
    ASSUME NEW S, NEW t \in Seq(S), NEW e \in S
    PROVE  /\ DOMAIN Append(t, e) = 1 .. Len(t) + 1
           /\ Append(t, e)[Len(t) + 1] = e
           /\ \A k \in 1 .. Len(t) : Append(t, e)[k] = t[k]
<1>1. Append(t, e) \in Seq(S) /\ Len(Append(t, e)) = Len(t) + 1
  BY AppendProperties
<1>2. DOMAIN Append(t, e) = 1 .. Len(t) + 1
  BY <1>1, LenProperties
<1>3. Append(t, e)[Len(t) + 1] = e
  BY AppendProperties
<1>4. \A k \in 1 .. Len(t) : Append(t, e)[k] = t[k]
  BY AppendProperties
<1> QED
  BY <1>2, <1>3, <1>4

\* A new list, before its first token.
LEMMA NewIsList ==
    ASSUME NEW n \in 0 .. MaxTokens
    PROVE  ListOf(NewList, n)
<1>1. <<>> \in Seq(1 .. MaxTokens) /\ Len(<<>>) = 0 /\ 0 \in 0 .. MaxTokens
  BY StreamAssumption
<1> QED
  BY <1>1 DEF ListOf, NewList, TokenList

\* addToken appends to the list there is, or to a new one.
LEMMA ListAppends ==
    ASSUME NEW n \in Nat, n < MaxTokens, NEW list,
           list = NewList \/ ListOf(list, n)
    PROVE  /\ ListOf(Appended(list, n + 1), n + 1)
           /\ Appended(list, n + 1).tokens = Append(list.tokens, n + 1)
           /\ Appended(list, n + 1).output_ptr = list.output_ptr
           /\ Appended(list, n + 1).is_finished = list.is_finished
<1> USE StreamAssumption
<1>1. PICK t \in Seq(1 .. MaxTokens), p \in 0 .. MaxTokens, f \in BOOLEAN :
         /\ list = [tokens |-> t, output_ptr |-> p, is_finished |-> f]
         /\ p <= Len(t) /\ Len(t) \in 0 .. n
  <2>1. CASE list = NewList
    <3>1. /\ <<>> \in Seq(1 .. MaxTokens) /\ Len(<<>>) = 0
          /\ list = [tokens |-> <<>>, output_ptr |-> 0, is_finished |-> FALSE]
      BY <2>1 DEF NewList
    <3>2. <<>> \in Seq(1 .. MaxTokens) /\ 0 \in 0 .. MaxTokens /\ FALSE \in BOOLEAN
      BY <3>1
    <3> WITNESS <<>> \in Seq(1 .. MaxTokens), 0 \in 0 .. MaxTokens, FALSE \in BOOLEAN
    <3> QED
      BY <3>1
  <2>2. CASE ListOf(list, n)
    BY <2>2 DEF ListOf, TokenList
  <2> QED
    BY <2>1, <2>2
<1>2. list.tokens = t /\ list.output_ptr = p /\ list.is_finished = f
  BY <1>1
<1> DEFINE u == Append(t, n + 1)
<1>3. u \in Seq(1 .. MaxTokens) /\ Len(u) = Len(t) + 1
  BY <1>1, AppendProperties
<1>4. u = Append(list.tokens, n + 1)
  BY <1>2
<1> HIDE DEF u
<1>5. Appended(list, n + 1) = [tokens |-> u, output_ptr |-> p, is_finished |-> f]
  <2> DEFINE r == [tokens |-> t, output_ptr |-> p, is_finished |-> f]
  <2>1. \A x : [r EXCEPT !.tokens = x]
                = [tokens |-> x, output_ptr |-> p, is_finished |-> f]
    BY ListWithTokens
  <2>2. list = r /\ list.tokens = t
    BY <1>1
  <2> HIDE DEF r
  <2> QED
    BY <1>4, <2>1, <2>2 DEF Appended
<1>6. ListOf([tokens |-> u, output_ptr |-> p, is_finished |-> f], n + 1)
  BY <1>1, <1>3 DEF ListOf, TokenList
<1> QED
  BY <1>2, <1>4, <1>5, <1>6

\* What the event loop sends of a list: the token at the pointer, if there is
\* one.
Out(list, id) == [k \in DOMAIN NextToken(list) |-> <<id, NextToken(list)[k]>>]

\* At most one token leaves per mapping and pass.
LEMMA OneTokenOut ==
    ASSUME NEW n \in 0 .. MaxTokens, NEW list, ListOf(list, n), NEW id \in Ids
    PROVE  /\ Out(list, id) \in Seq(Ids \X (1 .. MaxTokens))
           /\ list.output_ptr = 0 => Out(list, id) = <<>>
           /\ list.output_ptr # 0 =>
                 /\ list.output_ptr \in DOMAIN list.tokens
                 /\ Out(list, id) = <<<<id, list.tokens[list.output_ptr]>>>>
<1> USE StreamAssumption
<1>1. /\ list.tokens \in Seq(1 .. MaxTokens) /\ list.output_ptr \in 0 .. MaxTokens
      /\ list.output_ptr <= Len(list.tokens)
  BY DEF ListOf, TokenList
<1>2. CASE list.output_ptr = 0
  <2>1. NextToken(list) = <<>>
    BY <1>2 DEF NextToken
  <2>2. Out(list, id) = <<>>
    BY <2>1 DEF Out
  <2> QED
    BY <1>2, <2>2
<1>3. CASE list.output_ptr # 0
  <2> DEFINE token == list.tokens[list.output_ptr]
  <2>1. list.output_ptr \in DOMAIN list.tokens /\ token \in 1 .. MaxTokens
    BY <1>1, <1>3
  <2>2. NextToken(list) = <<token>>
    BY <1>3 DEF NextToken
  <2> HIDE DEF token
  <2>3. Out(list, id) = <<<<id, token>>>>
    BY <2>2 DEF Out
  <2>4. <<id, token>> \in Ids \X (1 .. MaxTokens)
    BY <2>1
  <2>5. <<<<id, token>>>> \in Seq(Ids \X (1 .. MaxTokens))
    BY <2>4
  <2> QED
    BY <1>3, <2>1, <2>3, <2>5 DEF token
<1> QED
  BY <1>2, <1>3

\* A call that changes one list leaves the map typed if that list is in order.
LEMMA MapUpdate ==
    ASSUME StreamTypes, NEW id \in Ids, NEW list,
           token_map' = [token_map EXCEPT ![id] = list],
           produced' \in [Ids -> 0 .. MaxTokens],
           \A j \in Ids \ {id} : produced'[j] = produced[j],
           list = nullptr \/ ListOf(list, produced'[id])
    PROVE  /\ token_map' \in [Ids -> TokenList \cup {nullptr}]
           /\ \A j \in Ids : HasList(j)' => ListOf(token_map'[j], produced'[j])
           /\ token_map'[id] = list
           /\ \A j \in Ids \ {id} : token_map'[j] = token_map[j]
<1>1. list \in TokenList \cup {nullptr}
  BY DEF ListOf
<1>2. /\ token_map' \in [Ids -> TokenList \cup {nullptr}]
      /\ token_map'[id] = list
      /\ \A j \in Ids \ {id} : token_map'[j] = token_map[j]
  BY <1>1 DEF StreamTypes, TypeOK
<1>3. ASSUME NEW j \in Ids, HasList(j)'
      PROVE  ListOf(token_map'[j], produced'[j])
  <2>1. CASE j = id
    BY <1>2, <1>3, <2>1 DEF HasList
  <2>2. CASE j # id
    BY <1>2, <1>3, <2>2 DEF StreamTypes, Lists, HasList
  <2> QED
    BY <2>1, <2>2
<1> QED
  BY <1>2, <1>3

\* A mapping that is dropped stays where it is until the pass has ended.
LEMMA DroppedTyped ==
    ASSUME NEW requests \in Seq(Mapping), NEW k \in DOMAIN requests
    PROVE  LET dropped == [requests EXCEPT ![k].is_active = FALSE]
           IN  /\ dropped \in Seq(Mapping) /\ Len(dropped) = Len(requests)
               /\ \A j \in DOMAIN requests : dropped[j].request_id = requests[j].request_id
<1> DEFINE n == Len(requests)
           new == [requests[k] EXCEPT !.is_active = FALSE]
           dropped == [requests EXCEPT ![k] = new]
<1>1. /\ n \in Nat /\ DOMAIN requests = 1 .. n /\ requests \in [1 .. n -> Mapping]
  OBVIOUS
<1>2. requests[k] \in Mapping
  BY <1>1
<1>3. new \in Mapping /\ new.request_id = requests[k].request_id
  BY <1>2 DEF Mapping
<1>4. [requests EXCEPT ![k].is_active = FALSE] = dropped
  OBVIOUS
<1> HIDE DEF new
<1>5. /\ dropped \in [1 .. n -> Mapping] /\ dropped[k] = new
      /\ \A j \in 1 .. n : j # k => dropped[j] = requests[j]
  BY <1>1, <1>3
<1>6. dropped \in Seq(Mapping) /\ Len(dropped) = n
  BY <1>1, <1>5
<1>7. \A j \in DOMAIN requests : dropped[j].request_id = requests[j].request_id
  BY <1>1, <1>3, <1>5
<1> QED
  BY <1>4, <1>6, <1>7

\* What a turn leaves of a list when its token has gone out.
Moved(list) == IF hasMoreTokens(list) THEN AfterNextToken(list) ELSE list

\* A turn begins: a mapping is dropped, or the list gives its token.
LEMMA ServeSplit ==
    ASSUME StreamTypes, serve
    PROVE  LET req  == client_requests[cursor]
               id   == req.request_id
               list == token_map[id]
           IN  /\ id \in Ids /\ req.client_socket \in Clients
               /\ UNCHANGED <<produced, ended, rewound>>
               /\ cursor' \in 0 .. MAX_CLIENTS + 1
               /\ client_requests' \in Seq(Mapping)
               /\ Len(client_requests') = Len(client_requests)
               /\ \A k \in DOMAIN client_requests :
                     client_requests'[k].request_id = client_requests[k].request_id
               /\ \/ UNCHANGED <<token_map, sent>> /\ served' = FALSE
                  \/ /\ HasList(id) /\ ListOf(list, produced[id])
                     /\ sent' = [sent EXCEPT ![req.client_socket] =
                                   IF hasMoreTokens(list) THEN @ \o Out(list, id) ELSE @]
                     /\ token_map' = [token_map EXCEPT ![id] = Moved(list)]
                     /\ UNCHANGED <<cursor, client_requests>> /\ served' = TRUE
<1> DEFINE req  == client_requests[cursor]
           id   == req.request_id
           list == token_map[id]
           n    == Len(client_requests)
<1>1. /\ cursor \in DOMAIN client_requests /\ cursor' \in {cursor, cursor + 1}
      /\ UNCHANGED <<produced, ended, rewound>>
      /\ \/ client_requests' = client_requests
         \/ client_requests' = [client_requests EXCEPT ![cursor].is_active = FALSE]
      /\ \/ UNCHANGED <<token_map, sent>> /\ served' = FALSE
         \/ /\ HasList(id)
            /\ sent' = [sent EXCEPT ![req.client_socket] =
                          IF hasMoreTokens(list) THEN @ \o Out(list, id) ELSE @]
            /\ token_map' = [token_map EXCEPT ![id] = Moved(list)]
            /\ UNCHANGED <<cursor, client_requests>> /\ served' = TRUE
  BY DEF serve, Out, Moved, StreamTypes, TypeOK
<1>2. /\ client_requests \in Seq(Mapping) /\ n \in Nat /\ n <= MAX_CLIENTS
      /\ DOMAIN client_requests = 1 .. n /\ cursor \in 1 .. n
  BY <1>1 DEF StreamTypes, TypeOK
<1>3. req \in Mapping
  BY <1>2
<1>4. id \in Ids /\ req.client_socket \in Clients
  BY <1>3 DEF Mapping
<1>5. cursor' \in 0 .. MAX_CLIENTS + 1
  BY <1>1, <1>2, StreamAssumption
<1>6. /\ client_requests' \in Seq(Mapping) /\ Len(client_requests') = n
      /\ \A k \in DOMAIN client_requests :
            client_requests'[k].request_id = client_requests[k].request_id
  <2>1. CASE client_requests' = client_requests
    BY <1>2, <2>1
  <2>2. CASE client_requests' = [client_requests EXCEPT ![cursor].is_active = FALSE]
    BY <1>2, <2>2, DroppedTyped
  <2> QED
    BY <1>1, <2>1, <2>2
<1>7. HasList(id) => ListOf(list, produced[id])
  BY <1>4 DEF StreamTypes, Lists
<1> QED
  BY <1>1, <1>4, <1>5, <1>6, <1>7

\* A turn ends: the list goes if it is through, and its mapping is dropped.
LEMMA EndTurnSplit ==
    ASSUME StreamTypes, endTurn
    PROVE  LET id   == client_requests[cursor].request_id
               list == token_map[id]
           IN  /\ id \in Ids /\ HasList(id) /\ ListOf(list, produced[id])
               /\ UNCHANGED <<produced, ended, sent>> /\ served' = FALSE
               /\ cursor' \in 0 .. MAX_CLIENTS + 1
               /\ client_requests' \in Seq(Mapping)
               /\ Len(client_requests') = Len(client_requests)
               /\ \A k \in DOMAIN client_requests :
                     client_requests'[k].request_id = client_requests[k].request_id
               /\ \/ UNCHANGED <<token_map, rewound>>
                  \/ /\ list.is_finished /\ list.output_ptr = 0
                     /\ token_map' = [token_map EXCEPT ![id] = nullptr]
                     /\ rewound' = rewound \ {id}
<1> DEFINE id   == client_requests[cursor].request_id
           list == token_map[id]
           n    == Len(client_requests)
<1>1. /\ cursor \in DOMAIN client_requests /\ HasList(id)
  BY DEF endTurn, StreamTypes, Turn
<1>2. /\ client_requests \in Seq(Mapping) /\ n \in Nat /\ n <= MAX_CLIENTS
      /\ DOMAIN client_requests = 1 .. n /\ cursor \in 1 .. n
  BY <1>1 DEF StreamTypes, TypeOK
<1>3. client_requests[cursor] \in Mapping
  BY <1>2
<1>4. id \in Ids
  BY <1>3 DEF Mapping
<1>5. /\ UNCHANGED <<produced, ended, sent>> /\ served' = FALSE
      /\ cursor' = cursor + 1
      /\ \/ UNCHANGED <<token_map, rewound, client_requests>>
         \/ /\ list.is_finished /\ list.output_ptr = 0
            /\ token_map' = [token_map EXCEPT ![id] = nullptr]
            /\ rewound' = rewound \ {id}
            /\ client_requests' = [client_requests EXCEPT ![cursor].is_active = FALSE]
  BY DEF endTurn, isCompletelyFinished
<1>6. cursor' \in 0 .. MAX_CLIENTS + 1
  BY <1>2, <1>5, StreamAssumption
<1>7. /\ client_requests' \in Seq(Mapping) /\ Len(client_requests') = n
      /\ \A k \in DOMAIN client_requests :
            client_requests'[k].request_id = client_requests[k].request_id
  <2>1. CASE client_requests' = client_requests
    BY <1>2, <2>1
  <2>2. CASE client_requests' = [client_requests EXCEPT ![cursor].is_active = FALSE]
    BY <1>2, <2>2, DroppedTyped
  <2> QED
    BY <1>5, <2>1, <2>2
<1>8. ListOf(list, produced[id])
  BY <1>1, <1>4 DEF StreamTypes, Lists
<1> QED
  BY <1>1, <1>4, <1>5, <1>6, <1>7, <1>8

\* What a turn leaves of a list is a list that has not gained a token.
LEMMA MovedIsList ==
    ASSUME NEW n \in 0 .. MaxTokens, NEW list, ListOf(list, n)
    PROVE  /\ ListOf(Moved(list), n)
           /\ Moved(list).tokens = list.tokens
           /\ Moved(list).is_finished = list.is_finished
           /\ Moved(list).output_ptr = AfterNextToken(list).output_ptr
<1>1. /\ ListOf(AfterNextToken(list), n)
      /\ AfterNextToken(list).tokens = list.tokens
      /\ AfterNextToken(list).is_finished = list.is_finished
      /\ AfterNextToken(list).output_ptr =
            IF list.output_ptr \in 1 .. Len(list.tokens) - 1
            THEN list.output_ptr + 1 ELSE 0
  BY ListCalls
<1>2. ~hasMoreTokens(list) => list.output_ptr = 0
  BY DEF hasMoreTokens
<1>3. list.output_ptr = 0 => AfterNextToken(list).output_ptr = 0
  BY <1>1
<1> QED
  BY <1>1, <1>2, <1>3 DEF Moved

\* The types are kept by each call of the producer, of the listener and of the
\* pass.
LEMMA TypeStep ==
    ASSUME StreamTypes, [Next]_streamVars
    PROVE  StreamTypes'
<1> USE StreamAssumption
<1>0. /\ token_map \in [Ids -> TokenList \cup {nullptr}]
      /\ client_requests \in Seq(Mapping) /\ Len(client_requests) \in 0 .. MAX_CLIENTS
      /\ cursor \in 0 .. MAX_CLIENTS + 1 /\ served \in BOOLEAN
      /\ produced \in [Ids -> 0 .. MaxTokens]
      /\ ended \subseteq Ids /\ rewound \subseteq Ids
      /\ sent \in [Clients -> Seq(Ids \X (1 .. MaxTokens))]
      /\ \A id \in Ids : HasList(id) => ListOf(token_map[id], produced[id])
  BY DEF StreamTypes, TypeOK, Lists
<1> DEFINE MapOK == /\ token_map' \in [Ids -> TokenList \cup {nullptr}]
                    /\ \A id \in Ids : HasList(id)' => ListOf(token_map'[id], produced'[id])
           RestOK == /\ client_requests' \in Seq(Mapping)
                     /\ Len(client_requests') <= MAX_CLIENTS
                     /\ cursor' \in 0 .. MAX_CLIENTS + 1 /\ served' \in BOOLEAN
                     /\ produced' \in [Ids -> 0 .. MaxTokens]
                     /\ ended' \subseteq Ids /\ rewound' \subseteq Ids
                     /\ sent' \in [Clients -> Seq(Ids \X (1 .. MaxTokens))]
<1>a. MapOK /\ RestOK /\ Turn' => StreamTypes'
  BY DEF StreamTypes, TypeOK, Lists, ListOf
<1>b. token_map' = token_map /\ produced' = produced => MapOK
  BY <1>0 DEF HasList
\* The list of the turn stays unless the turn itself deletes it.
<1>c. ASSUME UNCHANGED <<cursor, served, client_requests>>,
             \A id \in Ids : HasList(id) => HasList(id)'
      PROVE  Turn'
  <2>1. served => /\ cursor \in DOMAIN client_requests
                  /\ HasList(client_requests[cursor].request_id)
    BY DEF StreamTypes, Turn
  <2>2. served => client_requests[cursor].request_id \in Ids
    <3>1. served => client_requests[cursor] \in Mapping
      BY <1>0, <2>1
    <3> QED
      BY <3>1 DEF Mapping
  <2> QED
    BY <1>c, <2>1, <2>2 DEF Turn, HasList
<1>d. ~served' => Turn'
  BY DEF Turn
<1>e. served => cursor \in 1 .. Len(client_requests)
  BY <1>0 DEF StreamTypes, Turn
<1>1. CASE UNCHANGED streamVars
  <2>1. RestOK
    BY <1>0, <1>1 DEF streamVars
  <2>2. Turn'
    BY <1>1, <1>c DEF streamVars, HasList
  <2> QED
    BY <1>1, <1>a, <1>b, <2>1, <2>2 DEF streamVars
<1>2. ASSUME NEW id \in Ids, addToken(id)
      PROVE  StreamTypes'
  <2> DEFINE old == IF HasList(id) THEN token_map[id] ELSE NewList
             n   == produced[id]
  <2>1. n \in Nat /\ n < MaxTokens /\ (old = NewList \/ ListOf(old, n))
    BY <1>0, <1>2 DEF addToken
  <2>2. /\ token_map' = [token_map EXCEPT ![id] = Appended(old, n + 1)]
        /\ produced' = [produced EXCEPT ![id] = n + 1]
        /\ UNCHANGED <<client_requests, cursor, served, ended, rewound, sent>>
    BY <1>2 DEF addToken
  <2> HIDE DEF old
  <2>3. ListOf(Appended(old, n + 1), n + 1)
    BY <2>1, ListAppends
  <2>4. /\ produced' \in [Ids -> 0 .. MaxTokens] /\ produced'[id] = n + 1
        /\ \A j \in Ids \ {id} : produced'[j] = produced[j]
    BY <1>0, <2>1, <2>2
  <2>5. /\ MapOK /\ token_map'[id] = Appended(old, n + 1)
        /\ \A j \in Ids \ {id} : token_map'[j] = token_map[j]
    BY <2>2, <2>3, <2>4, MapUpdate
  <2>6. RestOK
    BY <1>0, <2>2, <2>4
  <2>7. token_map'[id] # nullptr
    BY <2>3, <2>5, NullAssumption DEF ListOf
  <2>8. Turn'
    <3>1. \A j \in Ids : HasList(j) => HasList(j)'
      BY <2>5, <2>7 DEF HasList
    <3> QED
      BY <1>c, <2>2, <3>1
  <2> QED
    BY <1>a, <2>5, <2>6, <2>8
<1>8. ASSUME NEW id \in Ids, addNullToken(id)
      PROVE  StreamTypes'
  <2>1. RestOK /\ produced' = produced /\ token_map' = [token_map EXCEPT ![id] = NewList]
    BY <1>0, <1>8 DEF addNullToken
  <2>2. ListOf(NewList, produced[id])
    BY <1>0, NewIsList
  <2>3. MapOK /\ \A j \in Ids \ {id} : token_map'[j] = token_map[j]
    BY <1>0, <2>1, <2>2, MapUpdate
  <2>4. ~HasList(id) /\ UNCHANGED <<cursor, served, client_requests>>
    BY <1>8 DEF addNullToken
  <2>5. Turn'
    BY <1>c, <2>3, <2>4 DEF HasList
  <2> QED
    BY <1>a, <2>1, <2>3, <2>5
<1>3. ASSUME NEW id \in Ids, markTokenStreamFinished(id) \/ resetOutput(id)
      PROVE  StreamTypes'
  <2>1. RestOK /\ produced' = produced
    BY <1>0, <1>3 DEF markTokenStreamFinished, resetOutput
  <2>2. CASE HasList(id)
    <3>1. PICK list : /\ token_map' = [token_map EXCEPT ![id] = list]
                      /\ \/ list = [token_map[id] EXCEPT !.is_finished = TRUE]
                         \/ list = AfterResetOutput(token_map[id])
      BY <1>3, <2>2 DEF markTokenStreamFinished, resetOutput
    <3>2. ListOf(list, produced[id])
      <4>1. ListOf(token_map[id], produced[id]) /\ produced[id] \in 0 .. MaxTokens
        BY <1>0, <2>2
      <4>2. /\ ListOf([token_map[id] EXCEPT !.is_finished = TRUE], produced[id])
            /\ ListOf(AfterResetOutput(token_map[id]), produced[id])
        BY <4>1, ListCalls
      <4> QED
        BY <3>1, <4>2
    <3>3. /\ MapOK /\ token_map'[id] = list
          /\ \A j \in Ids \ {id} : token_map'[j] = token_map[j]
      BY <1>0, <2>1, <3>1, <3>2, MapUpdate
    <3>4. token_map'[id] # nullptr
      BY <3>2, <3>3, NullAssumption DEF ListOf
    <3>5. \A j \in Ids : HasList(j) => HasList(j)'
      BY <3>3, <3>4 DEF HasList
    <3>6. Turn'
      BY <1>3, <1>c, <3>5 DEF markTokenStreamFinished, resetOutput
    <3> QED
      BY <1>a, <2>1, <3>3, <3>6
  <2>3. CASE ~HasList(id)
    <3>1. token_map' = token_map
      BY <1>3, <2>3 DEF markTokenStreamFinished, resetOutput
    <3>2. Turn'
      BY <1>3, <1>c, <3>1 DEF markTokenStreamFinished, resetOutput, HasList
    <3> QED
      BY <1>a, <1>b, <2>1, <3>1, <3>2
  <2> QED
    BY <2>2, <2>3
<1>4. ASSUME NEW id \in Ids, NEW client \in Clients, registerRequest(client, id)
      PROVE  StreamTypes'
  <2> DEFINE m == [client_socket |-> client, request_id |-> id, is_active |-> TRUE]
  <2>1. m \in Mapping
    BY DEF Mapping
  <2>2. /\ client_requests' = Append(client_requests, m)
        /\ Len(client_requests) < MAX_CLIENTS
        /\ cursor = 0
        /\ UNCHANGED <<token_map, cursor, served, produced, ended, rewound, sent>>
    BY <1>4 DEF registerRequest
  <2> HIDE DEF m
  <2>3. client_requests' \in Seq(Mapping) /\ Len(client_requests') <= MAX_CLIENTS
    BY <1>0, <2>1, <2>2, AppendProperties
  <2>4. RestOK
    BY <1>0, <2>2, <2>3
  <2>5. ~served'
    BY <1>e, <2>2
  <2> QED
    BY <1>a, <1>b, <1>d, <2>2, <2>4, <2>5
<1>5. CASE beginPass
  <2>1. RestOK /\ token_map' = token_map /\ produced' = produced
    BY <1>0, <1>5 DEF beginPass
  <2>2. ~served'
    BY <1>5, <1>e DEF beginPass
  <2> QED
    BY <1>a, <1>b, <1>d, <2>1, <2>2
<1>6. CASE serve
  <2> DEFINE req  == client_requests[cursor]
             id   == req.request_id
             list == token_map[id]
             c    == req.client_socket
  <2>1. /\ id \in Ids /\ c \in Clients
        /\ UNCHANGED <<produced, ended, rewound>>
        /\ cursor' \in 0 .. MAX_CLIENTS + 1
        /\ client_requests' \in Seq(Mapping)
        /\ Len(client_requests') = Len(client_requests)
        /\ \/ UNCHANGED <<token_map, sent>> /\ served' = FALSE
           \/ /\ HasList(id) /\ ListOf(list, produced[id])
              /\ sent' = [sent EXCEPT ![c] = IF hasMoreTokens(list) THEN @ \o Out(list, id) ELSE @]
              /\ token_map' = [token_map EXCEPT ![id] = Moved(list)]
              /\ UNCHANGED <<cursor, client_requests>> /\ served' = TRUE
    BY <1>6, ServeSplit
  <2> HIDE DEF list, c
  <2>2. CASE UNCHANGED <<token_map, sent>> /\ served' = FALSE
    <3>a. served' \in BOOLEAN
      BY <2>2
    <3>1. RestOK
      BY <1>0, <2>1, <2>2, <3>a
    <3> QED
      BY <1>a, <1>b, <1>d, <2>1, <2>2, <3>1
  <2>3. CASE /\ HasList(id) /\ ListOf(list, produced[id])
             /\ sent' = [sent EXCEPT ![c] = IF hasMoreTokens(list) THEN @ \o Out(list, id) ELSE @]
             /\ token_map' = [token_map EXCEPT ![id] = Moved(list)]
             /\ UNCHANGED <<cursor, client_requests>> /\ served' = TRUE
    <3>0. cursor \in DOMAIN client_requests
      BY <1>6 DEF serve
    <3>a. client_requests'[cursor'].request_id = id
      BY <2>3
    <3> HIDE DEF req, id
    <3>1. produced[id] \in 0 .. MaxTokens
      BY <1>0, <2>1
    <3>2. ListOf(Moved(list), produced[id])
      BY <2>3, <3>1, MovedIsList
    <3>3. MapOK /\ token_map'[id] = Moved(list)
      BY <1>0, <2>1, <2>3, <3>2, MapUpdate
    <3>4. sent[c] \o Out(list, id) \in Seq(Ids \X (1 .. MaxTokens))
      <4>1. /\ Out(list, id) \in Seq(Ids \X (1 .. MaxTokens))
            /\ sent[c] \in Seq(Ids \X (1 .. MaxTokens))
        BY <1>0, <2>1, <2>3, <3>1, OneTokenOut
      <4> QED
        BY <4>1, ConcatProperties
    <3>5. sent' \in [Clients -> Seq(Ids \X (1 .. MaxTokens))]
      BY <1>0, <2>1, <2>3, <3>4
    <3>6. RestOK
      BY <1>0, <2>1, <2>3, <3>5
    <3>7. token_map'[id] # nullptr
      BY <3>2, <3>3, NullAssumption DEF ListOf
    <3>8. Turn'
      BY <2>3, <3>0, <3>a, <3>7 DEF Turn, HasList
    <3> QED
      BY <1>a, <3>3, <3>6, <3>8
  <2> QED
    BY <2>1, <2>2, <2>3
<1>9. CASE endTurn
  <2> DEFINE id   == client_requests[cursor].request_id
             list == token_map[id]
  <2>1. /\ id \in Ids
        /\ UNCHANGED <<produced, ended, sent>> /\ served' = FALSE
        /\ cursor' \in 0 .. MAX_CLIENTS + 1
        /\ client_requests' \in Seq(Mapping)
        /\ Len(client_requests') = Len(client_requests)
        /\ \/ UNCHANGED <<token_map, rewound>>
           \/ /\ token_map' = [token_map EXCEPT ![id] = nullptr]
              /\ rewound' = rewound \ {id}
    BY <1>9, EndTurnSplit
  <2> HIDE DEF id, list
  <2>a. served' \in BOOLEAN
    BY <2>1
  <2>b. rewound' \subseteq Ids
    BY <1>0, <2>1
  <2>2. RestOK
    BY <1>0, <2>1, <2>a, <2>b
  <2>3. MapOK
    <3>1. CASE token_map' = token_map
      BY <1>b, <2>1, <3>1
    <3>2. CASE token_map' = [token_map EXCEPT ![id] = nullptr]
      BY <1>0, <2>1, <3>2, MapUpdate
    <3> QED
      BY <2>1, <3>1, <3>2
  <2> QED
    BY <1>a, <1>d, <2>1, <2>2, <2>3
<1>7. CASE endPass
  <2>1. /\ client_requests' \in Seq(Mapping)
        /\ Len(client_requests') <= Len(client_requests) /\ Len(client_requests') \in Nat
    BY <1>0, <1>7, ErasedTyped DEF endPass
  <2>2. RestOK /\ token_map' = token_map /\ produced' = produced
    BY <1>0, <1>7, <2>1 DEF endPass
  <2>3. ~served'
    BY <1>0, <1>7, <1>e DEF endPass
  <2> QED
    BY <1>a, <1>b, <1>d, <2>2, <2>3
<1> QED
  BY <1>1, <1>2, <1>3, <1>4, <1>5, <1>6, <1>7, <1>8, <1>9 DEF Next, Pass

\* Everything has its type before anything has been sent.
LEMMA TypesInit == Init => StreamTypes
<1> SUFFICES ASSUME Init
             PROVE  StreamTypes
  OBVIOUS
<1>1. /\ <<>> \in Seq(Mapping) /\ Len(<<>>) = 0
      /\ <<>> \in Seq(Ids \X (1 .. MaxTokens))
  OBVIOUS
<1>2. Turn /\ served \in BOOLEAN
  BY DEF Init, Turn
<1>3. Lists /\ \A id \in Ids : ~HasList(id)
  BY DEF Init, Lists, HasList
<1> QED
  BY <1>1, <1>2, <1>3, StreamAssumption DEF Init, StreamTypes, TypeOK

\* Lists, mappings and what has been sent keep their types (task_manager.h:37,
\* client_manager.cpp:119), whatever calls the producer makes and when.
THEOREM TypeCorrect == Spec => []TypeOK
<1>1. StreamTypes /\ [Next]_streamVars => StreamTypes'
  BY TypeStep
<1>2. StreamTypes => TypeOK
  BY DEF StreamTypes
<1> QED
  BY TypesInit, <1>1, <1>2, PTL DEF Spec

----------------------------------------------------------------------------
\* The tokens of a list are those of its id in the order of production.
Growing(tokens, n) ==
    /\ \A j, k \in DOMAIN tokens : j < k => tokens[j] < tokens[k]
    /\ \A k \in DOMAIN tokens : tokens[k] <= n

\* A token that has been sent is older than what the pointer of its list has
\* yet to come to, and than all of a list that has not been rewound: that is
\* why a list that is made anew, or rewound once, repeats nothing.
OrderOf(id) ==
    /\ id \in rewound => HasList(id)
    /\ HasList(id) => /\ Growing(token_map[id].tokens, produced[id])
                      /\ id \notin rewound => token_map[id].output_ptr = 0
    /\ \A t \in SentTokens(id) :
          /\ t <= produced[id]
          /\ HasList(id) /\ id \notin rewound /\ token_map[id].tokens # <<>> =>
                t < token_map[id].tokens[1]
          /\ HasList(id) /\ token_map[id].output_ptr # 0 =>
                t < token_map[id].tokens[token_map[id].output_ptr]

OrderInv == InOrderOnce /\ \A id \in Ids : OrderOf(id)

\* One more token has been sent.
LEMMA SentGrows ==
    ASSUME StreamTypes, NEW id \in Ids, NEW c \in Clients, NEW token \in 1 .. MaxTokens,
           sent' = [sent EXCEPT ![c] = @ \o <<<<id, token>>>>]
    PROVE  /\ SentTokens(id)' = SentTokens(id) \cup {token}
           /\ \A j \in Ids \ {id} : SentTokens(j)' = SentTokens(j)
           /\ InOrderOnce /\ (\A t \in SentTokens(id) : t < token) => InOrderOnce'
<1> DEFINE e == <<id, token>>
           n == Len(sent[c])
           old == sent[c]
           new == sent[c] \o <<e>>
<1>1. /\ sent \in [Clients -> Seq(Ids \X (1 .. MaxTokens))]
      /\ old \in Seq(Ids \X (1 .. MaxTokens))
      /\ e \in Ids \X (1 .. MaxTokens) /\ e[1] = id /\ e[2] = token
      /\ n \in Nat /\ DOMAIN old = 1 .. n
  BY DEF StreamTypes, TypeOK
<1> HIDE DEF e
<1>2. /\ <<e>> \in Seq(Ids \X (1 .. MaxTokens)) /\ Len(<<e>>) = 1 /\ <<e>>[1] = e
  BY <1>1
<1>3. /\ DOMAIN new = 1 .. n + 1 /\ new[n + 1] = e
      /\ \A k \in 1 .. n : new[k] = old[k]
  BY <1>1, <1>2, ConcatProperties
<1>4. /\ sent'[c] = new
      /\ \A d \in Clients \ {c} : sent'[d] = sent[d]
  BY <1>1 DEF e
<1> HIDE DEF new, old, n
<1>5. \A k \in 1 .. n + 1 : k \in 1 .. n \/ k = n + 1
  BY <1>1
<1>6. Range(new) = Range(old) \cup {e}
  <2>1. \A x : x \in Range(new) <=> \E k \in 1 .. n + 1 : x = new[k]
    BY <1>3 DEF Range
  <2>2. \A x : x \in Range(old) <=> \E k \in 1 .. n : x = old[k]
    BY <1>1 DEF Range
  <2>3. \A k \in 1 .. n : k \in 1 .. n + 1
    BY <1>1
  <2>4. n + 1 \in 1 .. n + 1
    BY <1>1
  <2> QED
    BY <1>3, <1>5, <2>1, <2>2, <2>3, <2>4
<1>7. \A x : (\E d \in Clients : x \in Range(sent'[d]))
                <=> (x = e \/ \E d \in Clients : x \in Range(sent[d]))
  BY <1>4, <1>6 DEF old
<1>8. SentTokens(id)' = SentTokens(id) \cup {token}
  <2>1. \A t : <<id, t>> = e <=> t = token
    BY DEF e
  <2>2. \A t : (\E d \in Clients : <<id, t>> \in Range(sent'[d]))
                 <=> (t = token \/ \E d \in Clients : <<id, t>> \in Range(sent[d]))
    BY <1>7, <2>1
  <2> QED
    BY <2>2 DEF SentTokens
<1>9. \A j \in Ids \ {id} : SentTokens(j)' = SentTokens(j)
  <2>1. \A j \in Ids \ {id} : \A t : <<j, t>> # e
    BY DEF e
  <2> TAKE j \in Ids \ {id}
  <2>2. \A t : (\E d \in Clients : <<j, t>> \in Range(sent'[d]))
                 <=> \E d \in Clients : <<j, t>> \in Range(sent[d])
    BY <1>7, <2>1
  <2> QED
    BY <2>2 DEF SentTokens
<1>10. ASSUME InOrderOnce, \A t \in SentTokens(id) : t < token
       PROVE  InOrderOnce'
  <2> SUFFICES ASSUME NEW d \in Clients, NEW j \in DOMAIN sent'[d], NEW k \in DOMAIN sent'[d],
                      j < k, sent'[d][j][1] = sent'[d][k][1]
               PROVE  sent'[d][j][2] < sent'[d][k][2]
    BY DEF InOrderOnce
  <2>1. CASE d # c
    BY <1>4, <1>10, <2>1 DEF InOrderOnce
  <2>2. CASE d = c
    <3>1. j \in 1 .. n /\ (k \in 1 .. n \/ k = n + 1)
      BY <1>1, <1>3, <1>4, <2>2
    <3>2. CASE k \in 1 .. n
      <4>1. sent'[d][j] = sent[c][j] /\ sent'[d][k] = sent[c][k]
        BY <1>3, <1>4, <2>2, <3>1, <3>2 DEF old
      <4>2. j \in DOMAIN sent[c] /\ k \in DOMAIN sent[c]
        BY <1>1, <3>1, <3>2 DEF old
      <4> QED
        BY <1>10, <4>1, <4>2 DEF InOrderOnce
    <3>3. CASE k = n + 1
      <4>1. sent'[d][j] = old[j] /\ sent'[d][k] = e
        BY <1>3, <1>4, <2>2, <3>1, <3>3
      <4>2. old[j][1] = id /\ old[j] \in Ids \X (1 .. MaxTokens)
        <5>1. old[j] \in Ids \X (1 .. MaxTokens)
          BY <1>1, <3>1, ElementOfSeq
        <5> QED
          BY <1>1, <4>1, <5>1
      <4>3. old[j] = <<id, old[j][2]>> /\ old[j][2] \in 1 .. MaxTokens
        BY <4>2
      <4>4. old[j] \in Range(sent[c])
        BY <1>1, <3>1 DEF Range, old
      <4>5. old[j][2] \in SentTokens(id)
        BY <4>3, <4>4 DEF SentTokens
      <4> QED
        BY <1>1, <1>10, <4>1, <4>5
    <3> QED
      BY <3>1, <3>2, <3>3
  <2> QED
    BY <2>1, <2>2
<1> QED
  BY <1>8, <1>9, <1>10

\* What a pass over one mapping does to the list of its request.
ServedId == client_requests[cursor].request_id

LEMMA ServeEffect ==
    ASSUME StreamTypes, serve
    PROVE  LET list == token_map[ServedId]
               ptr  == IF list.output_ptr \in 1 .. Len(list.tokens) - 1
                       THEN list.output_ptr + 1 ELSE 0
           IN  /\ ServedId \in Ids
               /\ UNCHANGED <<produced, ended, rewound>>
               /\ \/ UNCHANGED <<token_map, sent>>
                  \/ /\ HasList(ServedId) /\ ListOf(list, produced[ServedId])
                     /\ \A j \in Ids \ {ServedId} : token_map'[j] = token_map[j]
                     /\ token_map'[ServedId] # nullptr
                     /\ token_map'[ServedId].tokens = list.tokens
                     /\ token_map'[ServedId].is_finished = list.is_finished
                     /\ token_map'[ServedId].output_ptr = ptr
                     /\ \/ list.output_ptr = 0 /\ sent' = sent
                        \/ /\ list.output_ptr \in DOMAIN list.tokens
                           /\ \E c \in Clients : sent' =
                                 [sent EXCEPT ![c] =
                                    @ \o <<<<ServedId, list.tokens[list.output_ptr]>>>>]
<1> DEFINE req  == client_requests[cursor]
           id   == req.request_id
           list == token_map[id]
           c    == req.client_socket
           ptr  == IF list.output_ptr \in 1 .. Len(list.tokens) - 1
                   THEN list.output_ptr + 1 ELSE 0
<1>1. /\ id \in Ids /\ c \in Clients
      /\ UNCHANGED <<produced, ended, rewound>>
      /\ \/ UNCHANGED <<token_map, sent>>
         \/ /\ HasList(id) /\ ListOf(list, produced[id])
            /\ sent' = [sent EXCEPT ![c] = IF hasMoreTokens(list) THEN @ \o Out(list, id) ELSE @]
            /\ token_map' = [token_map EXCEPT ![id] = Moved(list)]
  BY ServeSplit
<1> HIDE DEF id, list, c
<1>a. ServedId = id /\ list = token_map[id]
  BY DEF ServedId, id, list
<1>2. ASSUME HasList(id), ListOf(list, produced[id]),
             sent' = [sent EXCEPT ![c] = IF hasMoreTokens(list) THEN @ \o Out(list, id) ELSE @],
             token_map' = [token_map EXCEPT ![id] = Moved(list)]
      PROVE  /\ \A j \in Ids \ {id} : token_map'[j] = token_map[j]
             /\ token_map'[id] # nullptr
             /\ token_map'[id].tokens = list.tokens
             /\ token_map'[id].is_finished = list.is_finished
             /\ token_map'[id].output_ptr = ptr
             /\ \/ list.output_ptr = 0 /\ sent' = sent
                \/ /\ list.output_ptr \in DOMAIN list.tokens
                   /\ sent' = [sent EXCEPT ![c] = @ \o <<<<id, list.tokens[list.output_ptr]>>>>]
  <2>1. /\ token_map \in [Ids -> TokenList \cup {nullptr}]
        /\ sent \in [Clients -> Seq(Ids \X (1 .. MaxTokens))]
        /\ produced[id] \in 0 .. MaxTokens
    BY <1>1 DEF StreamTypes, TypeOK
  <2>2. /\ token_map'[id] = Moved(list)
        /\ \A j \in Ids \ {id} : token_map'[j] = token_map[j]
    BY <1>1, <1>2, <2>1
  <2>3. AfterNextToken(list).output_ptr = ptr
    BY <1>2, <2>1, ListCalls
  <2>4. /\ ListOf(Moved(list), produced[id])
        /\ Moved(list).tokens = list.tokens
        /\ Moved(list).is_finished = list.is_finished
        /\ Moved(list).output_ptr = ptr
    <3> HIDE DEF ptr
    <3> QED
      BY <1>2, <2>1, <2>3, MovedIsList
  <2>5. token_map'[id] # nullptr
    BY <2>2, <2>4, NullAssumption DEF ListOf
  <2>6. /\ list.output_ptr = 0 => Out(list, id) = <<>>
        /\ list.output_ptr # 0 =>
              /\ list.output_ptr \in DOMAIN list.tokens
              /\ Out(list, id) = <<<<id, list.tokens[list.output_ptr]>>>>
    BY <1>1, <1>2, <2>1, OneTokenOut
  <2>7. CASE list.output_ptr = 0
    <3>1. sent[c] \o Out(list, id) = sent[c]
      <4>1. Out(list, id) = <<>> /\ sent[c] \in Seq(Ids \X (1 .. MaxTokens))
        BY <1>1, <2>1, <2>6, <2>7
      <4> QED
        BY <4>1
    <3>2. (IF hasMoreTokens(list) THEN sent[c] \o Out(list, id) ELSE sent[c]) = sent[c]
      BY <3>1
    <3>3. sent' = sent
      BY <1>1, <1>2, <2>1, <3>2
    <3> HIDE DEF ptr
    <3> QED
      BY <2>2, <2>4, <2>5, <2>7, <3>3
  <2>8. CASE list.output_ptr # 0
    <3>1. hasMoreTokens(list)
      BY <2>8 DEF hasMoreTokens
    <3>2. sent' = [sent EXCEPT ![c] = @ \o Out(list, id)]
      BY <1>2, <3>1
    <3> HIDE DEF ptr
    <3> QED
      BY <2>2, <2>4, <2>5, <2>6, <2>8, <3>2
  <2> QED
    BY <2>7, <2>8
<1> HIDE DEF ptr
<1>3. CASE UNCHANGED <<token_map, sent>>
  BY <1>1, <1>3, <1>a
<1>4. CASE ~UNCHANGED <<token_map, sent>>
  <2>1. /\ HasList(id) /\ ListOf(list, produced[id])
        /\ sent' = [sent EXCEPT ![c] = IF hasMoreTokens(list) THEN @ \o Out(list, id) ELSE @]
        /\ token_map' = [token_map EXCEPT ![id] = Moved(list)]
    BY <1>1, <1>4
  <2>2. /\ \A j \in Ids \ {id} : token_map'[j] = token_map[j]
        /\ token_map'[id] # nullptr
        /\ token_map'[id].tokens = list.tokens
        /\ token_map'[id].is_finished = list.is_finished
        /\ token_map'[id].output_ptr = ptr
        /\ \/ list.output_ptr = 0 /\ sent' = sent
           \/ /\ list.output_ptr \in DOMAIN list.tokens
              /\ \E d \in Clients :
                    sent' = [sent EXCEPT ![d] = @ \o <<<<id, list.tokens[list.output_ptr]>>>>]
    BY <1>1, <1>2, <2>1
  <2>3. /\ ServedId \in Ids /\ UNCHANGED <<produced, ended, rewound>>
        /\ HasList(ServedId) /\ ListOf(list, produced[ServedId])
    BY <1>1, <1>a, <2>1
  <2> QED
    BY ONLY <1>a, <2>2, <2>3, Zenon DEF ptr
<1> QED
  BY <1>3, <1>4

\* What the end of a turn does to the list of its request.
LEMMA EndTurnEffect ==
    ASSUME StreamTypes, endTurn
    PROVE  /\ ServedId \in Ids /\ HasList(ServedId)
           /\ UNCHANGED <<produced, ended, sent>>
           /\ \/ UNCHANGED <<token_map, rewound>>
              \/ /\ token_map[ServedId].output_ptr = 0
                 /\ token_map'[ServedId] = nullptr
                 /\ \A j \in Ids \ {ServedId} : token_map'[j] = token_map[j]
                 /\ rewound' = rewound \ {ServedId}
<1> DEFINE id == client_requests[cursor].request_id
<1>1. /\ id \in Ids /\ HasList(id) /\ UNCHANGED <<produced, ended, sent>>
      /\ \/ UNCHANGED <<token_map, rewound>>
         \/ /\ token_map[id].output_ptr = 0
            /\ token_map' = [token_map EXCEPT ![id] = nullptr]
            /\ rewound' = rewound \ {id}
  BY EndTurnSplit
<1>2. ServedId = id /\ token_map \in [Ids -> TokenList \cup {nullptr}]
  BY DEF ServedId, StreamTypes, TypeOK
<1> HIDE DEF id
<1>3. CASE UNCHANGED <<token_map, rewound>>
  BY <1>1, <1>2, <1>3
<1>4. CASE token_map' = [token_map EXCEPT ![id] = nullptr]
  <2>1. token_map'[id] = nullptr /\ \A j \in Ids \ {id} : token_map'[j] = token_map[j]
    BY <1>1, <1>2, <1>4
  <2> QED
    BY <1>1, <1>2, <2>1
<1> QED
  BY <1>1, <1>3, <1>4

\* Ids, and what is sent of them, are numbers.
LEMMA SentAreNumbers ==
    ASSUME StreamTypes, NEW id \in Ids
    PROVE  /\ produced[id] \in Nat
           /\ SentTokens(id) \subseteq Nat
           /\ HasList(id) =>
                 /\ ListOf(token_map[id], produced[id])
                 /\ DOMAIN token_map[id].tokens = 1 .. Len(token_map[id].tokens)
                 /\ Len(token_map[id].tokens) \in Nat
                 /\ \A k \in DOMAIN token_map[id].tokens : token_map[id].tokens[k] \in Nat
                 /\ token_map[id].output_ptr \in 0 .. Len(token_map[id].tokens)
<1> USE StreamAssumption
<1>1. produced[id] \in Nat /\ (HasList(id) => ListOf(token_map[id], produced[id]))
  BY DEF StreamTypes, TypeOK, Lists
<1>2. SentTokens(id) \subseteq Nat
  BY DEF SentTokens
<1>3. ASSUME HasList(id)
      PROVE  /\ token_map[id].tokens \in Seq(1 .. MaxTokens)
             /\ token_map[id].output_ptr \in Nat
             /\ token_map[id].output_ptr <= Len(token_map[id].tokens)
             /\ Len(token_map[id].tokens) \in 0 .. produced[id]
  BY <1>1, <1>3 DEF ListOf, TokenList
<1>4. ASSUME HasList(id)
      PROVE  /\ DOMAIN token_map[id].tokens = 1 .. Len(token_map[id].tokens)
             /\ Len(token_map[id].tokens) \in Nat
             /\ \A k \in DOMAIN token_map[id].tokens : token_map[id].tokens[k] \in Nat
             /\ token_map[id].output_ptr \in 0 .. Len(token_map[id].tokens)
  <2> DEFINE t == token_map[id].tokens
             p == token_map[id].output_ptr
  <2>1. /\ t \in Seq(1 .. MaxTokens) /\ p \in Nat /\ p <= Len(t)
        /\ Len(t) \in 0 .. produced[id]
    BY <1>3, <1>4
  <2> HIDE DEF t, p
  <2>2. /\ DOMAIN t = 1 .. Len(t) /\ Len(t) \in Nat /\ p \in 0 .. Len(t)
        /\ \A k \in DOMAIN t : t[k] \in Nat
    BY <1>1, <2>1
  <2> QED
    BY <2>2 DEF t, p
<1> QED
  BY <1>1, <1>2, <1>4

\* An id whose list, rewinding and sent tokens stay as they are.
LEMMA OrderUntouched ==
    ASSUME StreamTypes, NEW id \in Ids, OrderOf(id),
           token_map'[id] = token_map[id], id \in rewound' <=> id \in rewound,
           produced'[id] = produced[id], SentTokens(id)' = SentTokens(id)
    PROVE  OrderOf(id)'
BY DEF OrderOf, HasList

\* What reaches the clients is in order after each step if the lists were.
LEMMA OrderStep ==
    ASSUME StreamTypes, OrderInv, [Next]_streamVars
    PROVE  OrderInv'
<1> USE StreamAssumption
<1>a. /\ token_map \in [Ids -> TokenList \cup {nullptr}]
      /\ produced \in [Ids -> 0 .. MaxTokens]
      /\ sent \in [Clients -> Seq(Ids \X (1 .. MaxTokens))]
  BY DEF StreamTypes, TypeOK
<1>b. ASSUME sent' = sent
      PROVE  InOrderOnce' /\ \A id \in Ids : SentTokens(id)' = SentTokens(id)
  BY <1>b DEF OrderInv, InOrderOnce, SentTokens
<1>c. ASSUME UNCHANGED <<token_map, produced, rewound, sent>>
      PROVE  OrderInv'
  BY <1>b, <1>c DEF OrderInv, OrderOf, HasList
<1>1. CASE UNCHANGED streamVars
  BY <1>1, <1>c DEF streamVars
<1>2. ASSUME NEW id \in Ids, addToken(id)
      PROVE  OrderInv'
  <2> DEFINE old == IF HasList(id) THEN token_map[id] ELSE NewList
             n   == produced[id]
             new == Appended(old, n + 1)
  <2>1. n \in Nat /\ n < MaxTokens /\ (old = NewList \/ ListOf(old, n))
    BY <1>2, <1>a, SentAreNumbers DEF addToken
  <2>2. /\ token_map' = [token_map EXCEPT ![id] = new]
        /\ produced' = [produced EXCEPT ![id] = n + 1]
        /\ rewound' = rewound /\ sent' = sent
    BY <1>2 DEF addToken
  <2>3. /\ ListOf(new, n + 1)
        /\ new.tokens = Append(old.tokens, n + 1)
        /\ new.output_ptr = old.output_ptr
    <3> HIDE DEF old
    <3> QED
      BY <2>1, ListAppends
  <2>4. /\ token_map'[id] = new /\ produced'[id] = n + 1
        /\ \A j \in Ids \ {id} : token_map'[j] = token_map[j] /\ produced'[j] = produced[j]
    <3> HIDE DEF new
    <3> QED
      BY <1>a, <2>2
  <2>5. InOrderOnce' /\ \A j \in Ids : SentTokens(j)' = SentTokens(j)
    BY <1>b, <2>2
  <2> DEFINE t == old.tokens
             L == Len(t)
  <2>6. /\ t \in Seq(Nat) /\ L \in Nat /\ DOMAIN t = 1 .. L
        /\ old.output_ptr \in 0 .. L /\ (L = 0 <=> t = <<>>)
    <3>1. CASE HasList(id)
      <4>1. /\ old = token_map[id]
            /\ DOMAIN old.tokens = 1 .. Len(old.tokens) /\ Len(old.tokens) \in Nat
            /\ old.output_ptr \in 0 .. Len(old.tokens)
        BY <3>1, SentAreNumbers
      <4>2. old.tokens \in Seq(1 .. MaxTokens)
        BY <2>1, <3>1, <4>1, SentAreNumbers DEF ListOf, TokenList
      <4> HIDE DEF old
      <4> QED
        BY <4>1, <4>2
    <3>2. CASE ~HasList(id)
      <4>1. old.tokens = <<>> /\ old.output_ptr = 0
        BY <3>2 DEF NewList
      <4> HIDE DEF old
      <4> QED
        BY <3>2, <4>1
    <3> QED
      BY <3>1, <3>2
  <2>7. HasList(id) => old = token_map[id] /\ OrderOf(id)
    BY DEF OrderInv
  <2>8. ~HasList(id) => L = 0 /\ old.output_ptr = 0 /\ id \notin rewound
    BY DEF OrderInv, OrderOf, NewList
  <2>9. HasList(id)' /\ OrderOf(id)
    BY <2>3, <2>4, NullAssumption DEF HasList, ListOf, OrderInv
  <2> HIDE DEF old, new, t, L
  <2>10. /\ DOMAIN new.tokens = 1 .. L + 1 /\ new.tokens[L + 1] = n + 1
         /\ \A k \in 1 .. L : new.tokens[k] = t[k] /\ t[k] \in Nat
         /\ \A k \in 1 .. L + 1 : k \in 1 .. L \/ k = L + 1
    <3>1. n + 1 \in Nat /\ new.tokens = Append(t, n + 1)
      BY <2>1, <2>3 DEF t
    <3>2. /\ DOMAIN Append(t, n + 1) = 1 .. L + 1 /\ Append(t, n + 1)[L + 1] = n + 1
          /\ \A k \in 1 .. L : Append(t, n + 1)[k] = t[k]
      <4> HIDE DEF n
      <4> QED
        BY <2>6, <3>1, AppendedSeq DEF L
    <3>3. \A k \in 1 .. L : t[k] \in Nat
      BY <2>6
    <3>4. \A k \in 1 .. L + 1 : k \in 1 .. L \/ k = L + 1
      BY <2>6
    <3> QED
      BY <3>1, <3>2, <3>3, <3>4
  <2>11. \A k \in 1 .. L : t[k] <= n
    BY <2>6, <2>7, <2>8, <2>9 DEF OrderOf, Growing, t
  <2>12. \A j, k \in 1 .. L : j < k => t[j] < t[k]
    BY <2>6, <2>7, <2>8, <2>9 DEF OrderOf, Growing, t
  <2>13. Growing(new.tokens, n + 1)
    <3>1. \A k \in 1 .. L + 1 : new.tokens[k] <= n + 1
      BY <2>1, <2>10, <2>11
    <3>2. \A j, k \in 1 .. L + 1 : j < k => new.tokens[j] < new.tokens[k]
      <4> SUFFICES ASSUME NEW j \in 1 .. L + 1, NEW k \in 1 .. L + 1, j < k
                   PROVE  new.tokens[j] < new.tokens[k]
        OBVIOUS
      <4>1. j \in 1 .. L /\ (k \in 1 .. L \/ k = L + 1)
        BY <2>6
      <4>2. CASE k \in 1 .. L
        BY <2>10, <2>12, <4>1, <4>2
      <4>3. CASE k = L + 1
        <5>1. new.tokens[j] = t[j] /\ t[j] \in Nat /\ t[j] <= n /\ new.tokens[k] = n + 1
          BY <2>10, <2>11, <4>1, <4>3
        <5> HIDE DEF n
        <5> QED
          BY <2>1, <5>1
      <4> QED
        BY <4>1, <4>2, <4>3
    <3> QED
      BY <2>10, <3>1, <3>2 DEF Growing
  <2>14. ASSUME NEW x \in SentTokens(id)
         PROVE  /\ x <= n + 1
                /\ id \notin rewound => x < new.tokens[1]
                /\ new.output_ptr # 0 => x < new.tokens[new.output_ptr]
    <3>1. x \in Nat /\ x <= n
      BY <2>9, SentAreNumbers DEF OrderOf
    <3>2. CASE L # 0
      <4>0. HasList(id) /\ t # <<>>
        BY <2>6, <2>8, <3>2
      <4>1. 1 \in 1 .. L /\ (old.output_ptr # 0 => old.output_ptr \in 1 .. L)
        BY <2>6, <3>2
      <4>2. new.tokens[1] = t[1] /\ (old.output_ptr # 0 =>
                                        new.tokens[old.output_ptr] = t[old.output_ptr])
        BY <2>10, <4>1
      <4>3. /\ id \notin rewound => x < t[1]
            /\ old.output_ptr # 0 => x < t[old.output_ptr]
        BY <2>7, <4>0 DEF OrderOf, t
      <4>4. new.output_ptr = old.output_ptr
        BY <2>3
      <4>5. x <= n + 1
        BY <2>1, <3>1
      <4> HIDE DEF n
      <4> QED
        BY <4>2, <4>3, <4>4, <4>5
    <3>3. CASE L = 0
      <4>1. L = 0 /\ new.output_ptr = 0
        BY <2>3, <2>6, <3>3
      <4>2. new.tokens[1] = n + 1
        BY <2>10, <4>1
      <4> QED
        BY <2>1, <3>1, <4>1, <4>2
    <3> QED
      BY <3>2, <3>3
  <2>15. id \notin rewound => new.output_ptr = 0
    BY <2>3, <2>7, <2>8, <2>9 DEF OrderOf
  <2>16. OrderOf(id)'
    BY <2>2, <2>4, <2>5, <2>9, <2>13, <2>14, <2>15 DEF OrderOf
  <2>17. \A j \in Ids \ {id} : OrderOf(j)'
    BY <2>2, <2>4, <2>5, OrderUntouched DEF OrderInv
  <2> QED
    BY <2>5, <2>16, <2>17 DEF OrderInv
<1>7. ASSUME NEW id \in Ids, addNullToken(id)
      PROVE  OrderInv'
  <2>1. /\ ~HasList(id) /\ token_map' = [token_map EXCEPT ![id] = NewList]
        /\ UNCHANGED <<produced, rewound, sent>>
    BY <1>7 DEF addNullToken
  <2>2. /\ token_map'[id] = NewList
        /\ \A j \in Ids \ {id} : token_map'[j] = token_map[j]
    BY <1>a, <2>1
  <2>3. NewList.tokens = <<>> /\ NewList.output_ptr = 0
    BY DEF NewList
  <2>4. InOrderOnce' /\ \A j \in Ids : SentTokens(j)' = SentTokens(j)
    BY <1>b, <2>1
  <2>5. OrderOf(id) /\ id \notin rewound
    BY <2>1 DEF OrderInv, OrderOf
  <2>6. Growing(<<>>, produced[id])
    BY DEF Growing
  <2>7. OrderOf(id)'
    BY <2>1, <2>2, <2>3, <2>4, <2>5, <2>6 DEF OrderOf
  <2>8. \A j \in Ids \ {id} : OrderOf(j)'
    BY <2>1, <2>2, <2>4, OrderUntouched DEF OrderInv
  <2> QED
    BY <2>4, <2>7, <2>8 DEF OrderInv
<1>3. ASSUME NEW id \in Ids, markTokenStreamFinished(id)
      PROVE  OrderInv'
  <2>1. UNCHANGED <<produced, rewound, sent>>
    BY <1>3 DEF markTokenStreamFinished
  <2>2. CASE ~HasList(id)
    BY <1>3, <1>c, <2>1, <2>2 DEF markTokenStreamFinished
  <2>3. CASE HasList(id)
    <3> DEFINE new == [token_map[id] EXCEPT !.is_finished = TRUE]
    <3>1. token_map' = [token_map EXCEPT ![id] = new]
      BY <1>3, <2>3 DEF markTokenStreamFinished
    <3>2. new.tokens = token_map[id].tokens /\ new.output_ptr = token_map[id].output_ptr
      BY <2>3, SentAreNumbers DEF ListOf, TokenList
    <3> HIDE DEF new
    <3>3. /\ token_map'[id] = new
          /\ \A j \in Ids \ {id} : token_map'[j] = token_map[j]
      BY <1>a, <3>1
    <3>4. InOrderOnce' /\ \A j \in Ids : SentTokens(j)' = SentTokens(j)
      BY <1>b, <2>1
    <3>5. OrderOf(id)'
      <4>1. OrderOf(id)
        BY DEF OrderInv
      <4>2. HasList(id)' => HasList(id)
        BY <2>3
      <4>3. id \in rewound => HasList(id)'
        <5>1. ListOf(new, produced[id])
          BY <1>a, <2>3, SentAreNumbers, ListCalls DEF new
        <5> QED
          BY <3>3, <5>1, NullAssumption DEF HasList, ListOf
      <4> QED
        BY <2>1, <2>3, <3>2, <3>3, <3>4, <4>1, <4>3 DEF OrderOf
    <3>6. \A j \in Ids \ {id} : OrderOf(j)'
      BY <2>1, <3>3, <3>4, OrderUntouched DEF OrderInv
    <3> QED
      BY <3>4, <3>5, <3>6 DEF OrderInv
  <2> QED
    BY <2>2, <2>3
<1>4. ASSUME NEW id \in Ids, resetOutput(id)
      PROVE  OrderInv'
  <2> DEFINE new == AfterResetOutput(token_map[id])
  <2>1. /\ HasList(id) /\ id \notin rewound
        /\ token_map' = [token_map EXCEPT ![id] = new]
        /\ rewound' = rewound \cup {id}
        /\ UNCHANGED <<produced, sent>>
    BY <1>4 DEF resetOutput
  <2>2. /\ new.tokens = token_map[id].tokens
        /\ new.output_ptr # 0 => new.output_ptr = 1 /\ token_map[id].tokens # <<>>
        /\ ListOf(new, produced[id])
    <3>1. ListOf(token_map[id], produced[id]) /\ produced[id] \in 0 .. MaxTokens
      BY <1>a, <2>1, SentAreNumbers
    <3> QED
      BY <3>1, ListCalls
  <2> HIDE DEF new
  <2>4. /\ token_map'[id] = new
        /\ \A j \in Ids \ {id} : token_map'[j] = token_map[j]
    BY <1>a, <2>1
  <2>5. InOrderOnce' /\ \A j \in Ids : SentTokens(j)' = SentTokens(j)
    BY <1>b, <2>1
  <2>6. OrderOf(id)'
    <3>1. OrderOf(id)
      BY DEF OrderInv
    <3>2. HasList(id)'
      BY <2>2, <2>4, NullAssumption DEF HasList, ListOf
    <3> QED
      BY <2>1, <2>2, <2>4, <2>5, <3>1, <3>2 DEF OrderOf
  <2>7. \A j \in Ids \ {id} : OrderOf(j)'
    BY <2>1, <2>4, <2>5, OrderUntouched DEF OrderInv
  <2> QED
    BY <2>5, <2>6, <2>7 DEF OrderInv
<1>5. CASE \/ beginPass \/ endPass
           \/ \E id \in Ids : \E client \in Clients : registerRequest(client, id)
  BY <1>5, <1>c DEF beginPass, endPass, registerRequest
<1>6. CASE serve
  <2>1. PICK id \in Ids : id = ServedId
    BY <1>6, ServeEffect
  <2> DEFINE list == token_map[id]
             p    == list.output_ptr
             L    == Len(list.tokens)
             ptr  == IF p \in 1 .. L - 1 THEN p + 1 ELSE 0
  <2>2. /\ UNCHANGED <<produced, ended, rewound>>
        /\ \/ UNCHANGED <<token_map, sent>>
           \/ /\ HasList(id) /\ ListOf(list, produced[id])
              /\ \A j \in Ids \ {id} : token_map'[j] = token_map[j]
              /\ token_map'[id] # nullptr
              /\ token_map'[id].tokens = list.tokens
              /\ token_map'[id].is_finished = list.is_finished
              /\ token_map'[id].output_ptr = ptr
              /\ \/ p = 0 /\ sent' = sent
                 \/ /\ p \in DOMAIN list.tokens
                    /\ \E c \in Clients :
                          sent' = [sent EXCEPT ![c] = @ \o <<<<id, list.tokens[p]>>>>]
    BY <1>6, <2>1, ServeEffect
  <2>3. CASE UNCHANGED <<token_map, sent>>
    BY <1>c, <2>2, <2>3
  <2>4. CASE ~UNCHANGED <<token_map, sent>>
    <3>1. /\ HasList(id) /\ ListOf(list, produced[id])
          /\ \A j \in Ids \ {id} : token_map'[j] = token_map[j]
          /\ token_map'[id] # nullptr
          /\ token_map'[id].tokens = list.tokens
          /\ token_map'[id].output_ptr = ptr
          /\ \/ p = 0 /\ sent' = sent
             \/ /\ p \in DOMAIN list.tokens
                /\ \E c \in Clients :
                      sent' = [sent EXCEPT ![c] = @ \o <<<<id, list.tokens[p]>>>>]
      BY <2>2, <2>4
    <3> HIDE DEF ptr
    <3>2. /\ DOMAIN list.tokens = 1 .. L /\ L \in Nat /\ p \in 0 .. L
          /\ \A k \in 1 .. L : list.tokens[k] \in Nat
          /\ produced[id] \in Nat /\ SentTokens(id) \subseteq Nat
      BY <3>1, SentAreNumbers
    <3>3. /\ \A j, k \in 1 .. L : j < k => list.tokens[j] < list.tokens[k]
          /\ \A k \in 1 .. L : list.tokens[k] <= produced[id]
          /\ id \notin rewound => p = 0
          /\ \A t \in SentTokens(id) :
                /\ t <= produced[id]
                /\ id \notin rewound /\ list.tokens # <<>> => t < list.tokens[1]
                /\ p # 0 => t < list.tokens[p]
      BY <3>1, <3>2 DEF OrderInv, OrderOf, Growing
    <3>5. /\ InOrderOnce'
          /\ \A j \in Ids \ {id} : SentTokens(j)' = SentTokens(j)
          /\ \A t \in SentTokens(id)' :
                t \in SentTokens(id) \/ (p \in 1 .. L /\ t = list.tokens[p])
      <4>1. CASE p = 0
        <5>1. sent' = sent
          BY <3>1, <3>2, <4>1
        <5> QED
          BY <1>b, <5>1
      <4>2. CASE p # 0
        <5>1. PICK c \in Clients :
                 sent' = [sent EXCEPT ![c] = @ \o <<<<id, list.tokens[p]>>>>]
          BY <3>1, <4>2
        <5>2. p \in 1 .. L /\ list.tokens[p] \in 1 .. MaxTokens
          <6>1. p \in 1 .. L /\ list.tokens \in Seq(1 .. MaxTokens)
            BY <3>1, <3>2, <4>2 DEF ListOf, TokenList
          <6> HIDE DEF list, p
          <6> QED
            BY <6>1, ElementOfSeq
        <5>3. \A t \in SentTokens(id) : t < list.tokens[p]
          BY <3>3, <4>2
        <5> HIDE DEF list, p, L
        <5>4. /\ SentTokens(id)' = SentTokens(id) \cup {list.tokens[p]}
              /\ \A j \in Ids \ {id} : SentTokens(j)' = SentTokens(j)
              /\ InOrderOnce'
          BY <5>1, <5>2, <5>3, SentGrows DEF OrderInv
        <5> QED
          BY <5>2, <5>4
      <4> QED
        BY <4>1, <4>2
    <3>6. \A j \in Ids \ {id} : OrderOf(j)'
      <4> TAKE j \in Ids \ {id}
      <4> HIDE DEF list, p, L
      <4>1. OrderOf(j)
        BY DEF OrderInv
      <4>2. token_map'[j] = token_map[j]
        BY <3>1
      <4>3. SentTokens(j)' = SentTokens(j)
        BY <3>5
      <4>4. (j \in rewound' <=> j \in rewound) /\ produced'[j] = produced[j]
        BY <2>2
      <4> QED
        BY ONLY StreamTypes, <4>1, <4>2, <4>3, <4>4, OrderUntouched
    <3>7. ptr # 0 => p \in 1 .. L /\ ptr \in 1 .. L /\ p < ptr /\ p # 0
      BY <3>2 DEF ptr
    <3>8. OrderOf(id)'
      <4>1. \A t \in SentTokens(id)' : t \in Nat /\ t <= produced'[id]
        BY <2>2, <3>2, <3>3, <3>5
      <4>2. /\ HasList(id)' /\ rewound' = rewound /\ produced'[id] = produced[id]
            /\ token_map'[id].tokens = list.tokens
            /\ token_map'[id].output_ptr = ptr
        BY <2>2, <3>1 DEF HasList
      <4>3. Growing(list.tokens, produced[id])
        BY <3>2, <3>3 DEF Growing
      <4>4. id \notin rewound => p = 0 /\ ptr = 0
        BY <3>3, <3>7
      <4>5. ASSUME NEW t \in SentTokens(id)'
            PROVE  /\ id \notin rewound /\ list.tokens # <<>> => t < list.tokens[1]
                   /\ ptr # 0 => t < list.tokens[ptr]
        <5>1. CASE t \in SentTokens(id)
          <6>1. id \notin rewound /\ list.tokens # <<>> => t < list.tokens[1]
            BY <3>3, <5>1
          <6>2. ptr # 0 => t < list.tokens[ptr]
            <7>1. ptr # 0 => t < list.tokens[p] /\ list.tokens[p] < list.tokens[ptr]
              BY <3>3, <3>7, <5>1
            <7>2. ptr # 0 => list.tokens[p] \in Nat /\ list.tokens[ptr] \in Nat
              BY <3>2, <3>7
            <7> QED
              BY <4>1, <7>1, <7>2
          <6> QED
            BY <6>1, <6>2
        <5>2. CASE p \in 1 .. L /\ t = list.tokens[p]
          BY <3>3, <3>7, <4>4, <5>2
        <5> QED
          BY <3>5, <5>1, <5>2
      <4>6. id \in rewound => HasList(id)'
        BY <4>2
      <4> HIDE DEF list, p, L
      <4> QED
        BY <4>1, <4>2, <4>3, <4>4, <4>5 DEF OrderOf
    <3> QED
      BY <3>5, <3>6, <3>8 DEF OrderInv
  <2> QED
    BY <2>3, <2>4
<1>8. CASE endTurn
  <2>1. PICK id \in Ids : id = ServedId
    BY <1>8, EndTurnEffect
  <2>2. /\ UNCHANGED <<produced, ended, sent>>
        /\ \/ UNCHANGED <<token_map, rewound>>
           \/ /\ token_map'[id] = nullptr
              /\ \A j \in Ids \ {id} : token_map'[j] = token_map[j]
              /\ rewound' = rewound \ {id}
    BY <1>8, <2>1, EndTurnEffect
  <2>3. CASE UNCHANGED <<token_map, rewound>>
    BY <1>c, <2>2, <2>3
  <2>4. CASE ~UNCHANGED <<token_map, rewound>>
    <3>1. InOrderOnce' /\ \A j \in Ids : SentTokens(j)' = SentTokens(j)
      BY <1>b, <2>2
    <3>2. OrderOf(id)'
      <4>1. id \notin rewound' /\ ~HasList(id)'
        BY <2>2, <2>4 DEF HasList
      <4> QED
        BY <2>2, <3>1, <4>1 DEF OrderOf, OrderInv
    <3>3. \A j \in Ids \ {id} : OrderOf(j)'
      <4> TAKE j \in Ids \ {id}
      <4>1. OrderOf(j) /\ token_map'[j] = token_map[j] /\ produced'[j] = produced[j]
        BY <2>2, <2>4 DEF OrderInv
      <4>2. j \in rewound' <=> j \in rewound
        BY <2>2, <2>4
      <4> QED
        BY <3>1, <4>1, <4>2, OrderUntouched
    <3> QED
      BY <3>1, <3>2, <3>3 DEF OrderInv
  <2> QED
    BY <2>3, <2>4
<1> QED
  BY <1>1, <1>2, <1>3, <1>4, <1>5, <1>6, <1>7, <1>8 DEF Next, Pass

\* Nothing is out of order while nothing has been sent.
LEMMA OrderInit == Init => OrderInv
<1> SUFFICES ASSUME Init
             PROVE  OrderInv
  OBVIOUS
<1>1. \A c \in Clients : DOMAIN sent[c] = {} /\ Range(sent[c]) = {}
  BY DEF Init, Range
<1>2. InOrderOnce
  BY <1>1 DEF InOrderOnce
<1>3. \A id \in Ids : SentTokens(id) = {} /\ ~HasList(id) /\ id \notin rewound
  BY <1>1 DEF SentTokens, Init, HasList
<1> QED
  BY <1>2, <1>3 DEF OrderInv, OrderOf

\* Tokens of one id reach a client in the order of production and none twice
\* (client_manager.cpp:119-146), although lists are deleted, made anew and
\* rewound between two passes and between two mappings of one pass.
THEOREM OrderOnce == Spec => []InOrderOnce
<1>1. StreamTypes /\ OrderInv /\ [Next]_streamVars => StreamTypes' /\ OrderInv'
  BY TypeStep, OrderStep
<1>2. OrderInv => InOrderOnce
  BY DEF OrderInv
<1> QED
  BY TypesInit, OrderInit, <1>1, <1>2, PTL DEF Spec

----------------------------------------------------------------------------
\* The ids that some client has asked for.
Asked == {client_requests[k].request_id : k \in DOMAIN client_requests}

\* What the pointer of the list has passed, all of it once the pointer is null.
Passed(list, k) == list.output_ptr = 0 \/ k < list.output_ptr

PassedIsSent(id) == \A k \in DOMAIN token_map[id].tokens :
                       Passed(token_map[id], k) => token_map[id].tokens[k] \in SentTokens(id)

\* An id that is used the careful way: its list is complete before anybody
\* asks for it, is rewound before it is sent, and is not made anew.
BufferedOf(id) ==
    /\ HasList(id) /\ token_map[id].is_finished => id \in ended
    /\ HasList(id) /\ id \in ended => token_map[id].is_finished
    /\ id \in rewound => id \in ended /\ PassedIsSent(id)
    /\ id \in Asked => id \in ended /\ (HasList(id) => id \in rewound)

BufferedInv == \A id \in BufferedIds : BufferedOf(id)

\* Erasing mappings asks for nothing new.
LEMMA ErasingAsksNobody ==
    ASSUME client_requests \in Seq(Mapping), NEW gone,
           client_requests' = Erased(client_requests, gone)
    PROVE  Asked' \subseteq Asked
<1> DEFINE S == {client_requests[k] : k \in DOMAIN client_requests}
<1>1. client_requests \in Seq(S)
  <2>1. client_requests \in [1 .. Len(client_requests) -> S] /\ Len(client_requests) \in Nat
    OBVIOUS
  <2> HIDE DEF S
  <2> QED
    BY <2>1, SeqDef
<1>2. client_requests' \in Seq(S)
  <2> HIDE DEF S
  <2> QED
    BY <1>1, ErasedTyped
<1>3. \A j \in DOMAIN client_requests' : client_requests'[j] \in S
  <2> HIDE DEF S
  <2> QED
    BY <1>2
<1> QED
  BY <1>3 DEF Asked

\* Nobody asks for an id but by registering.
LEMMA AskedStep ==
    ASSUME StreamTypes, [Next]_streamVars, NEW id \in Ids, id \in Asked', id \notin Asked
    PROVE  \E client \in Clients : registerRequest(client, id)
<1>0. client_requests \in Seq(Mapping)
  BY DEF StreamTypes, TypeOK
<1>1. client_requests' # client_requests
  BY DEF Asked
<1>2. PICK j \in DOMAIN client_requests' : client_requests'[j].request_id = id
  BY DEF Asked
<1>3. CASE serve \/ endTurn
  <2>1. /\ Len(client_requests') = Len(client_requests)
        /\ client_requests' \in Seq(Mapping)
        /\ \A k \in DOMAIN client_requests :
              client_requests'[k].request_id = client_requests[k].request_id
    BY <1>3, ServeSplit, EndTurnSplit
  <2>2. j \in DOMAIN client_requests
    BY <1>0, <1>2, <2>1
  <2> QED
    BY <1>2, <2>1, <2>2 DEF Asked
<1>4. CASE endPass
  BY <1>0, <1>4, ErasingAsksNobody DEF endPass
<1>5. ASSUME NEW other \in Ids, NEW client \in Clients, registerRequest(client, other)
      PROVE  \E c \in Clients : registerRequest(c, id)
  <2> DEFINE m == [client_socket |-> client, request_id |-> other, is_active |-> TRUE]
  <2>1. client_requests' = Append(client_requests, m) /\ m.request_id = other
    BY <1>5 DEF registerRequest
  <2>2. m \in Mapping
    BY DEF Mapping
  <2> HIDE DEF m
  <2>3. /\ j \in DOMAIN client_requests \/ j = Len(client_requests) + 1
        /\ client_requests'[Len(client_requests) + 1] = m
        /\ \A k \in DOMAIN client_requests : client_requests'[k] = client_requests[k]
    BY <1>0, <1>2, <2>1, <2>2, AppendProperties
  <2>4. CASE j \in DOMAIN client_requests
    BY <1>2, <2>3, <2>4 DEF Asked
  <2>5. CASE j = Len(client_requests) + 1
    <3>1. other = id
      BY <1>2, <2>1, <2>3, <2>5
    <3> QED
      BY <1>5, <3>1
  <2> QED
    BY <2>3, <2>4, <2>5
<1>6. CASE UNCHANGED streamVars \/ beginPass
           \/ \E x \in Ids : \/ addToken(x) \/ addNullToken(x)
                            \/ markTokenStreamFinished(x) \/ resetOutput(x)
  BY <1>1, <1>6 DEF streamVars, beginPass, addToken, addNullToken, markTokenStreamFinished,
                    resetOutput
<1> QED
  BY <1>3, <1>4, <1>5, <1>6 DEF Next, Pass

\* An id that a step does not touch, but for more of it being sent.
LEMMA BufferedUntouched ==
    ASSUME NEW id \in Ids, BufferedOf(id), token_map'[id] = token_map[id],
           (id \in rewound)' = (id \in rewound), (id \in ended)' = (id \in ended),
           (id \in Asked)' => id \in Asked \/ id \in rewound,
           SentTokens(id)' = SentTokens(id)
    PROVE  BufferedOf(id)'
BY DEF BufferedOf, HasList, PassedIsSent, Passed

\* Mappings may be erased at any time: what is known of the others stays.
LEMMA ErasingKeepsBuffered ==
    ASSUME StreamTypes, BufferedInv, NEW gone,
           client_requests' = Erased(client_requests, gone),
           UNCHANGED <<token_map, ended, rewound, sent>>
    PROVE  BufferedInv'
<1> SUFFICES ASSUME NEW id \in BufferedIds
             PROVE  BufferedOf(id)'
  BY DEF BufferedInv
<1>1. BufferedOf(id) /\ id \in Ids
  BY StreamAssumption DEF BufferedInv
<1>2. Asked' \subseteq Asked
  BY ErasingAsksNobody DEF StreamTypes, TypeOK
<1>3. SentTokens(id)' = SentTokens(id)
  BY DEF SentTokens
<1> QED
  BY <1>1, <1>2, <1>3, BufferedUntouched

\* A pass sends what the pointer of the list it serves goes past.
LEMMA ServeSends ==
    ASSUME StreamTypes, serve, NEW id \in Ids, id = ServedId,
           ~UNCHANGED <<token_map, sent>>, PassedIsSent(id)
    PROVE  LET list == token_map[id]
               ptr  == IF list.output_ptr \in 1 .. Len(list.tokens) - 1
                       THEN list.output_ptr + 1 ELSE 0
           IN  \A k \in DOMAIN list.tokens :
                  ptr = 0 \/ k < ptr => list.tokens[k] \in SentTokens(id)'
<1> DEFINE list == token_map[id]
           p    == list.output_ptr
           L    == Len(list.tokens)
           ptr  == IF p \in 1 .. L - 1 THEN p + 1 ELSE 0
<1>1. /\ HasList(id) /\ ListOf(list, produced[id])
      /\ \/ p = 0 /\ sent' = sent
         \/ /\ p \in DOMAIN list.tokens
            /\ \E c \in Clients :
                  sent' = [sent EXCEPT ![c] = @ \o <<<<id, list.tokens[p]>>>>]
  BY ServeEffect
<1>2. /\ DOMAIN list.tokens = 1 .. L /\ L \in Nat /\ p \in 0 .. L
  BY <1>1, SentAreNumbers
<1>3. \A k \in 1 .. L : p = 0 \/ k < p => list.tokens[k] \in SentTokens(id)
  BY <1>2 DEF PassedIsSent, Passed
<1> SUFFICES ASSUME NEW k \in 1 .. L, ptr = 0 \/ k < ptr
             PROVE  list.tokens[k] \in SentTokens(id)'
  BY <1>2
<1>4. CASE p = 0
  <2>1. sent' = sent
    BY <1>1, <1>2, <1>4
  <2> QED
    BY <1>3, <1>4, <2>1 DEF SentTokens
<1>5. CASE p # 0
  <2>1. PICK c \in Clients : sent' = [sent EXCEPT ![c] = @ \o <<<<id, list.tokens[p]>>>>]
    BY <1>1, <1>5
  <2>2. p \in 1 .. L /\ list.tokens[p] \in 1 .. MaxTokens
    <3>1. p \in 1 .. L /\ list.tokens \in Seq(1 .. MaxTokens)
      BY <1>1, <1>2, <1>5 DEF ListOf, TokenList
    <3> HIDE DEF list, p
    <3> QED
      BY <3>1, ElementOfSeq
  <2>3. k < p \/ k = p
    BY <1>2, <2>2
  <2> HIDE DEF list, p, L, ptr
  <2>4. SentTokens(id)' = SentTokens(id) \cup {list.tokens[p]}
    BY <2>1, <2>2, SentGrows
  <2> QED
    BY <1>3, <2>3, <2>4
<1> QED
  BY <1>4, <1>5

\* The id whose turn ends is asked for: its mapping is still there.
LEMMA EndTurnAsked ==
    ASSUME StreamTypes, endTurn
    PROVE  ServedId \in Asked
BY DEF StreamTypes, Turn, endTurn, ServedId, Asked

\* The order of calls that BufferedIds stands for is kept by each step.
LEMMA BufferedStep ==
    ASSUME StreamTypes, BufferedInv, [Next]_streamVars
    PROVE  BufferedInv'
<1> USE StreamAssumption
<1> SUFFICES ASSUME NEW id \in BufferedIds
             PROVE  BufferedOf(id)'
  BY DEF BufferedInv
<1>a. /\ token_map \in [Ids -> TokenList \cup {nullptr}]
      /\ produced \in [Ids -> 0 .. MaxTokens]
      /\ id \in Ids /\ BufferedOf(id)
  BY DEF StreamTypes, TypeOK, BufferedInv
<1>b. ASSUME sent' = sent
      PROVE  SentTokens(id)' = SentTokens(id)
  BY <1>b DEF SentTokens
<1>c. (id \in Asked)' => id \in Asked \/ id \in rewound
  BY <1>a, AskedStep DEF registerRequest
<1>d. ASSUME sent' = sent, token_map'[id] = token_map[id],
             (id \in rewound)' = (id \in rewound), (id \in ended)' = (id \in ended)
      PROVE  BufferedOf(id)'
  BY <1>a, <1>b, <1>c, <1>d, BufferedUntouched
<1>1. CASE UNCHANGED <<token_map, rewound, ended, sent>>
  BY <1>1, <1>d
<1>2. ASSUME NEW x \in Ids, addToken(x)
      PROVE  BufferedOf(id)'
  <2>1. UNCHANGED <<rewound, ended, sent, client_requests>>
    BY <1>2 DEF addToken
  <2>2. CASE x # id
    <3>1. token_map'[id] = token_map[id]
      BY <1>2, <1>a, <2>2 DEF addToken
    <3> QED
      BY <1>d, <2>1, <3>1
  <2>3. CASE x = id
    <3> DEFINE old == IF HasList(id) THEN token_map[id] ELSE NewList
               n   == produced[id]
    <3>1. id \notin ended
      BY <1>2, <2>3 DEF addToken
    <3>2. n \in Nat /\ n < MaxTokens /\ (old = NewList \/ ListOf(old, n))
      BY <1>2, <1>a, <2>3, SentAreNumbers DEF addToken
    <3>3. ~old.is_finished
      BY <1>a, <3>1 DEF BufferedOf, NewList
    <3>4. token_map' = [token_map EXCEPT ![id] = Appended(old, n + 1)]
      BY <1>2, <2>3 DEF addToken
    <3> HIDE DEF old
    <3>5. Appended(old, n + 1).is_finished = old.is_finished
      BY <3>2, ListAppends
    <3>6. token_map'[id] = Appended(old, n + 1)
      BY <1>a, <3>4
    <3>7. ~token_map'[id].is_finished
      BY <3>3, <3>5, <3>6
    <3>8. id \notin ended' /\ id \notin rewound' /\ id \notin Asked'
      BY <1>a, <2>1, <3>1 DEF BufferedOf, Asked
    <3> QED
      BY <3>7, <3>8 DEF BufferedOf
  <2> QED
    BY <2>2, <2>3
<1>7. ASSUME NEW x \in Ids, addNullToken(x)
      PROVE  BufferedOf(id)'
  <2>1. UNCHANGED <<rewound, ended, sent, client_requests>>
    BY <1>7 DEF addNullToken
  <2>2. CASE x # id
    <3>1. token_map'[id] = token_map[id]
      BY <1>7, <1>a, <2>2 DEF addNullToken
    <3> QED
      BY <1>d, <2>1, <3>1
  <2>3. CASE x = id
    <3>1. id \notin ended /\ token_map' = [token_map EXCEPT ![id] = NewList]
      BY <1>7, <2>3 DEF addNullToken
    <3>2. ~token_map'[id].is_finished
      BY <1>a, <3>1 DEF NewList
    <3>3. id \notin ended' /\ id \notin rewound' /\ id \notin Asked'
      BY <1>a, <2>1, <3>1 DEF BufferedOf, Asked
    <3> QED
      BY <3>2, <3>3 DEF BufferedOf
  <2> QED
    BY <2>2, <2>3
<1>3. ASSUME NEW x \in Ids, markTokenStreamFinished(x)
      PROVE  BufferedOf(id)'
  <2>1. UNCHANGED <<rewound, sent, client_requests>>
    BY <1>3 DEF markTokenStreamFinished
  <2>2. CASE ~HasList(x)
    BY <1>1, <1>3, <2>1, <2>2 DEF markTokenStreamFinished
  <2>3. CASE HasList(x) /\ x # id
    <3>1. token_map'[id] = token_map[id] /\ ended' = ended \cup {x}
      BY <1>3, <1>a, <2>3 DEF markTokenStreamFinished
    <3>2. (id \in ended)' = (id \in ended)
      BY <2>3, <3>1
    <3> QED
      BY <1>d, <2>1, <3>1, <3>2
  <2>4. CASE HasList(x) /\ x = id
    <3> DEFINE new == [token_map[id] EXCEPT !.is_finished = TRUE]
    <3>1. token_map' = [token_map EXCEPT ![id] = new] /\ ended' = ended \cup {id}
      BY <1>3, <2>4 DEF markTokenStreamFinished
    <3>2. /\ new.tokens = token_map[id].tokens /\ new.output_ptr = token_map[id].output_ptr
          /\ new.is_finished
      BY <1>a, <2>4, SentAreNumbers DEF ListOf, TokenList
    <3> HIDE DEF new
    <3>3. token_map'[id] = new
      BY <1>a, <3>1
    <3>4. SentTokens(id)' = SentTokens(id) /\ (id \in Asked)' = (id \in Asked)
      BY <1>b, <2>1 DEF Asked
    <3>5. PassedIsSent(id) => PassedIsSent(id)'
      BY <3>2, <3>3, <3>4 DEF PassedIsSent, Passed
    <3>6. id \in Asked => id \in rewound
      BY <1>a, <2>4 DEF BufferedOf
    <3>7. id \in ended' /\ token_map'[id].is_finished
      BY <3>1, <3>2, <3>3
    <3>8. id \in rewound => PassedIsSent(id)
      BY <1>a DEF BufferedOf
    <3> QED
      BY <2>1, <3>4, <3>5, <3>6, <3>7, <3>8 DEF BufferedOf
  <2> QED
    BY <2>2, <2>3, <2>4
<1>4. ASSUME NEW x \in Ids, resetOutput(x)
      PROVE  BufferedOf(id)'
  <2>1. UNCHANGED <<ended, sent, client_requests>> /\ rewound' = rewound \cup {x}
    BY <1>4 DEF resetOutput
  <2>2. CASE x # id
    <3>1. token_map'[id] = token_map[id] /\ (id \in rewound)' = (id \in rewound)
      BY <1>4, <1>a, <2>2 DEF resetOutput
    <3> QED
      BY <1>d, <2>1, <3>1
  <2>3. CASE x = id
    <3> DEFINE new == AfterResetOutput(token_map[id])
    <3>1. /\ HasList(id) /\ token_map[id].is_finished
          /\ token_map' = [token_map EXCEPT ![id] = new]
      BY <1>4, <2>3 DEF resetOutput
    <3>2. /\ new.output_ptr = IF token_map[id].tokens = <<>> THEN 0 ELSE 1
          /\ new.is_finished = token_map[id].is_finished
          /\ new.tokens = token_map[id].tokens
      <4>1. ListOf(token_map[id], produced[id]) /\ produced[id] \in 0 .. MaxTokens
        BY <1>a, <3>1, SentAreNumbers
      <4> QED
        BY <4>1, ListCalls
    <3> HIDE DEF new
    <3>3. token_map'[id] = new /\ id \in rewound'
      BY <1>a, <2>1, <2>3, <3>1
    <3>4. id \in ended /\ id \in ended'
      BY <1>a, <2>1, <3>1 DEF BufferedOf
    <3>5. \A k \in DOMAIN new.tokens : ~Passed(new, k)
      BY <1>a, <3>1, <3>2, SentAreNumbers DEF Passed
    <3>6. PassedIsSent(id)'
      BY <3>3, <3>5 DEF PassedIsSent
    <3> QED
      BY <3>1, <3>2, <3>3, <3>4, <3>6 DEF BufferedOf
  <2> QED
    BY <2>2, <2>3
<1>5. CASE serve
  <2>1. CASE UNCHANGED <<token_map, sent>>
    BY <1>1, <1>5, <2>1, ServeEffect
  <2>2. CASE ~UNCHANGED <<token_map, sent>> /\ id # ServedId
    <3>1. PICK x \in Ids : x = ServedId
      BY <1>5, ServeEffect
    <3> DEFINE list == token_map[x]
               p    == list.output_ptr
    <3>2. /\ UNCHANGED <<ended, rewound>> /\ ListOf(list, produced[x]) /\ HasList(x)
          /\ \A j \in Ids \ {x} : token_map'[j] = token_map[j]
          /\ \/ p = 0 /\ sent' = sent
             \/ /\ p \in DOMAIN list.tokens
                /\ \E c \in Clients :
                      sent' = [sent EXCEPT ![c] = @ \o <<<<x, list.tokens[p]>>>>]
      BY <1>5, <2>2, <3>1, ServeEffect
    <3>3. token_map'[id] = token_map[id] /\ (id \in rewound)' = (id \in rewound)
      BY <1>a, <2>2, <3>1, <3>2
    <3>4. SentTokens(id)' = SentTokens(id)
      <4>1. CASE sent' = sent
        BY <1>b, <4>1
      <4>2. CASE sent' # sent
        <5>1. PICK c \in Clients : sent' = [sent EXCEPT ![c] = @ \o <<<<x, list.tokens[p]>>>>]
          BY <3>2, <4>2
        <5>2. list.tokens[p] \in 1 .. MaxTokens
          <6>1. p \in DOMAIN list.tokens /\ list.tokens \in Seq(1 .. MaxTokens)
            BY <3>2, <4>2 DEF ListOf, TokenList
          <6> QED
            BY <6>1
        <5> HIDE DEF list, p
        <5> QED
          BY <1>a, <2>2, <3>1, <5>1, <5>2, SentGrows
      <4> QED
        BY <4>1, <4>2
    <3>5. (id \in ended)' = (id \in ended)
      BY <3>2
    <3> QED
      BY <1>a, <1>c, <3>3, <3>4, <3>5, BufferedUntouched
  <2>3. CASE ~UNCHANGED <<token_map, sent>> /\ id = ServedId
    <3> DEFINE list == token_map[id]
               ptr  == IF list.output_ptr \in 1 .. Len(list.tokens) - 1
                       THEN list.output_ptr + 1 ELSE 0
    <3>1. /\ UNCHANGED <<ended, rewound>> /\ HasList(id)
          /\ token_map'[id].tokens = list.tokens
          /\ token_map'[id].is_finished = list.is_finished
          /\ token_map'[id].output_ptr = ptr
      BY <1>5, <2>3, ServeEffect
    <3>2. id \in Asked /\ id \in ended /\ id \in rewound /\ PassedIsSent(id)
      <4>1. id \in Asked
        BY <1>5, <2>3 DEF serve, ServedId, Asked
      <4> QED
        BY <1>a, <3>1, <4>1 DEF BufferedOf
    <3>3. \A k \in DOMAIN list.tokens :
             ptr = 0 \/ k < ptr => list.tokens[k] \in SentTokens(id)'
      BY <1>5, <1>a, <2>3, <3>2, ServeSends
    <3>4. id \in ended' /\ id \in rewound'
      BY <3>1, <3>2
    <3> HIDE DEF ptr
    <3>5. PassedIsSent(id)'
      BY <3>1, <3>3 DEF PassedIsSent, Passed
    <3>6. list.is_finished
      BY <1>a, <3>1, <3>2 DEF BufferedOf
    <3> QED
      BY <3>1, <3>4, <3>5, <3>6 DEF BufferedOf
  <2> QED
    BY <2>1, <2>2, <2>3
<1>8. CASE endTurn
  <2>1. /\ UNCHANGED <<ended, sent>>
        /\ \/ UNCHANGED <<token_map, rewound>>
           \/ /\ token_map'[ServedId] = nullptr
              /\ \A j \in Ids \ {ServedId} : token_map'[j] = token_map[j]
              /\ rewound' = rewound \ {ServedId}
    BY <1>8, EndTurnEffect
  <2>2. CASE UNCHANGED <<token_map, rewound>>
    BY <1>1, <2>1, <2>2
  <2>3. CASE ~UNCHANGED <<token_map, rewound>> /\ id # ServedId
    <3>1. token_map'[id] = token_map[id] /\ (id \in rewound)' = (id \in rewound)
      BY <1>a, <2>1, <2>3
    <3> QED
      BY <1>d, <2>1, <3>1
  <2>4. CASE ~UNCHANGED <<token_map, rewound>> /\ id = ServedId
    <3>1. id \notin rewound' /\ ~HasList(id)'
      BY <2>1, <2>4 DEF HasList
    <3>2. id \in Asked /\ id \in ended'
      <4>1. id \in Asked
        BY <1>8, <2>4, EndTurnAsked
      <4>2. id \in ended
        BY <1>a, <4>1 DEF BufferedOf
      <4> QED
        BY <2>1, <4>1, <4>2
    <3> QED
      BY <3>1, <3>2 DEF BufferedOf
  <2> QED
    BY <2>2, <2>3, <2>4
<1>6. CASE \/ UNCHANGED streamVars \/ beginPass \/ endPass
           \/ \E x \in Ids : \E client \in Clients : registerRequest(client, x)
  BY <1>1, <1>6 DEF streamVars, beginPass, endPass, registerRequest
<1> QED
  BY <1>2, <1>3, <1>4, <1>5, <1>6, <1>7, <1>8 DEF Next, Pass

\* Only the pass deletes a list, and only when all of it has been sent.
LEMMA DeletesWhatIsSent ==
    ASSUME StreamTypes, StreamTypes', BufferedInv, [Next]_streamVars,
           NEW id \in BufferedIds, Deletes(id)
    PROVE  AllSent(id)
<1>a. /\ token_map \in [Ids -> TokenList \cup {nullptr}] /\ id \in Ids /\ BufferedOf(id)
      /\ HasList(id) /\ token_map'[id] = nullptr /\ token_map' # token_map
      /\ produced \in [Ids -> 0 .. MaxTokens]
  BY StreamAssumption DEF StreamTypes, TypeOK, BufferedInv, Deletes, HasList
<1>1. ASSUME NEW x \in Ids,
             \/ addToken(x) \/ addNullToken(x)
             \/ markTokenStreamFinished(x) \/ resetOutput(x)
      PROVE  FALSE
  <2>1. PICK list : token_map' = [token_map EXCEPT ![x] = list]
    BY <1>1, <1>a DEF addToken, addNullToken, markTokenStreamFinished, resetOutput
  <2>2. x = id
    BY <1>a, <2>1 DEF HasList
  <2>3. ListOf(token_map[id], produced[id])
    BY <1>a, SentAreNumbers
  <2>4. CASE addToken(id)
    <3>1. /\ token_map'[id] = Appended(token_map[id], produced[id] + 1)
          /\ produced[id] \in Nat /\ produced[id] < MaxTokens
      BY <1>a, <2>4, SentAreNumbers DEF addToken
    <3>2. ListOf(token_map'[id], produced[id] + 1)
      BY <2>3, <3>1, ListAppends
    <3> QED
      BY <1>a, <3>2, NullAssumption DEF ListOf
  <2>5. CASE markTokenStreamFinished(id) \/ resetOutput(id)
    <3>1. \/ token_map'[id] = [token_map[id] EXCEPT !.is_finished = TRUE]
          \/ token_map'[id] = AfterResetOutput(token_map[id])
      BY <1>a, <2>5 DEF markTokenStreamFinished, resetOutput
    <3>2. ListOf(token_map'[id], produced[id])
      <4>1. /\ ListOf([token_map[id] EXCEPT !.is_finished = TRUE], produced[id])
            /\ ListOf(AfterResetOutput(token_map[id]), produced[id])
        BY <1>a, <2>3, ListCalls
      <4> QED
        BY <3>1, <4>1
    <3> QED
      BY <1>a, <3>2, NullAssumption DEF ListOf
  <2>6. ~addNullToken(id)
    BY <1>a DEF addNullToken
  <2> QED
    BY <1>1, <2>2, <2>4, <2>5, <2>6
<1>2. ~serve
  <2> SUFFICES ASSUME serve
               PROVE  FALSE
    OBVIOUS
  <2>1. \/ token_map' = token_map
        \/ /\ ServedId \in Ids /\ token_map'[ServedId] # nullptr
           /\ \A j \in Ids \ {ServedId} : token_map'[j] = token_map[j]
    BY ServeEffect
  <2> QED
    BY <1>a, <2>1 DEF HasList
<1>3. endTurn
  BY <1>1, <1>2, <1>a DEF Next, Pass, streamVars, beginPass, endPass, registerRequest
<1>4. id = ServedId /\ token_map[id].output_ptr = 0 /\ sent' = sent
  BY <1>3, <1>a, EndTurnEffect DEF HasList
<1>5. PassedIsSent(id)
  <2>1. id \in Asked
    BY <1>3, <1>4, EndTurnAsked
  <2> QED
    BY <1>a, <2>1 DEF BufferedOf
<1>6. \A k \in DOMAIN token_map[id].tokens : token_map[id].tokens[k] \in SentTokens(id)
  BY <1>4, <1>5 DEF PassedIsSent, Passed
<1>7. SentTokens(id)' = SentTokens(id)
  BY <1>4 DEF SentTokens
<1> QED
  BY <1>6, <1>7 DEF AllSent, Range

\* Nothing has been asked for yet.
LEMMA BufferedInit == Init => BufferedInv
<1> SUFFICES ASSUME Init, NEW id \in BufferedIds
             PROVE  BufferedOf(id)
  BY DEF BufferedInv
<1>1. ~HasList(id) /\ id \notin rewound /\ id \notin Asked
  BY StreamAssumption DEF Init, HasList, Asked
<1> QED
  BY <1>1 DEF BufferedOf

\* "Completely finished: all tokens sent and the stream ended"
\* (task_manager.h:73, client_manager.cpp:140) is true of each id that is
\* registered after its list was finished and rewound, however many clients
\* draw on that list.
THEOREM BufferedSent == Spec => BufferedIsSent
<1>1. StreamTypes /\ BufferedInv /\ [Next]_streamVars => StreamTypes' /\ BufferedInv'
  BY TypeStep, BufferedStep
<1>2. StreamTypes /\ StreamTypes' /\ BufferedInv /\ [Next]_streamVars
        => [\A id \in BufferedIds : Deletes(id) => AllSent(id)]_streamVars
  BY DeletesWhatIsSent
<1> QED
  BY TypesInit, BufferedInit, <1>1, <1>2, PTL DEF Spec, BufferedIsSent

============================================================================
