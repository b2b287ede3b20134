------------------------- MODULE MessageCodecProofs -------------------------
(***************************************************************************)
(* Proofs about MessageCodec, for any contents and any number of texts.    *)
(*                                                                         *)
(*   ObjectHolds        the inductive invariant about the object, and      *)
(*   TypeCorrect        TypeOK, which follows from it                      *)
(*   TextsHold          a second one about the texts, from which follow    *)
(*   RoundTripHolds     that reading undoes building and dumping           *)
(*   ParsersAgreeHolds  that the engine's parser finds the same request    *)
(***************************************************************************)
EXTENDS MessageCodec, TLAPS

----------------------------------------------------------------------------
\* The values of an object, each of the JSON type of its key and written
\* under it.
FieldOK(field) == field = [key \in Keys |-> Good(key, field[key].v)]

\* The values of a text, each written under the key where it is found, of
\* whatever type.
UnderOwnKeys(values) ==
    values = [key \in DOMAIN values |-> Value(values[key].kind, key, values[key].v)]

\* What makes TypeOK inductive: no text, not even a peer's, has a value that was
\* written under another key.
ObjectInv ==
    /\ class \in DOMAIN InitialType
    /\ out_msg = [type |-> out_msg.type, field |-> out_msg.field]
    /\ out_msg.type \in Types \cup {"UNKNOWN"}
    /\ FieldOK(out_msg.field)
    /\ wire = [type |-> wire.type, key |-> wire.key, whole |-> wire.whole]
    /\ UnderOwnKeys(wire.key)
    /\ uses \in 0 .. MaxUses
    /\ reads \in BOOLEAN

\* A text that comes from a builder is what that builder makes of good values.
Built ==
    source \in Builders =>
        /\ wire = Build(source, wire.key)
        /\ \A key \in Written[source] : wire.key[key].kind = KindOf(key)

\* A dumped text has every key of an object.
Dumped ==
    source = "dump" =>
        /\ \E type \in {"request", "response"} : wire = Json(type, wire.key)
        /\ FieldOK(wire.key)

\* Nothing has happened to the text nor to the object since it was read.
ReadFrom ==
    reads => /\ out_msg.type = get_message_type(wire)
             /\ \A key \in Keys \cap DOMAIN wire.key :
                   wire.key[key].kind = KindOf(key) => out_msg.field[key] = wire.key[key]

TextInv == Built /\ Dumped /\ ReadFrom

----------------------------------------------------------------------------
\* The keys of the three JSON types are distinct.
LEMMA KindCases ==
    /\ \A key \in Strings : KindOf(key) = "string"
    /\ \A key \in Numbers : KindOf(key) = "number"
    /\ \A key \in Booleans : KindOf(key) = "boolean"
BY DEF KindOf, Strings, Numbers, Booleans

\* Every builder writes keys of a message, under a type of its own.
LEMMA WrittenKeys ==
    ASSUME NEW builder \in Builders
    PROVE  /\ Written[builder] \subseteq Keys
           /\ TypeWritten(builder) \in Types
           /\ builder # "peer" /\ builder # "dump"
<1>1. Builders = {"request", "task", "response", "stream_response", "error", "client_error",
                  "heartbeat", "status", "infer_response"}
  BY DEF Builders, Written
<1>2. TypeWritten(builder) \in Types
  BY <1>1 DEF TypeWritten, Types
<1>3. Written[builder] \subseteq Keys
  BY <1>1 DEF Written, Keys, Strings, Numbers, Booleans
<1> QED
  BY <1>1, <1>2, <1>3

\* A text has at most one type, so get_message_type finds the one it has.
LEMMA OneType ==
    ASSUME NEW text, NEW type \in Types, is_type(text, type)
    PROVE  get_message_type(text) = type
BY DEF get_message_type, is_type

\* Whatever the text, it finds one of the types of a message.
LEMMA TypeFound ==
    ASSUME NEW text
    PROVE  get_message_type(text) \in Types \cup {"UNKNOWN"}
BY DEF get_message_type

\* The parts of a value.
LEMMA ValueParts ==
    \A kind, key, v : /\ Value(kind, key, v).kind = kind
                      /\ Value(kind, key, v).key = key
                      /\ Value(kind, key, v).v = v
BY DEF Value

\* Values that are built to be good, and those of a new object, are.
LEMMA GoodFields ==
    /\ \A field : FieldOK(field) <=>
          /\ field = [key \in Keys |-> field[key]]
          /\ \A key \in Keys : field[key] = Value(KindOf(key), key, field[key].v)
    /\ FieldOK(Fresh.field)
<1>1. ASSUME NEW field
      PROVE  FieldOK(field) <=>
               /\ field = [key \in Keys |-> field[key]]
               /\ \A key \in Keys : field[key] = Value(KindOf(key), key, field[key].v)
  BY DEF FieldOK, Good
<1>2. \A key \in Keys : Fresh.field[key] = Value(KindOf(key), key, Fresh.field[key].v)
  BY DEF Fresh, New, Default, Good, Value
<1>3. Fresh.field = [key \in Keys |-> Fresh.field[key]]
  BY DEF Fresh, New
<1> QED
  BY <1>1, <1>2, <1>3

\* A new object has a type and good values, whatever its class is.
LEMMA NewObject ==
    ASSUME NEW c \in DOMAIN InitialType
    PROVE  /\ New(c) = [type |-> New(c).type, field |-> New(c).field]
           /\ New(c).type \in Types \cup {"UNKNOWN"}
           /\ FieldOK(New(c).field)
<1>1. New(c).field = Fresh.field
  BY DEF New, Fresh
<1>2. New(c).type \in Types \cup {"UNKNOWN"}
  BY DEF New, InitialType, Types
<1>3. New(c) = [type |-> New(c).type, field |-> New(c).field]
  BY DEF New
<1> QED
  BY <1>1, <1>2, <1>3, GoodFields

\* Reading keeps an object's values good, whatever a peer has put in the text.
LEMMA ReadKeepsGood ==
    ASSUME NEW text, UnderOwnKeys(text.key), NEW obj, FieldOK(obj.field)
    PROVE  FieldOK(from_json(text, obj))
<1> DEFINE field == from_json(text, obj)
<1>1. /\ field = [key \in Keys |-> field[key]]
      /\ \A key \in Keys : field[key] = Read(text, key, obj.field[key])
  BY DEF from_json
<1>2. ASSUME NEW key \in Keys
      PROVE  Read(text, key, obj.field[key])
               = Value(KindOf(key), key, Read(text, key, obj.field[key]).v)
  <2>1. obj.field[key] = Value(KindOf(key), key, obj.field[key].v)
    BY GoodFields
  <2>2. ASSUME key \in DOMAIN text.key, text.key[key].kind = KindOf(key)
        PROVE  text.key[key] = Value(KindOf(key), key, text.key[key].v)
    BY <2>2 DEF UnderOwnKeys
  <2> QED
    BY <2>1, <2>2 DEF Read
<1>3. \A key \in Keys : field[key] = Value(KindOf(key), key, field[key].v)
  <2> HIDE DEF field
  <2> QED
    BY <1>1, <1>2
<1>4. FieldOK(field)
  <2> HIDE DEF field
  <2> QED
    BY <1>1, <1>3, GoodFields
<1> QED
  BY <1>4

\* What a builder makes of an argument that is good for the keys it writes.
LEMMA BuildGood ==
    ASSUME NEW builder \in Builders, NEW arg,
           \A key \in Written[builder] : arg[key] = Good(key, arg[key].v)
    PROVE  LET text == Build(builder, arg)
           IN  /\ text = [type |-> text.type, key |-> text.key, whole |-> text.whole]
               /\ UnderOwnKeys(text.key)
               /\ text = Build(builder, text.key)
               /\ \A key \in Written[builder] : text.key[key].kind = KindOf(key)
<1> DEFINE values == [key \in Written[builder] |-> arg[key]]
<1>1. Build(builder, arg) = [type  |-> Value("string", "type", TypeWritten(builder)),
                             key   |-> values,
                             whole |-> TRUE]
  BY DEF Build, Json
<1>2. /\ DOMAIN values = Written[builder]
      /\ \A key \in Written[builder] : values[key] = Value(KindOf(key), key, values[key].v)
      /\ values = [key \in Written[builder] |-> values[key]]
  BY DEF Good
<1> HIDE DEF values
<1>3. \A key \in Written[builder] : values[key].kind = KindOf(key)
  BY <1>2, ValueParts
<1>4. UnderOwnKeys(values)
  BY <1>2, <1>3 DEF UnderOwnKeys
<1>5. Build(builder, values) = Build(builder, arg)
  BY <1>1, <1>2 DEF Build, Json
<1> QED
  BY <1>1, <1>3, <1>4, <1>5

\* A dumped object is a text with a value under every key.
LEMMA DumpGood ==
    ASSUME NEW type, NEW obj, FieldOK(obj.field)
    PROVE  LET text == to_json(type, obj)
           IN  /\ text = [type |-> text.type, key |-> text.key, whole |-> text.whole]
               /\ UnderOwnKeys(text.key)
               /\ FieldOK(text.key)
               /\ text = Json(type, text.key)
<1>1. to_json(type, obj) = [type  |-> Value("string", "type", type),
                            key   |-> obj.field,
                            whole |-> TRUE]
  BY DEF to_json, Json
<1>2. UnderOwnKeys(obj.field)
  <2>1. \A key \in Keys : obj.field[key].kind = KindOf(key)
    BY GoodFields, ValueParts
  <2>2. DOMAIN obj.field = Keys
    BY DEF FieldOK
  <2> QED
    BY <2>1, <2>2, GoodFields DEF UnderOwnKeys
<1> QED
  BY <1>1, <1>2 DEF Json

\* The three slips of a peer that leave something to read keep what is left
\* under its own key.
LEMMA SlipsKeepKeys ==
    ASSUME NEW values, UnderOwnKeys(values), NEW key \in DOMAIN values
    PROVE  /\ UnderOwnKeys(Restrict(values, DOMAIN values \ {key}))
           /\ UnderOwnKeys([values EXCEPT ![key].kind = "other"])
<1>1. UnderOwnKeys(Restrict(values, DOMAIN values \ {key}))
  BY DEF UnderOwnKeys, Restrict
<1>2. UnderOwnKeys([values EXCEPT ![key].kind = "other"])
  <2> DEFINE wrong == [values EXCEPT ![key].kind = "other"]
  <2>1. \A kind, k, v : [Value(kind, k, v) EXCEPT !.kind = "other"] = Value("other", k, v)
    BY DEF Value
  <2>2. \A k \in DOMAIN values : values[k] = Value(values[k].kind, k, values[k].v)
    BY DEF UnderOwnKeys
  <2>3. wrong[key] = Value("other", key, values[key].v)
    BY <2>1, <2>2
  <2>4. /\ wrong = [k \in DOMAIN values |-> wrong[k]]
        /\ \A k \in DOMAIN values \ {key} : wrong[k] = values[k]
    BY DEF UnderOwnKeys
  <2> HIDE DEF wrong
  <2>5. \A k \in DOMAIN values : wrong[k] = Value(wrong[k].kind, k, wrong[k].v)
    BY <2>2, <2>3, <2>4 DEF Value
  <2>6. UnderOwnKeys(wrong)
    BY <2>4, <2>5 DEF UnderOwnKeys
  <2> QED
    BY <2>6 DEF wrong
<1> QED
  BY <1>1, <1>2

\* The engine has a good id for each request that it accepts.
LEMMA AcceptedId ==
    ASSUME NEW text, UnderOwnKeys(text.key), InferAccepts(text)
    PROVE  InferRequest(text)["id"] = Good("id", InferRequest(text)["id"].v)
<1>1. "id" \in InferKeys /\ InferDefault("id") = Good("id", "default")
  BY DEF InferKeys, InferDefault
<1>2. InferRequest(text)["id"] = IF "id" \in DOMAIN text.key THEN text.key["id"]
                                 ELSE InferDefault("id")
  BY <1>1 DEF InferRequest
<1>3. ASSUME "id" \in DOMAIN text.key
      PROVE  text.key["id"] = Good("id", text.key["id"].v)
  <2>1. text.key["id"] = Value(text.key["id"].kind, "id", text.key["id"].v)
    BY <1>3 DEF UnderOwnKeys
  <2>2. text.key["id"].kind = KindOf("id")
    BY <1>1, <1>3 DEF InferAccepts
  <2> QED
    BY <2>1, <2>2 DEF Good
<1> QED
  BY <1>1, <1>2, <1>3, ValueParts DEF Good

\* A record with three parts, written so that a change of one part can be read
\* off.
LEMMA TextParts ==
    ASSUME NEW text, text = [type |-> text.type, key |-> text.key, whole |-> text.whole]
    PROVE  /\ \A values : [text EXCEPT !.key = values]
                            = [type |-> text.type, key |-> values, whole |-> text.whole]
           /\ \A type : [text EXCEPT !.type = type]
                          = [type |-> type, key |-> text.key, whole |-> text.whole]
<1> DEFINE r(t, k, w) == [type |-> t, key |-> k, whole |-> w]
<1>1. \A t, k, w, x : /\ [r(t, k, w) EXCEPT !.key = x] = r(t, x, w)
                      /\ [r(t, k, w) EXCEPT !.type = x] = r(x, k, w)
  OBVIOUS
<1> QED
  BY <1>1

----------------------------------------------------------------------------
\* No text a peer can send puts a value of the wrong type into the object, nor
\* one under another key than its own.
THEOREM ObjectHolds == Spec => []ObjectInv
<1>1. Init => ObjectInv
  <2> SUFFICES ASSUME Init
               PROVE  ObjectInv
    OBVIOUS
  <2>1. /\ class \in DOMAIN InitialType /\ FieldOK(out_msg.field)
        /\ out_msg = [type |-> out_msg.type, field |-> out_msg.field]
        /\ out_msg.type \in Types \cup {"UNKNOWN"}
    BY NewObject DEF Init
  <2>2. wire.key = << >>
    BY DEF Init, Garbage
  <2>3. UnderOwnKeys(wire.key)
    BY <2>2 DEF UnderOwnKeys
  <2>5. wire = [type |-> wire.type, key |-> wire.key, whole |-> wire.whole]
    BY DEF Init, Garbage
  <2>6. uses = 0 /\ 0 \in 0 .. MaxUses
    BY CodecAssumption DEF Init
  <2>7. reads \in BOOLEAN
    BY DEF Init
  <2> QED
    BY <2>1, <2>3, <2>5, <2>6, <2>7 DEF ObjectInv
<1>2. ObjectInv /\ [Next]_vars => ObjectInv'
  <2> SUFFICES ASSUME ObjectInv, [Next]_vars
               PROVE  ObjectInv'
    OBVIOUS
  <2>1. CASE UNCHANGED vars
    BY <2>1 DEF ObjectInv, vars
  <2>2. ASSUME NEW text, NEW from, Sends(text, from), UnderOwnKeys(text.key),
               text = [type |-> text.type, key |-> text.key, whole |-> text.whole]
        PROVE  ObjectInv'
    BY <2>2 DEF ObjectInv, Sends
  <2>3. ASSUME NEW builder \in Builders, build(builder)
        PROVE  ObjectInv'
    <3>1. PICK v \in Contents, b \in {"true", "false"} :
             Sends(Build(builder, [key \in Keys |->
                                     Good(key, IF key \in Booleans THEN b ELSE v)]),
                   builder)
      BY <2>3 DEF build
    <3> DEFINE arg == [key \in Keys |-> Good(key, IF key \in Booleans THEN b ELSE v)]
    <3>2. \A key \in Written[builder] : arg[key] = Good(key, arg[key].v)
      BY WrittenKeys, ValueParts DEF Good
    <3> HIDE DEF arg
    <3> DEFINE text == Build(builder, arg)
    <3>3. /\ text = [type |-> text.type, key |-> text.key, whole |-> text.whole]
          /\ UnderOwnKeys(text.key)
      BY <3>2, BuildGood
    <3>4. Sends(text, builder)
      BY <3>1 DEF arg
    <3> HIDE DEF text
    <3> QED
      BY <2>2, <3>3, <3>4
  <2>4. ASSUME NEW type, dump_message(type)
        PROVE  ObjectInv'
    <3> DEFINE text == to_json(type, out_msg)
    <3>1. /\ text = [type |-> text.type, key |-> text.key, whole |-> text.whole]
          /\ UnderOwnKeys(text.key)
      BY DumpGood DEF ObjectInv
    <3>2. Sends(text, "dump")
      BY <2>4 DEF dump_message
    <3> HIDE DEF text
    <3> QED
      BY <2>2, <3>1, <3>2
  <2>5. ASSUME NEW builder \in {"response", "infer_response"}, NEW id, id = Good("id", id.v),
               NEW v,
               Sends(Build(builder, [id       |-> id,
                                     result   |-> Good("result", v),
                                     finished |-> Good("finished", "true")]),
                     builder)
        PROVE  ObjectInv'
    <3> DEFINE arg == [id       |-> id,
                       result   |-> Good("result", v),
                       finished |-> Good("finished", "true")]
               text == Build(builder, arg)
    <3>1. Written[builder] = {"id", "result", "finished"} /\ builder \in Builders
      BY DEF Written, Builders
    <3>2. \A key \in Written[builder] : arg[key] = Good(key, arg[key].v)
      BY <2>5, <3>1, ValueParts DEF Good
    <3>3. Sends(text, builder)
      BY <2>5
    <3> HIDE DEF arg
    <3>4. /\ text = [type |-> text.type, key |-> text.key, whole |-> text.whole]
          /\ UnderOwnKeys(text.key)
      BY <3>1, <3>2, BuildGood
    <3> HIDE DEF text
    <3> QED
      BY <2>2, <3>3, <3>4
  <2>6. CASE handle_inference_task
    <3>1. PICK v \in Contents :
            Sends(Build("response", [id       |-> out_msg.field["id"],
                                     result   |-> Good("result", v),
                                     finished |-> Good("finished", "true")]),
                  "response")
      BY <2>6 DEF handle_inference_task
    <3>2. out_msg.field["id"] = Good("id", out_msg.field["id"].v)
      BY GoodFields DEF ObjectInv, Keys, Strings, Good
    <3> QED
      BY <2>5, <3>1, <3>2
  <2>7. CASE engine_answers
    <3>1. PICK v \in Contents :
            Sends(Build("infer_response", [id       |-> InferRequest(wire)["id"],
                                           result   |-> Good("result", v),
                                           finished |-> Good("finished", "true")]),
                  "infer_response")
      BY <2>7 DEF engine_answers
    <3>2. InferRequest(wire)["id"] = Good("id", InferRequest(wire)["id"].v)
      BY <2>7, AcceptedId DEF engine_answers, ObjectInv
    <3> QED
      BY <2>5, <3>1, <3>2
  <2>8. CASE peer
    <3> DEFINE TextOK(text) ==
                 /\ text = [type |-> text.type, key |-> text.key, whole |-> text.whole]
                 /\ UnderOwnKeys(text.key)
    <3>0. TextOK(wire)
      BY DEF ObjectInv
    <3>1. ASSUME NEW key \in DOMAIN wire.key
          PROVE  /\ TextOK([wire EXCEPT !.key = Restrict(@, DOMAIN @ \ {key})])
                 /\ TextOK([wire EXCEPT !.key[key].kind = "other"])
      <4>1. [wire EXCEPT !.key = Restrict(@, DOMAIN @ \ {key})]
              = [wire EXCEPT !.key = Restrict(wire.key, DOMAIN wire.key \ {key})]
        BY <3>0
      <4>2. [wire EXCEPT !.key[key].kind = "other"]
              = [wire EXCEPT !.key = [wire.key EXCEPT ![key].kind = "other"]]
        BY <3>0
      <4> QED
        BY <3>0, <3>1, <4>1, <4>2, TextParts, SlipsKeepKeys
    <3>2. TextOK([wire EXCEPT !.type.kind = "other"])
      <4>1. [wire EXCEPT !.type.kind = "other"]
              = [wire EXCEPT !.type = [wire.type EXCEPT !.kind = "other"]]
        BY <3>0
      <4> QED
        BY <3>0, <4>1, TextParts
    <3>3. TextOK(Garbage)
      BY DEF Garbage, UnderOwnKeys
    <3>4. \E text : TextOK(text) /\ Sends(text, "peer")
      BY <2>8, <3>1, <3>2, <3>3 DEF peer
    <3> QED
      BY <2>2, <3>4
  <2>9. ASSUME NEW accepted, NEW type \in Types \cup {"UNKNOWN"}, parse_into(accepted, type)
        PROVE  ObjectInv'
    <3>1. FieldOK(from_json(wire, out_msg))
      BY ReadKeepsGood DEF ObjectInv
    <3>2. /\ out_msg' = [type |-> type, field |-> from_json(wire, out_msg)]
          /\ UNCHANGED <<wire, class>>
          /\ uses < MaxUses /\ uses' = uses + 1 /\ reads' = TRUE
      BY <2>9 DEF parse_into
    <3> QED
      BY <3>1, <3>2, CodecAssumption DEF ObjectInv
  <2>10. CASE newMessage
    BY <2>10, NewObject DEF newMessage, ObjectInv
  <2>11. ASSUME NEW type \in {"request", "response"}, parse_typed_message(type)
         PROVE  ObjectInv'
    BY <2>9, <2>11 DEF parse_typed_message, Types
  <2>12. CASE parse_message
    BY <2>9, <2>12, TypeFound DEF parse_message
  <2> QED
    BY <2>1, <2>3, <2>4, <2>6, <2>7, <2>8, <2>10, <2>11, <2>12 DEF Next
<1> QED
  BY <1>1, <1>2, PTL DEF Spec

\* A field holds a value of its own type that was written under its own key,
\* whatever peers send.
THEOREM TypeCorrect == Spec => []TypeOK
<1>1. ObjectInv => TypeOK
  <2> SUFFICES ASSUME ObjectInv
               PROVE  TypeOK
    OBVIOUS
  <2>1. \A key \in Keys : out_msg.field[key] = Value(KindOf(key), key, out_msg.field[key].v)
    BY GoodFields DEF ObjectInv
  <2>2. \A key \in Keys : /\ out_msg.field[key].kind = KindOf(key)
                          /\ out_msg.field[key].key = key
    BY <2>1, ValueParts
  <2> QED
    BY <2>2 DEF ObjectInv, TypeOK
<1> QED
  BY <1>1, ObjectHolds, PTL

----------------------------------------------------------------------------
\* What each source writes is what its name says, and the object is what was
\* last read, until something else happens to either.
THEOREM TextsHold == Spec => []TextInv
<1>1. Init => TextInv
  <2>1. "peer" \notin Builders
    BY DEF Builders, Written
  <2> QED
    BY <2>1 DEF Init, TextInv, Built, Dumped, ReadFrom
<1>2. ObjectInv /\ TextInv /\ [Next]_vars => TextInv'
  <2> SUFFICES ASSUME ObjectInv, TextInv, [Next]_vars
               PROVE  TextInv'
    OBVIOUS
  <2>1. CASE UNCHANGED vars
    BY <2>1 DEF TextInv, Built, Dumped, ReadFrom, vars
  <2>2. ASSUME NEW builder \in Builders, NEW arg,
               \A key \in Written[builder] : arg[key] = Good(key, arg[key].v),
               Sends(Build(builder, arg), builder)
        PROVE  TextInv'
    <3> DEFINE text == Build(builder, arg)
    <3>1. /\ text = Build(builder, text.key)
          /\ \A key \in Written[builder] : text.key[key].kind = KindOf(key)
      BY <2>2, BuildGood
    <3>2. wire' = text /\ source' = builder /\ reads' = FALSE
      BY <2>2 DEF Sends
    <3>3. builder # "dump"
      BY WrittenKeys
    <3> HIDE DEF text
    <3> QED
      BY <3>1, <3>2, <3>3 DEF TextInv, Built, Dumped, ReadFrom
  <2>3. ASSUME NEW builder \in Builders, build(builder)
        PROVE  TextInv'
    <3>1. PICK v \in Contents, b \in {"true", "false"} :
             Sends(Build(builder, [key \in Keys |->
                                     Good(key, IF key \in Booleans THEN b ELSE v)]),
                   builder)
      BY <2>3 DEF build
    <3> DEFINE arg == [key \in Keys |-> Good(key, IF key \in Booleans THEN b ELSE v)]
    <3>2. \A key \in Written[builder] : arg[key] = Good(key, arg[key].v)
      BY WrittenKeys, ValueParts DEF Good
    <3>3. Sends(Build(builder, arg), builder)
      BY <3>1
    <3> HIDE DEF arg
    <3> QED
      BY <2>2, <3>2, <3>3
  <2>4. ASSUME NEW type \in {"request", "response"}, dump_message(type)
        PROVE  TextInv'
    <3> DEFINE text == to_json(type, out_msg)
    <3>1. FieldOK(text.key) /\ text = Json(type, text.key)
      BY DumpGood DEF ObjectInv
    <3>2. wire' = text /\ source' = "dump" /\ reads' = FALSE
      BY <2>4 DEF dump_message, Sends
    <3>3. "dump" \notin Builders
      BY WrittenKeys
    <3> HIDE DEF text
    <3> QED
      BY <3>1, <3>2, <3>3 DEF TextInv, Built, Dumped, ReadFrom
  <2>5. ASSUME NEW builder \in {"response", "infer_response"}, NEW id, id = Good("id", id.v),
               NEW v,
               Sends(Build(builder, [id       |-> id,
                                     result   |-> Good("result", v),
                                     finished |-> Good("finished", "true")]),
                     builder)
        PROVE  TextInv'
    <3> DEFINE arg == [id       |-> id,
                       result   |-> Good("result", v),
                       finished |-> Good("finished", "true")]
    <3>1. Written[builder] = {"id", "result", "finished"} /\ builder \in Builders
      BY DEF Written, Builders
    <3>2. \A key \in Written[builder] : arg[key] = Good(key, arg[key].v)
      BY <2>5, <3>1, ValueParts DEF Good
    <3>3. Sends(Build(builder, arg), builder)
      BY <2>5
    <3> HIDE DEF arg
    <3> QED
      BY <2>2, <3>1, <3>2, <3>3
  <2>6. CASE handle_inference_task
    <3>1. PICK v \in Contents :
            Sends(Build("response", [id       |-> out_msg.field["id"],
                                     result   |-> Good("result", v),
                                     finished |-> Good("finished", "true")]),
                  "response")
      BY <2>6 DEF handle_inference_task
    <3>2. out_msg.field["id"] = Good("id", out_msg.field["id"].v)
      BY GoodFields DEF ObjectInv, Keys, Strings, Good
    <3> QED
      BY <2>5, <3>1, <3>2
  <2>7. CASE engine_answers
    <3>1. PICK v \in Contents :
            Sends(Build("infer_response", [id       |-> InferRequest(wire)["id"],
                                           result   |-> Good("result", v),
                                           finished |-> Good("finished", "true")]),
                  "infer_response")
      BY <2>7 DEF engine_answers
    <3>2. InferRequest(wire)["id"] = Good("id", InferRequest(wire)["id"].v)
      BY <2>7, AcceptedId DEF engine_answers, ObjectInv
    <3> QED
      BY <2>5, <3>1, <3>2
  <2>8. CASE peer
    <3>1. source' = "peer" /\ reads' = FALSE
      BY <2>8 DEF peer, Sends
    <3>2. "peer" \notin Builders
      BY WrittenKeys
    <3> QED
      BY <3>1, <3>2 DEF TextInv, Built, Dumped, ReadFrom
  <2>9. ASSUME NEW accepted, NEW type, parse_into(accepted, type),
               type = get_message_type(wire)
        PROVE  TextInv'
    <3>1. /\ out_msg' = [type |-> type, field |-> from_json(wire, out_msg)]
          /\ UNCHANGED <<wire, source>>
      BY <2>9 DEF parse_into
    <3>2. out_msg'.type = get_message_type(wire) /\ out_msg'.field = from_json(wire, out_msg)
      BY <2>9, <3>1
    <3>3. \A key \in Keys \cap DOMAIN wire.key :
             wire.key[key].kind = KindOf(key) => from_json(wire, out_msg)[key] = wire.key[key]
      BY DEF from_json, Read
    <3>4. ReadFrom'
      BY <3>1, <3>2, <3>3 DEF ReadFrom
    <3>5. (Built /\ Dumped)'
      BY <3>1 DEF TextInv, Built, Dumped
    <3> QED
      BY <3>4, <3>5 DEF TextInv
  <2>10. CASE newMessage
    BY <2>10 DEF newMessage, TextInv, Built, Dumped, ReadFrom
  <2>11. ASSUME NEW type \in {"request", "response"}, parse_typed_message(type)
         PROVE  TextInv'
    <3>1. is_type(wire, type) /\ type \in Types
      BY <2>11 DEF parse_typed_message, parse_into, Types
    <3> QED
      BY <2>9, <2>11, <3>1, OneType DEF parse_typed_message
  <2>12. CASE parse_message
    BY <2>9, <2>12 DEF parse_message
  <2> QED
    BY <2>1, <2>3, <2>4, <2>6, <2>7, <2>8, <2>10, <2>11, <2>12 DEF Next
<1> QED
  BY <1>1, <1>2, ObjectHolds, PTL DEF Spec

----------------------------------------------------------------------------
\* Reading a dumped object gives its fields back, whatever the reading object
\* held: each key of Message::to_json is one that from_json looks for.
LEMMA DumpRead ==
    ASSUME NEW field, FieldOK(field), NEW type, NEW obj
    PROVE  from_json(to_json(type, [field |-> field]), obj) = field
<1> DEFINE text == to_json(type, [field |-> field])
<1>1. text.key = field
  BY DEF to_json, Json
<1>2. /\ DOMAIN field = Keys /\ field = [key \in Keys |-> field[key]]
      /\ \A key \in Keys : field[key].kind = KindOf(key)
  BY GoodFields, ValueParts
<1> HIDE DEF text
<1>3. \A key \in Keys : Read(text, key, obj.field[key]) = field[key]
  BY <1>1, <1>2 DEF Read
<1>4. from_json(text, obj) = field
  BY <1>2, <1>3 DEF from_json
<1> QED
  BY <1>4 DEF text

\* A task context whose members have their types.
ContextOK(ctx) ==
    /\ ctx = [key \in Range(ContextKeys) |-> ctx[key]]
    /\ \A key \in Range(ContextKeys) :
          IF key \in Nested THEN FieldOK(ctx[key]) ELSE ctx[key].kind = ContextKind(key)

\* TaskContext::from_json undoes to_json, for every context and whatever the
\* object held before: none of its ten reads throws.
LEMMA ContextComesBack ==
    ASSUME NEW ctx, ContextOK(ctx), NEW old
    PROVE  context_from_json(context_to_json(ctx), old) = ctx
<1> DEFINE json == context_to_json(ctx)
           throws(key) == /\ key \in DOMAIN json \ Nested
                          /\ json[key].kind # ContextKind(key)
           reached == {ContextKeys[k] : k \in {n \in DOMAIN ContextKeys :
                                               \A m \in 1 .. n : ~throws(ContextKeys[m])}}
           read(key) == IF key \in Nested
                        THEN IF key \in DOMAIN json /\ json[key].kind = "object"
                             THEN from_json(json[key].text, [field |-> old[key]])
                             ELSE old[key]
                        ELSE IF key \in DOMAIN json THEN json[key] ELSE FreshContext[key]
<1>1. /\ DOMAIN json = Range(ContextKeys)
      /\ \A key \in Range(ContextKeys) \ Nested : json[key] = ctx[key]
      /\ \A key \in Range(ContextKeys) \cap Nested :
            /\ json[key].kind = "object"
            /\ json[key].text = to_json(key, [field |-> ctx[key]])
  BY DEF context_to_json
<1>2. context_from_json(json, old)
        = [key \in Range(ContextKeys) |-> IF key \in reached THEN read(key) ELSE old[key]]
  BY DEF context_from_json
<1> HIDE DEF json
<1>3. \A key : ~throws(key)
  BY <1>1 DEF ContextOK
<1>4. reached = Range(ContextKeys)
  <2> HIDE DEF throws
  <2> QED
    BY <1>3 DEF Range
<1>5. \A key \in Range(ContextKeys) : read(key) = ctx[key]
  <2> SUFFICES ASSUME NEW key \in Range(ContextKeys)
               PROVE  read(key) = ctx[key]
    OBVIOUS
  <2>1. CASE key \in Nested
    <3>1. FieldOK(ctx[key])
      BY <2>1 DEF ContextOK
    <3>2. from_json(to_json(key, [field |-> ctx[key]]), [field |-> old[key]]) = ctx[key]
      BY <3>1, DumpRead
    <3> QED
      BY <1>1, <2>1, <3>2
  <2>2. CASE key \notin Nested
    BY <1>1, <2>2
  <2> QED
    BY <2>1, <2>2
<1> HIDE DEF reached, read
<1>6. context_from_json(json, old) = [key \in Range(ContextKeys) |-> ctx[key]]
  BY <1>2, <1>4, <1>5
<1> QED
  BY <1>6 DEF json, ContextOK

\* So a context is restored from its JSON form, with the object in place of its
\* two messages.
LEMMA ContextIsRestored ==
    ASSUME FieldOK(out_msg.field)
    PROVE  ContextRestored
<1> DEFINE holding(v, field) == [key \in DOMAIN FreshContext |->
                                   IF key \in Nested THEN field
                                   ELSE [FreshContext[key] EXCEPT !.v = v]]
<1> SUFFICES ASSUME NEW old \in {"default", "saved"}, NEW new \in {"default", "saved"}
             PROVE  context_from_json(context_to_json(holding(new, out_msg.field)),
                                      holding(old, Fresh.field))
                      = holding(new, out_msg.field)
  BY DEF ContextRestored
<1> DEFINE ctx == holding(new, out_msg.field)
<1>1. /\ DOMAIN FreshContext = Range(ContextKeys)
      /\ \A key \in Range(ContextKeys) \ Nested :
            FreshContext[key] = Value(ContextKind(key), key, "default")
  BY DEF FreshContext
<1>2. \A kind, k, v : [Value(kind, k, v) EXCEPT !.v = new] = Value(kind, k, new)
  BY DEF Value
<1>3. \A key \in Range(ContextKeys) \ Nested : ctx[key].kind = ContextKind(key)
  <2>1. \A key \in Range(ContextKeys) \ Nested : ctx[key] = Value(ContextKind(key), key, new)
    BY <1>1, <1>2
  <2> HIDE DEF ctx
  <2> QED
    BY <2>1, ValueParts
<1>4. \A key \in Range(ContextKeys) \cap Nested : ctx[key] = out_msg.field
  BY <1>1
<1>5. ctx = [key \in Range(ContextKeys) |-> ctx[key]]
  BY <1>1
<1>6. ContextOK(ctx)
  <2> HIDE DEF ctx
  <2> QED
    BY <1>3, <1>4, <1>5 DEF ContextOK
<1> HIDE DEF holding
<1> QED
  BY <1>6, ContextComesBack

\* Reading undoes building, dumping and TaskContext's own serialization.
THEOREM RoundTripHolds == Spec => []RoundTrip
<1>1. ASSUME ObjectInv, TextInv, reads, source \in Builders
      PROVE  /\ out_msg.type = TypeWritten(source)
             /\ Build(source, out_msg.field) = wire
  <2>1. wire = Build(source, wire.key) /\ Written[source] \subseteq Keys
    BY <1>1, WrittenKeys DEF TextInv, Built
  <2>2. /\ wire.type = Value("string", "type", TypeWritten(source))
        /\ DOMAIN wire.key = Written[source]
    <3>1. \A values : /\ Build(source, values).type = Value("string", "type", TypeWritten(source))
                      /\ DOMAIN Build(source, values).key = Written[source]
      BY DEF Build, Json
    <3> QED
      BY <2>1, <3>1
  <2>3. get_message_type(wire) = TypeWritten(source)
    <3>1. is_type(wire, TypeWritten(source))
      BY <2>2, ValueParts DEF is_type
    <3> QED
      BY <1>1, <3>1, WrittenKeys, OneType
  <2>4. \A key \in Written[source] : out_msg.field[key] = wire.key[key]
    BY <1>1, <2>1, <2>2 DEF TextInv, Built, ReadFrom
  <2>5. Build(source, out_msg.field) = Build(source, wire.key)
    <3>1. [key \in Written[source] |-> out_msg.field[key]]
            = [key \in Written[source] |-> wire.key[key]]
      BY <2>4
    <3> QED
      BY <3>1 DEF Build
  <2> QED
    BY <1>1, <2>1, <2>3, <2>5 DEF TextInv, ReadFrom
<1>2. ASSUME ObjectInv, TextInv, reads, source = "dump"
      PROVE  to_json(out_msg.type, out_msg) = wire
  <2>1. PICK type \in {"request", "response"} : wire = Json(type, wire.key)
    BY <1>2 DEF TextInv, Dumped
  <2>2. out_msg.type = type
    <3>1. \A values : Json(type, values).type = Value("string", "type", type)
      BY DEF Json
    <3>2. is_type(wire, type) /\ type \in Types
      BY <2>1, <3>1, ValueParts DEF is_type, Types
    <3> QED
      BY <1>2, <3>2, OneType DEF TextInv, ReadFrom
  <2>3. out_msg.field = wire.key
    <3>1. /\ DOMAIN wire.key = Keys /\ wire.key = [key \in Keys |-> wire.key[key]]
          /\ \A key \in Keys : wire.key[key].kind = KindOf(key)
      BY <1>2, GoodFields, ValueParts DEF TextInv, Dumped
    <3>2. \A key \in Keys : out_msg.field[key] = wire.key[key]
      BY <1>2, <3>1 DEF TextInv, ReadFrom
    <3>3. out_msg.field = [key \in Keys |-> out_msg.field[key]]
      BY <1>2, GoodFields DEF ObjectInv
    <3> QED
      BY <3>1, <3>2, <3>3
  <2> QED
    BY <2>1, <2>2, <2>3 DEF to_json
<1>3. ObjectInv => ContextRestored
  BY ContextIsRestored DEF ObjectInv
<1>4. ObjectInv /\ TextInv => RoundTrip
  BY <1>1, <1>2, <1>3 DEF RoundTrip
<1> QED
  BY <1>4, ObjectHolds, TextsHold, PTL

\* The engine's parser accepts every request that the gateway writes, and the
\* two parsers agree on what it asks for.
THEOREM ParsersAgreeHolds == Spec => []ParsersAgree
<1>1. InferKeys \subseteq Keys
  BY DEF InferKeys, Keys, Strings, Numbers, Booleans
<1>2. ASSUME NEW text, text.whole, InferKeys \subseteq DOMAIN text.key,
             \A key \in InferKeys : text.key[key].kind = KindOf(key)
      PROVE  /\ InferAccepts(text)
             /\ InferRequest(text) = Restrict(from_json(text, Fresh), InferKeys)
  <2>1. InferAccepts(text)
    BY <1>2 DEF InferAccepts
  <2>2. \A key \in InferKeys : from_json(text, Fresh)[key] = text.key[key]
    BY <1>1, <1>2 DEF from_json, Read
  <2>3. InferRequest(text) = [key \in InferKeys |-> text.key[key]]
    BY <1>2 DEF InferRequest
  <2> QED
    BY <2>1, <2>2, <2>3 DEF Restrict
<1>3. ASSUME TextInv, source \in {"request", "task"}
      PROVE  /\ wire.whole /\ InferKeys \subseteq DOMAIN wire.key
             /\ \A key \in InferKeys : wire.key[key].kind = KindOf(key)
  <2>1. source \in Builders /\ InferKeys \subseteq Written[source]
    BY <1>3 DEF Builders, Written, InferKeys
  <2>2. /\ wire = Build(source, wire.key)
        /\ \A key \in Written[source] : wire.key[key].kind = KindOf(key)
    BY <1>3, <2>1 DEF TextInv, Built
  <2>3. \A values : /\ Build(source, values).whole
                    /\ DOMAIN Build(source, values).key = Written[source]
    BY DEF Build, Json
  <2> QED
    BY <2>1, <2>2, <2>3
<1>4. ASSUME TextInv, source = "dump"
      PROVE  /\ wire.whole /\ InferKeys \subseteq DOMAIN wire.key
             /\ \A key \in InferKeys : wire.key[key].kind = KindOf(key)
  <2>1. PICK type : wire = Json(type, wire.key)
    BY <1>4 DEF TextInv, Dumped
  <2>2. \A values : Json(type, values).whole
    BY DEF Json
  <2>3. DOMAIN wire.key = Keys /\ \A key \in Keys : wire.key[key].kind = KindOf(key)
    BY <1>4, GoodFields, ValueParts DEF TextInv, Dumped
  <2> QED
    BY <1>1, <2>1, <2>2, <2>3
<1>5. TextInv => ParsersAgree
  BY <1>2, <1>3, <1>4 DEF ParsersAgree
<1> QED
  BY <1>5, TextsHold, PTL

============================================================================
