---------------------------- MODULE MessageCodec ----------------------------
(***************************************************************************)
(* The JSON messages (src/core/json_utils.cpp, message_handler.cpp,        *)
(* task_context.cpp, infer/infer_utils.h): which keys each builder writes, *)
(* how a text is read into a Message object, a TaskContext or the engine's *)
(* InferRequest, and how an object is dumped.  A JSON text is a function   *)
(* from the keys it has to values; a value knows its JSON type, the key it *)
(* was written under and one of a few contents.                            *)
(*                                                                         *)
(* The state machine is a program that uses one object for one message     *)
(* after the other, as the library allows.  The texts come from the        *)
(* builders, from dumping the object, from the example node answering a    *)
(* task (examples/npu_node_example.cpp), from the engine answering a       *)
(* request, or from a peer that got a value wrong, left a key out, or was  *)
(* cut short.                                                              *)
(***************************************************************************)
EXTENDS Naturals, FiniteSets, Functions

CONSTANTS Contents,      \* contents of values that are not Boolean
          MaxUses        \* bound on the texts that are read

ASSUME CodecAssumption == MaxUses \in Nat \ {0}

Strings  == {"id", "model", "prompt", "token", "result", "message", "node_id"}
Numbers  == {"max_tokens", "client_socket", "load"}
Booleans == {"stream", "finished", "available"}

Keys == Strings \cup Numbers \cup Booleans

KindOf(key) == CASE key \in Strings  -> "string"
                 [] key \in Numbers  -> "number"
                 [] key \in Booleans -> "boolean"

Value(kind, key, v) == [kind |-> kind, key |-> key, v |-> v]

Good(key, v) == Value(KindOf(key), key, v)

\* Message::Message()
Default(key) == Good(key, CASE key = "stream" -> "true"
                            [] key \in Booleans \ {"stream"} -> "false"
                            [] OTHER -> "default")

Types == {"request", "task", "response", "error", "heartbeat", "status"}

\* The constructors of the message classes: each class and the type of a new object.
InitialType == [Message         |-> "UNKNOWN",
                RequestMessage  |-> "request",
                ResponseMessage |-> "response"]

New(c) == [type |-> InitialType[c], field |-> [key \in Keys |-> Default(key)]]

Fresh == New("Message")

VARIABLES wire,      \* the last text, or Garbage
          class,     \* the class of the object
          out_msg,   \* the object
          source,    \* ghost: how wire came about: builder, "dump", "peer"
          uses,      \* how many texts have been read
          reads      \* ghost: whether the last step read wire into out_msg

vars == <<wire, class, out_msg, uses, source, reads>>

none == Value("none", "none", "none")

Garbage == [type |-> none, key |-> << >>, whole |-> FALSE]

\* A text: the value under "type", and the values under the other keys.
Json(type, values) == [type |-> Value("string", "type", type), key |-> values,
                       whole |-> TRUE]

----------------------------------------------------------------------------
\* Mutants of the operators below, each a plausible slip in the C++ code.
ReadWithoutCheck(json, key, old) ==
    IF key \in DOMAIN json.key THEN json.key[key] ELSE old

ReadTokenAsResult(json, key, old) ==
    LET k == IF key = "result" THEN "token" ELSE key
    IN  IF k \in DOMAIN json.key /\ json.key[k].kind = KindOf(k) THEN json.key[k] ELSE old

\* A builder that leaves out what its reader will take for granted anyway.
BuildWithoutDefaults(builder, arg) ==
    LET written == CASE builder = "request" -> {"id", "model", "prompt", "max_tokens", "stream"}
                     [] builder = "task"    -> {"id", "client_socket", "model", "prompt",
                                                "max_tokens", "stream"}
                     [] OTHER               -> {"id"}
    IN  Json(builder, [key \in {k \in written : arg[k] # Default(k)} |-> arg[key]])

----------------------------------------------------------------------------
\* json_utils.cpp ---------------------------------------------------------------
\* get_json_string, get_json_int and get_json_bool: a key that is absent or of
\* another type leaves the old value.
Read(json, key, old) ==
    IF key \in DOMAIN json.key /\ json.key[key].kind = KindOf(key)
    THEN json.key[key] ELSE old

\* is_request, is_task, and so on.
is_type(json, type) == json.type.kind = "string" /\ json.type.v = type

\* get_message_type
get_message_type(json) ==
    IF \E type \in Types : is_type(json, type)
    THEN CHOOSE type \in Types : is_type(json, type)
    ELSE "UNKNOWN"

\* The keys written by create_request, create_task and the others.
Written == [request         |-> {"id", "model", "prompt", "max_tokens", "stream"},
            task            |-> {"id", "client_socket", "model", "prompt",
                                 "max_tokens", "stream"},
            response        |-> {"id", "result", "finished"},
            stream_response |-> {"id", "client_socket", "token", "finished"},
            error           |-> {"id", "message"},
            client_error    |-> {"id", "message"},
            heartbeat       |-> {},
            status          |-> {"node_id", "available", "load"},
            infer_response  |-> {"id", "result", "finished"}]

Builders == DOMAIN Written

TypeWritten(builder) ==
    CASE builder \in {"stream_response", "infer_response"} -> "response"
      [] builder = "client_error"                          -> "error"
      [] OTHER                                             -> builder

Build(builder, arg) == Json(TypeWritten(builder), [key \in Written[builder] |-> arg[key]])

\* message_handler.cpp ------------------------------------------------------------
\* Message::from_json, and the same list of keys in parse_message.
from_json(json, obj) == [key \in Keys |-> Read(json, key, obj.field[key])]

\* Message::to_json with the type added by RequestMessage or ResponseMessage.
to_json(type, obj) == Json(type, obj.field)

\* infer_utils.h ------------------------------------------------------------------
InferKeys == {"id", "model", "prompt", "max_tokens", "stream"}

\* Not the defaults of Message: it has 1000 tokens and a stream.
InferDefault(key) == Good(key, CASE key = "max_tokens" -> "zero"
                                 [] key = "stream"     -> "false"
                                 [] OTHER              -> "default")

\* parse_infer_request asks for no type, and fails where json's value throws.
InferAccepts(json) ==
    json.whole /\ \A key \in InferKeys \cap DOMAIN json.key : json.key[key].kind = KindOf(key)

InferRequest(json) ==
    [key \in InferKeys |-> IF key \in DOMAIN json.key THEN json.key[key] ELSE InferDefault(key)]

\* task_context.cpp ---------------------------------------------------------------
\* In the order in which TaskContext::from_json reads them.
ContextKeys == <<"request_id", "client_socket", "request", "response", "status",
                 "create_time", "assign_time", "complete_time", "priority", "error_msg">>

Nested == {"request", "response"}

ContextKind(key) == CASE key \in Nested                      -> "object"
                      [] key \in {"request_id", "error_msg"} -> "string"
                      [] OTHER                               -> "number"

\* TaskContext::TaskContext()
FreshContext == [key \in Range(ContextKeys) |->
                   IF key \in Nested THEN Fresh.field
                   ELSE Value(ContextKind(key), key, "default")]

context_to_json(ctx) ==
    [key \in Range(ContextKeys) |->
       IF key \in Nested THEN [kind |-> "object", text |-> to_json(key, [field |-> ctx[key]])]
       ELSE ctx[key]]

\* A scalar that is absent is set to its default, an absent message stays as it
\* was; a scalar of the wrong type throws, and nothing after it is read.
context_from_json(json, ctx) ==
    LET throws(key) == /\ key \in DOMAIN json \ Nested
                       /\ json[key].kind # ContextKind(key)
        reached     == {ContextKeys[k] : k \in {n \in DOMAIN ContextKeys :
                                                \A m \in 1 .. n : ~throws(ContextKeys[m])}}
        read(key)   == IF key \in Nested
                       THEN IF key \in DOMAIN json /\ json[key].kind = "object"
                            THEN from_json(json[key].text, [field |-> ctx[key]])
                            ELSE ctx[key]
                       ELSE IF key \in DOMAIN json THEN json[key] ELSE FreshContext[key]
    IN  [key \in Range(ContextKeys) |-> IF key \in reached THEN read(key) ELSE ctx[key]]

----------------------------------------------------------------------------
Init == /\ wire = Garbage
        /\ class \in DOMAIN InitialType
        /\ out_msg = New(class)
        /\ uses = 0
        /\ source = "peer"
        /\ reads = FALSE

Sends(text, from) == /\ wire' = text
                     /\ source' = from
                     /\ reads' = FALSE
                     /\ UNCHANGED <<class, out_msg, uses>>

\* The builders; all strings and numbers of a text share their content, so do
\* all Booleans.
build(builder) ==
    \E v \in Contents, b \in {"true", "false"} :
        Sends(Build(builder, [key \in Keys |->
                                Good(key, IF key \in Booleans THEN b ELSE v)]),
              builder)

\* dump_request_message and dump_response_message.
dump_message(type) ==
    /\ InitialType[class] = type
    /\ Sends(to_json(type, out_msg), "dump")

\* The example node: what it sends for a task that it has just read.  For a
\* stream nothing: its first token is a part of a character, and dump throws.
handle_inference_task ==
    /\ reads /\ out_msg.type = "task"
    /\ out_msg.field["stream"].v = "false"
    /\ \E v \in Contents :
         Sends(Build("response", [id       |-> out_msg.field["id"],
                                  result   |-> Good("result", v),
                                  finished |-> Good("finished", "true")]),
               "response")

\* engine_ipc_server_run: what the engine sends for a text that it accepts.
engine_answers ==
    /\ InferAccepts(wire)
    /\ \E v \in Contents :
         Sends(Build("infer_response", [id       |-> InferRequest(wire)["id"],
                                        result   |-> Good("result", v),
                                        finished |-> Good("finished", "true")]),
               "infer_response")

\* A peer whose text lacks a key, or has a value of the wrong type, or has no
\* usable type, or is cut short.
peer ==
    /\ \/ \E key \in DOMAIN wire.key : Sends([wire EXCEPT !.key = Restrict(@, DOMAIN @ \ {key})], "peer")
       \/ \E key \in DOMAIN wire.key : Sends([wire EXCEPT !.key[key].kind = "other"], "peer")
       \/ Sends([wire EXCEPT !.type.kind = "other"], "peer")
       \/ Sends(Garbage, "peer")
    /\ source # "peer" /\ source # "dump"

\* The three ways to read a text into an object.  One that is cut short, or not
\* accepted for its type, changes nothing.
parse_into(accepted, type) ==
    /\ wire.whole /\ accepted
    /\ uses < MaxUses
    /\ uses' = uses + 1
    /\ out_msg' = [type |-> type, field |-> from_json(wire, out_msg)]
    /\ reads' = TRUE
    /\ UNCHANGED <<wire, class, source>>

parse_message == parse_into(TRUE, get_message_type(wire))

\* parse_request_message and parse_response_message.
parse_typed_message(type) ==
    /\ InitialType[class] = type
    /\ parse_into(is_type(wire, type), type)

newMessage == /\ class' \in DOMAIN InitialType
              /\ out_msg' = New(class')
              /\ reads' = FALSE
              /\ UNCHANGED <<wire, uses, source>>

----------------------------------------------------------------------------
Next == \/ \E builder \in Builders \ {"infer_response"} : build(builder)
        \/ \E type \in {"request", "response"} :
             dump_message(type) \/ parse_typed_message(type)
        \/ handle_inference_task
        \/ engine_answers
        \/ peer
        \/ parse_message
        \/ newMessage

Spec == Init /\ [][Next]_vars

----------------------------------------------------------------------------
\* Whatever peers send, a field holds a value of its own type, and one that was
\* written under its own key.
TypeOK ==
    /\ class \in DOMAIN InitialType
    /\ out_msg.type \in Types \cup {"UNKNOWN"}
    /\ \A key \in Keys : /\ out_msg.field[key].kind = KindOf(key)
                         /\ out_msg.field[key].key = key
    /\ uses \in 0 .. MaxUses
    /\ reads \in BOOLEAN

\* A context is restored from its JSON form, whatever task the object held
\* before, the message being read now in place of its request and response.
ContextRestored ==
    \A old \in {"default", "saved"}, new \in {"default", "saved"} :
        LET holding(v, field) == [key \in DOMAIN FreshContext |->
                                    IF key \in Nested THEN field
                                    ELSE [FreshContext[key] EXCEPT !.v = v]]
            ctx == holding(new, out_msg.field)
        IN  context_from_json(context_to_json(ctx), holding(old, Fresh.field)) = ctx

\* Reading undoes building and dumping: a message read from such a text has its
\* type, and writing its fields out again gives the same text, also when the
\* object has held other messages before.  The same goes for a TaskContext.
RoundTrip ==
    /\ reads /\ source \in Builders =>
          /\ out_msg.type = TypeWritten(source)
          /\ Build(source, out_msg.field) = wire
    /\ reads /\ source = "dump" => to_json(out_msg.type, out_msg) = wire
    /\ reads => ContextRestored

\* The engine's parser, which is not the gateway's and takes other values for
\* what is absent, accepts every request, task or dumped message that the
\* gateway writes, and finds the same request in it as the gateway would.
ParsersAgree ==
    source \in {"request", "task", "dump"} =>
        /\ InferAccepts(wire)
        /\ InferRequest(wire) = Restrict(from_json(wire, Fresh), InferKeys)

============================================================================
