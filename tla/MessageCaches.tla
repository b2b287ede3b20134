--------------------------- MODULE MessageCaches ---------------------------
(***************************************************************************)
(* The two classes that keep allocated messages in a SimpleQueue           *)
(* (src/common/data_structures.h): ResponseMessage, a queue of strings     *)
(* made with strdup, and ClientMessageCache, a queue of RequestMessage     *)
(* objects made by the caller.  The question is who owns what has been     *)
(* allocated, from the allocation to the free or delete.                   *)
(*                                                                         *)
(* owner_class says which class the queue is a member of.  One thread uses *)
(* the object: neither class locks.  getNextMessage copies with a          *)
(* constructor that is declared deleted; the copy is taken to be what its  *)
(* comment says, another message with the same content.                    *)
(***************************************************************************)
EXTENDS SimpleQueue, FiniteSets, SequencesExt

\* T, the element type of the queue, is the set of addresses.

VARIABLES owner_class,  \* the class of the object
          live,         \* addresses that are allocated
          held,         \* addresses the caller has to free, and knows of
          turned_away,  \* ghost: addresses that were given to a full queue
          pc            \* the object's call in progress, or its end

cacheVars == <<vars, owner_class, live, held, turned_away, pc>>

CacheInit == /\ Init
             /\ owner_class \in {"ResponseMessage", "ClientMessageCache"}
             /\ live = {}
             /\ held = {}
             /\ turned_away = {}
             /\ pc = "idle"

\* The object is between two calls.
Idle(class) == pc = "idle" /\ owner_class = class

Free == T \ live

----------------------------------------------------------------------------
\* Mutants of the actions below, each a plausible slip in the classes.
getNextMessageSharing ==
    /\ Idle("ClientMessageCache")
    /\ pop(TRUE)
    /\ held' = held \cup {data[head]}
    /\ live' = live \ {data[head]}
    /\ UNCHANGED <<owner_class, turned_away, pc>>

getNextMessageKeeping ==
    /\ Idle("ClientMessageCache")
    /\ pop(TRUE)
    /\ \E copy \in Free : held' = held \cup {copy} /\ live' = live \cup {copy}
    /\ UNCHANGED <<owner_class, turned_away, pc>>

----------------------------------------------------------------------------
\* Both adders ignore the result of push: what a full queue refuses is known
\* to nobody afterwards.
enqueue(a) ==
    \E result \in BOOLEAN :
        /\ push(a, result)
        /\ turned_away' = IF result THEN turned_away ELSE turned_away \cup {a}

\* ResponseMessage ------------------------------------------------------------
addResponseData ==
    /\ Idle("ResponseMessage")
    /\ \E a \in Free : live' = live \cup {a} /\ enqueue(a)
    /\ UNCHANGED <<owner_class, held, pc>>

\* The string is the caller's from here on.
getNextResponse ==
    /\ Idle("ResponseMessage")
    /\ \E result \in BOOLEAN :
         /\ pop(result)
         /\ held' = IF result THEN held \cup {data[head]} ELSE held
    /\ UNCHANGED <<owner_class, live, turned_away, pc>>

\* ClientMessageCache ----------------------------------------------------------
addMessage ==
    /\ Idle("ClientMessageCache")
    /\ \E msg \in held : held' = held \ {msg} /\ enqueue(msg)
    /\ UNCHANGED <<owner_class, live, pc>>

\* A copy for the caller; the queued message is deleted after it was made.
getNextMessage ==
    /\ Idle("ClientMessageCache")
    /\ \/ /\ pop(TRUE)
          /\ \E copy \in Free : /\ held' = held \cup {copy}
                                /\ live' = (live \cup {copy}) \ {data[head]}
       \/ pop(FALSE) /\ UNCHANGED <<held, live>>
    /\ UNCHANGED <<owner_class, turned_away, pc>>

clearMessages ==
    /\ Idle("ClientMessageCache")
    /\ pc' = "clearing"
    /\ UNCHANGED <<vars, owner_class, live, held, turned_away>>

\* The loop of clearMessages and of ~ResponseMessage, one element at a time.
clearNext ==
    /\ pc \in {"clearing", "destroying"}
    /\ \/ pop(TRUE) /\ live' = live \ {data[head]} /\ UNCHANGED pc
       \/ /\ pop(FALSE)
          /\ pc' = IF pc = "clearing" THEN "idle" ELSE "gone"
          /\ UNCHANGED live
    /\ UNCHANGED <<owner_class, held, turned_away>>

\* ~ResponseMessage, and ~ClientMessageCache, which calls clearMessages.
destroy ==
    /\ pc = "idle"
    /\ pc' = "destroying"
    /\ UNCHANGED <<vars, owner_class, live, held, turned_away>>

\* The caller ------------------------------------------------------------------
newRequestMessage ==
    /\ Idle("ClientMessageCache")
    /\ \E a \in Free : live' = live \cup {a} /\ held' = held \cup {a}
    /\ UNCHANGED <<vars, owner_class, turned_away, pc>>

release ==
    /\ pc \in {"idle", "gone"}
    /\ \E a \in held : live' = live \ {a} /\ held' = held \ {a}
    /\ UNCHANGED <<vars, owner_class, turned_away, pc>>

----------------------------------------------------------------------------
CacheNext == \/ addResponseData \/ getNextResponse
             \/ addMessage \/ getNextMessage \/ clearMessages
             \/ clearNext \/ destroy
             \/ newRequestMessage \/ release

CacheSpec == CacheInit /\ [][CacheNext]_cacheVars

----------------------------------------------------------------------------
CacheTypeOK == /\ owner_class \in {"ResponseMessage", "ClientMessageCache"}
               /\ live \in SUBSET T
               /\ held \in SUBSET T
               /\ turned_away \in SUBSET T
               /\ pc \in {"idle", "clearing", "destroying", "gone"}

Queued == Range(content)

\* Nothing is freed twice or used after it was freed: what the queue holds,
\* between head and tail, is allocated, is there once, and is not also in the
\* hands of a caller, who would free it too; and what a caller has is allocated.
OneOwner ==
    /\ Queued \subseteq live
    /\ IsInjective(content)
    /\ held \subseteq live
    /\ held \cap Queued = {}

\* "To prevent memory leaks" copying is forbidden (data_structures.h:218, 264).
\* Apart from what a full queue turned away, no address is lost: each is
\* queued or in the caller's hands; with the object gone only the caller's are
\* left.
NothingElseLeaks ==
    /\ live = Queued \cup held \cup turned_away
    /\ (Queued \cup held) \cap turned_away = {}
    /\ pc = "gone" => Queued = {}

============================================================================
