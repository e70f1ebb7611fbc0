------------------------- MODULE ExceptionHandlers -------------------------
(***************************************************************************)
(* The registry of exception handlers (error/exception_details.hpp, .inl): *)
(* a map from types to handlers under one mutex, the tokens                *)
(* (exception_details::handler) that keep an entry registered as long as   *)
(* they live, and the constructor of exception_details, which asks the     *)
(* handlers in the order of their types while it holds the mutex.          *)
(*                                                                         *)
(* A token belongs to one thread at a time.  Exceptions are "known"        *)
(* (std::exception, const char*, std::string) or "other"; handlers describe *)
(* others and do not come back to the registry from within try_handle,     *)
(* where the mutex is held already.                                        *)
(***************************************************************************)
EXTENDS Integers, FiniteSets, FiniteSetsExt

CONSTANTS
    Threads,
    Tokens,     \* exception_details::handler objects
    Types,      \* type_index, in the order of the map
    Handlers,   \* exception_details_handler objects
    Willing,    \* those whose try_handle handles the "other" exceptions
    None        \* nullptr; also: no thread, no handler

ASSUME HandlersAssumption ==
    /\ Types \subseteq Int /\ IsFiniteSet(Types) /\ IsFiniteSet(Tokens)
    /\ Willing \subseteq Handlers
    /\ None \notin Threads \cup Tokens \cup Types \cup Handlers

VARIABLES
    mHandlers,  \* m_Handlers: the handler of each type, or None
    mutex,      \* the thread that holds m_Mutex, or None
    mType,      \* m_Type of each token that exists, or None
    exists,     \* the tokens that exist
    objects,    \* the handlers that exist
    call,       \* what each thread does
    left,       \* the types its loop over the handlers has not come to
    details     \* who described the exception of its last exception_details

vars == <<mHandlers, mutex, mType, exists, objects, call, left, details>>

Idle == [op |-> "idle"]
Calls ==
    {Idle}
    \cup [op : {"add"}, token : Tokens, type : Types, handler : Handlers]
    \cup [op : {"destroy"}, token : Tokens]
    \cup [op : {"assign"}, token : Tokens, from : Tokens]
    \cup [op : {"describe", "asking"}]

Init ==
    /\ mHandlers = [y \in Types |-> None] /\ mutex = None
    /\ mType = [k \in Tokens |-> None] /\ exists = {}
    /\ objects = Handlers
    /\ call = [t \in Threads |-> Idle]
    /\ left = [t \in Threads |-> {}]
    /\ details = [t \in Threads |-> "nothing"]

-----------------------------------------------------------------------------
(* Tokens.                                                                 *)

Claimed(t) ==
    IF call[t].op \in {"add", "destroy"} THEN {call[t].token}
    ELSE IF call[t].op = "assign" THEN {call[t].token, call[t].from}
    ELSE {}
InUse == UNION {Claimed(t) : t \in Threads}
Free == exists \ InUse
Slots == Tokens \ (exists \cup InUse)

Begin(t, what) == call[t] = Idle /\ call' = [call EXCEPT ![t] = what]
End(t) == call' = [call EXCEPT ![t] = Idle]

(* handler h = add_handler(y, obj): waits for the mutex.                   *)
AddHandler(t, k, y, h) ==
    /\ k \in Slots /\ h \in objects
    /\ Begin(t, [op |-> "add", token |-> k, type |-> y, handler |-> h])
    /\ UNCHANGED <<mHandlers, mutex, mType, exists, objects, left, details>>

Inserted(y, h) ==
    IF mHandlers[y] = None THEN [mHandlers EXCEPT ![y] = h] ELSE mHandlers

\* Mutant: the token of a failed insertion holds the type too.
TokenTypeAlways(y) == y

(* What the token of an insertion keeps registered: nothing, if there is   *)
(* a handler of this type already.                                         *)
TokenType(y) == IF mHandlers[y] = None THEN y ELSE None

AddLocked(t) ==
    /\ call[t].op = "add" /\ mutex = None
    /\ mHandlers' = Inserted(call[t].type, call[t].handler)
    /\ mType' = [mType EXCEPT ![call[t].token] = TokenType(call[t].type)]
    /\ exists' = exists \cup {call[t].token}
    /\ End(t)
    /\ UNCHANGED <<mutex, objects, left, details>>

(* handler(handler&&)                                                      *)
MoveConstruct(t, k, j) ==
    /\ call[t] = Idle /\ k \in Slots /\ j \in Free
    /\ mType' = [mType EXCEPT ![k] = mType[j], ![j] = None]
    /\ exists' = exists \cup {k}
    /\ UNCHANGED <<mHandlers, mutex, objects, call, left, details>>

(* operator=: a token that holds nothing takes at once, one that holds an  *)
(* entry waits for the mutex to release it.                                *)
MoveAssign(t, k, j) ==
    /\ call[t] = Idle /\ {k, j} \subseteq Free /\ k /= j
    /\ IF mType[k] = None
       THEN /\ mType' = [mType EXCEPT ![k] = mType[j], ![j] = None]
            /\ UNCHANGED call
       ELSE /\ Begin(t, [op |-> "assign", token |-> k, from |-> j])
            /\ UNCHANGED mType
    /\ UNCHANGED <<mHandlers, mutex, exists, objects, left, details>>

(* ~handler                                                                *)
Destroy(t, k) ==
    /\ call[t] = Idle /\ k \in Free
    /\ IF mType[k] = None
       THEN exists' = exists \ {k} /\ UNCHANGED call
       ELSE Begin(t, [op |-> "destroy", token |-> k]) /\ UNCHANGED exists
    /\ UNCHANGED <<mHandlers, mutex, mType, objects, left, details>>

\* Mutant: without the mutex.
ReleasedUnlocked(t) ==
    /\ call[t].op \in {"destroy", "assign"}
    /\ mHandlers' = [mHandlers EXCEPT ![mType[call[t].token]] = None]
    /\ IF call[t].op = "assign"
       THEN /\ mType' = [mType EXCEPT ![call[t].token] = mType[call[t].from],
                                      ![call[t].from] = None]
            /\ UNCHANGED exists
       ELSE /\ mType' = [mType EXCEPT ![call[t].token] = None]
            /\ exists' = exists \ {call[t].token}
    /\ End(t)
    /\ UNCHANGED <<mutex, objects, left, details>>

(* release() with the mutex, and what its caller does then.                *)
Released(t) == mutex = None /\ ReleasedUnlocked(t)

-----------------------------------------------------------------------------
(* exception_details(ep)                                                   *)

DescribeKnown(t) ==
    /\ call[t] = Idle
    /\ details' = [details EXCEPT ![t] = "known"]
    /\ UNCHANGED <<mHandlers, mutex, mType, exists, objects, call, left>>

DescribeOther(t) ==
    /\ Begin(t, [op |-> "describe"])
    /\ UNCHANGED <<mHandlers, mutex, mType, exists, objects, left, details>>

Registered == {y \in Types : mHandlers[y] /= None}

StartAsking(t) ==
    /\ call[t].op = "describe" /\ mutex = None
    /\ mutex' = t
    /\ left' = [left EXCEPT ![t] = Registered]
    /\ call' = [call EXCEPT ![t] = [op |-> "asking"]]
    /\ UNCHANGED <<mHandlers, mType, exists, objects, details>>

\* Mutant: the loop runs backwards.
NextTypeLast(t) == Max(left[t])
NextType(t) == Min(left[t])
Asked(t) == IF left[t] = {} THEN None ELSE mHandlers[NextType(t)]

Conclude(t, by) ==
    /\ details' = [details EXCEPT ![t] = by]
    /\ mutex' = None /\ left' = [left EXCEPT ![t] = {}]
    /\ End(t)

HandlerAccepts(t) ==
    /\ call[t].op = "asking" /\ Asked(t) \in Willing
    /\ Conclude(t, Asked(t))
    /\ UNCHANGED <<mHandlers, mType, exists, objects>>

\* Mutant: the loop begins anew.
HandlerIsAskedAgain(t) ==
    /\ call[t].op = "asking" /\ Asked(t) \notin Willing \cup {None}
    /\ left' = [left EXCEPT ![t] = Registered]
    /\ UNCHANGED <<mHandlers, mutex, mType, exists, objects, call, details>>
HandlerDeclines(t) ==
    /\ call[t].op = "asking" /\ Asked(t) \notin Willing \cup {None}
    /\ left' = [left EXCEPT ![t] = @ \ {NextType(t)}]
    /\ UNCHANGED <<mHandlers, mutex, mType, exists, objects, call, details>>

NobodyHandled(t) ==
    /\ call[t].op = "asking" /\ left[t] = {}
    /\ Conclude(t, "unknown")
    /\ UNCHANGED <<mHandlers, mType, exists, objects>>

(* The program destroys a handler once no token keeps it registered.       *)
DestroyObject(t, h) ==
    /\ call[t] = Idle /\ h \in objects
    /\ \A y \in Types : mHandlers[y] /= h
    /\ \A u \in Threads : call[u].op = "add" => call[u].handler /= h
    /\ objects' = objects \ {h}
    /\ UNCHANGED <<mHandlers, mutex, mType, exists, call, left, details>>

Go(t) ==
    \/ AddLocked(t) \/ Released(t) \/ StartAsking(t)
    \/ HandlerAccepts(t) \/ HandlerDeclines(t) \/ NobodyHandled(t)

Next ==
    \E t \in Threads :
        \/ Go(t)
        \/ DescribeKnown(t) \/ DescribeOther(t)
        \/ \E k \in Tokens, y \in Types, h \in Handlers : AddHandler(t, k, y, h)
        \/ \E k, j \in Tokens : MoveConstruct(t, k, j) \/ MoveAssign(t, k, j)
        \/ \E k \in Tokens : Destroy(t, k)
        \/ \E h \in Handlers : DestroyObject(t, h)

Spec == Init /\ [][Next]_vars

(* Handlers return, and a thread that holds the mutex goes on.             *)
GoOn(t) == HandlerAccepts(t) \/ HandlerDeclines(t) \/ NobodyHandled(t)
FairSpec == Spec /\ \A t \in Threads : WF_vars(GoOn(t))

-----------------------------------------------------------------------------
(* An entry of the registry is kept by exactly one token, which exists,    *)
(* and a token keeps nothing else: however tokens are moved, assigned and  *)
(* destroyed on several threads, the erase of release() finds its entry    *)
(* (assert(removedCount == 1)) and no entry outlives its tokens.           *)
OneTokenPerEntry ==
    /\ \A y \in Registered : \E k \in exists :
          mType[k] = y /\ \A j \in Tokens : mType[j] = y => j = k
    /\ \A k \in Tokens : mType[k] /= None => k \in exists /\ mType[k] \in Registered

(* The handlers that try_handle is and will be called on in a loop exist,  *)
(* although their tokens may be destroyed, and then they, on another       *)
(* thread meanwhile: the loop holds the mutex that release() needs.        *)
CalledHandlersExist ==
    \A t \in Threads :
        call[t].op = "asking" => \A y \in left[t] : mHandlers[y] \in objects

(* An exception that is not known is described by the first registered     *)
(* handler that is willing, and as unknown only if none is, judged by the  *)
(* registry at the end of the loop as well as at its begin.                *)
FirstWillingDescribes ==
    [][\A t \in Threads :
          call[t].op = "asking" /\ call'[t] = Idle =>
            LET willing == {y \in Types : mHandlers[y] \in Willing}
            IN  details'[t] = (IF willing = {} THEN "unknown"
                                  ELSE mHandlers[CHOOSE y \in willing :
                                                    \A z \in willing : y <= z])]_vars

(* The mutex is always given back, whatever the handlers answer.           *)
MutexReturned == []<>(mutex = None)
=============================================================================
