---------------------- MODULE ExceptionHandlers_proofs ----------------------
(* Theorems about ExceptionHandlers: every entry of the registry has one   *)
(* token, the handlers that are called exist, and the first willing one    *)
(* describes an exception, for every set of threads, tokens, types and     *)
(* handlers.                                                               *)
EXTENDS ExceptionHandlers, Induction_proofs, FiniteSetTheorems

(* What a call knows of its tokens until it gets the mutex: an insertion's *)
(* does not exist yet; one to release holds an entry.                      *)
ClaimKept(t) ==
    /\ call[t].op = "add" => call[t].token \notin exists
    /\ call[t].op \in {"destroy", "assign"} =>
          call[t].token \in exists /\ mType[call[t].token] /= None
    /\ call[t].op = "assign" =>
          call[t].from \in exists /\ call[t].from /= call[t].token

(* No token is in two calls.                                               *)
Apart == \A t, u \in Threads : t /= u => Claimed(t) \cap Claimed(u) = {}

(* OneTokenPerEntry in parts.                                              *)
Kept == \A y \in Types : mHandlers[y] /= None => \E k \in exists : mType[k] = y
KeptOnce == \A j, k \in Tokens : mType[j] = mType[k] /\ mType[j] /= None => j = k
KeepsEntry ==
    \A k \in Tokens :
        mType[k] /= None => k \in exists /\ mHandlers[mType[k]] /= None

TypesOf ==
    /\ mHandlers \in [Types -> Handlers \cup {None}]
    /\ mType \in [Tokens -> Types \cup {None}]
    /\ exists \subseteq Tokens
    /\ call \in [Threads -> Calls]

IndInv ==
    /\ TypesOf
    /\ \A t \in Threads : ClaimKept(t)
    /\ Apart
    /\ Kept /\ KeptOnce /\ KeepsEntry

(* The tokens of a call are tokens.                                        *)
LEMMA CallFields ==
    ASSUME NEW c \in Calls
    PROVE  /\ c.op \in {"idle", "add", "destroy", "assign", "describe", "asking"}
           /\ c.op \in {"add", "destroy", "assign"} => c.token \in Tokens
           /\ c.op = "assign" => c.from \in Tokens
           /\ c.op = "add" => c.type \in Types /\ c.handler \in Handlers
           /\ c.op = "idle" => c = Idle
  BY DEF Calls, Idle

(* The invariant holds when no token exists yet.                           *)
LEMMA InitInv == Init => IndInv
<1> SUFFICES ASSUME Init PROVE IndInv
  OBVIOUS
<1>1. TypesOf
  BY DEF Init, TypesOf, Calls
<1>2. \A t \in Threads : ClaimKept(t) /\ Claimed(t) = {}
  BY DEF Init, ClaimKept, Claimed, Idle
<1>3. Kept /\ KeptOnce /\ KeepsEntry
  BY DEF Init, Kept, KeptOnce, KeepsEntry
<1> QED
  BY <1>1, <1>2, <1>3 DEF IndInv, Apart

(* A token in nobody's call, and what an idle thread claims.               *)
LEMMA FreeTokens ==
    /\ \A k \in Tokens : k \notin InUse <=> \A t \in Threads : k \notin Claimed(t)
    /\ \A t \in Threads : call[t] = Idle => Claimed(t) = {}
  BY DEF InUse, Claimed, Idle

(* A call that begins with tokens in nobody's call, and leaves the         *)
(* registry and the tokens alone.                                          *)
LEMMA BeginStep ==
    ASSUME IndInv, NEW t \in Threads, NEW c \in Calls, Begin(t, c),
           ClaimKept(t)', Claimed(t)' \cap InUse = {},
           UNCHANGED <<mHandlers, mType, exists>>
    PROVE  IndInv'
<1>1. TypesOf'
  BY DEF IndInv, TypesOf, Begin
<1>2. \A u \in Threads \ {t} : ClaimKept(u)' /\ Claimed(u)' = Claimed(u)
  BY DEF IndInv, TypesOf, Begin, ClaimKept, Claimed
<1>3. \A u \in Threads : ClaimKept(u)'
  BY <1>2
<1>4. Apart'
  BY <1>2 DEF IndInv, Apart, InUse
<1>5. Kept' /\ KeptOnce' /\ KeepsEntry'
  BY DEF IndInv, Kept, KeptOnce, KeepsEntry
<1> QED
  BY <1>1, <1>3, <1>4, <1>5 DEF IndInv

(* Calls that end or claim nothing, with everything else the same.         *)
LEMMA NoClaimStep ==
    ASSUME IndInv, NEW t \in Threads, NEW c \in Calls,
           c.op \in {"idle", "describe", "asking"},
           call' = [call EXCEPT ![t] = c],
           UNCHANGED <<mHandlers, mType, exists>>
    PROVE  IndInv'
<1>1. TypesOf'
  BY DEF IndInv, TypesOf
<1>2. \A u \in Threads \ {t} : ClaimKept(u)' /\ Claimed(u)' = Claimed(u)
  BY DEF IndInv, TypesOf, ClaimKept, Claimed
<1>3. ClaimKept(t)' /\ Claimed(t)' = {}
  BY DEF IndInv, TypesOf, ClaimKept, Claimed
<1>4. Apart'
  BY <1>2, <1>3 DEF IndInv, Apart
<1>5. Kept' /\ KeptOnce' /\ KeepsEntry'
  BY DEF IndInv, Kept, KeptOnce, KeepsEntry
<1> QED
  BY <1>1, <1>2, <1>3, <1>4, <1>5 DEF IndInv

(* An insertion: its token keeps the entry it made, if it made one.        *)
LEMMA AddStep ==
    ASSUME IndInv, NEW t \in Threads, AddLocked(t) PROVE IndInv'
<1> DEFINE k == call[t].token
           y == call[t].type
<1>1. /\ k \in Tokens /\ y \in Types /\ call[t].handler \in Handlers
      /\ call[t].op = "add" /\ k \notin exists
      /\ mType' = [mType EXCEPT ![k] = TokenType(y)]
      /\ exists' = exists \cup {k}
      /\ mHandlers' = Inserted(y, call[t].handler)
  BY CallFields DEF IndInv, TypesOf, ClaimKept, AddLocked
<1>2. Claimed(t) = {k}
  BY <1>1 DEF Claimed
<1>3. TypesOf'
  BY <1>1 DEF IndInv, TypesOf, AddLocked, Inserted, TokenType, End, Calls
<1>4. ASSUME NEW u \in Threads \ {t} PROVE ClaimKept(u)' /\ Claimed(u)' = Claimed(u)
  <2>1. call'[u] = call[u] /\ call[u] \in Calls
    BY DEF IndInv, TypesOf, AddLocked, End
  <2>2. k \notin Claimed(u)
    BY <1>2 DEF IndInv, Apart
  <2>3. call[u].op \in {"add", "destroy", "assign"} => call[u].token /= k
    BY <2>2 DEF Claimed
  <2>4. call[u].op = "assign" => call[u].from /= k
    BY <2>2 DEF Claimed
  <2>5. ClaimKept(u)
    BY DEF IndInv
  <2>6. mType \in [Tokens -> Types \cup {None}]
    BY DEF IndInv, TypesOf
  <2> QED
    BY <1>1, <2>1, <2>3, <2>4, <2>5, <2>6, CallFields DEF ClaimKept, Claimed
<1>5. ClaimKept(t)' /\ Claimed(t)' = {}
  BY DEF AddLocked, End, IndInv, TypesOf, ClaimKept, Claimed, Idle
<1>6. Apart'
  BY <1>4, <1>5 DEF IndInv, Apart
<1>7. mType[k] = None
  BY <1>1 DEF IndInv, KeepsEntry
<1>8. Kept' /\ KeptOnce' /\ KeepsEntry'
  <2> USE HandlersAssumption
  <2>1. CASE mHandlers[y] = None
    <3>1. \A j \in Tokens : mType[j] /= y
      BY <1>1, <2>1 DEF IndInv, KeepsEntry, TypesOf
    <3> QED
      BY <1>1, <1>7, <2>1, <3>1
      DEF IndInv, TypesOf, Kept, KeptOnce, KeepsEntry, Inserted, TokenType
  <2>2. CASE mHandlers[y] /= None
    BY <1>1, <1>7, <2>2
    DEF IndInv, TypesOf, Kept, KeptOnce, KeepsEntry, Inserted, TokenType
  <2> QED
    BY <2>1, <2>2
<1> QED
  BY <1>3, <1>4, <1>5, <1>6, <1>8 DEF IndInv

(* What a token holds moves to one that holds nothing.                     *)
LEMMA MoveStep ==
    ASSUME IndInv, NEW k \in Tokens, NEW j \in Tokens, k /= j,
           mType[k] = None, j \in exists, exists' = exists \cup {k},
           k \notin InUse, j \notin InUse,
           mType' = [mType EXCEPT ![k] = mType[j], ![j] = None],
           UNCHANGED <<mHandlers, call>>
    PROVE  IndInv'
<1>1. TypesOf'
  BY DEF IndInv, TypesOf
<1>2. ASSUME NEW u \in Threads PROVE ClaimKept(u)' /\ Claimed(u)' = Claimed(u)
  <2>1. k \notin Claimed(u) /\ j \notin Claimed(u)
    BY FreeTokens
  <2>2. ClaimKept(u) /\ call[u] \in Calls
    BY DEF IndInv, TypesOf
  <2> QED
    BY <2>1, <2>2, CallFields DEF ClaimKept, Claimed, IndInv, TypesOf
<1>3. Apart'
  BY <1>2 DEF IndInv, Apart
<1>4. Kept' /\ KeptOnce' /\ KeepsEntry'
  BY DEF IndInv, TypesOf, Kept, KeptOnce, KeepsEntry
<1> QED
  BY <1>1, <1>2, <1>3, <1>4 DEF IndInv

(* A token that holds nothing ends.                                        *)
LEMMA EmptyEndStep ==
    ASSUME IndInv, NEW k \in Tokens, mType[k] = None, k \notin InUse,
           exists' = exists \ {k}, UNCHANGED <<mHandlers, mType, call>>
    PROVE  IndInv'
<1>1. ASSUME NEW u \in Threads PROVE ClaimKept(u)' /\ Claimed(u)' = Claimed(u)
  <2>1. k \notin Claimed(u)
    BY FreeTokens
  <2> QED
    BY <2>1 DEF ClaimKept, Claimed, IndInv
<1>2. TypesOf' /\ Apart'
  BY <1>1 DEF IndInv, TypesOf, Apart
<1>3. Kept' /\ KeptOnce' /\ KeepsEntry'
  BY HandlersAssumption DEF IndInv, TypesOf, Kept, KeptOnce, KeepsEntry
<1> QED
  BY <1>1, <1>2, <1>3 DEF IndInv

(* release() under the mutex and what follows it: the entry and the token  *)
(* that kept it go together; an assigned token then keeps what the other   *)
(* one kept.                                                               *)
LEMMA ReleaseStep ==
    ASSUME IndInv, NEW t \in Threads, Released(t) PROVE IndInv'
<1> DEFINE k == call[t].token
           j == call[t].from
<1> USE HandlersAssumption
<1>1. /\ call[t].op \in {"destroy", "assign"} /\ k \in Tokens /\ k \in exists
      /\ mType[k] \in Types
      /\ mHandlers' = [mHandlers EXCEPT ![mType[k]] = None]
      /\ call' = [call EXCEPT ![t] = Idle]
      /\ call[t].op = "assign" => j \in Tokens /\ j \in exists /\ j /= k
  BY CallFields DEF IndInv, TypesOf, ClaimKept, Released, ReleasedUnlocked, End
<1>2. CASE call[t].op = "assign"
  <2>1. /\ mType' = [mType EXCEPT ![k] = mType[j], ![j] = None]
        /\ exists' = exists /\ j \in Tokens /\ j \in exists /\ j /= k
    BY <1>1, <1>2 DEF Released, ReleasedUnlocked
  <2>2. TypesOf'
    BY <1>1, <2>1 DEF IndInv, TypesOf, Calls
  <2>3. ASSUME NEW u \in Threads \ {t} PROVE ClaimKept(u)' /\ Claimed(u)' = Claimed(u)
    <3>1. Claimed(t) = {k, j}
      BY <1>2 DEF Claimed
    <3>2. k \notin Claimed(u) /\ j \notin Claimed(u)
      BY <3>1 DEF IndInv, Apart
    <3>3. call'[u] = call[u] /\ ClaimKept(u) /\ call[u] \in Calls
      BY <1>1 DEF IndInv, TypesOf
    <3> QED
      BY <2>1, <3>2, <3>3, CallFields DEF ClaimKept, Claimed, IndInv, TypesOf
  <2>4. ClaimKept(t)' /\ Claimed(t)' = {}
    BY <1>1 DEF IndInv, TypesOf, ClaimKept, Claimed, Idle
  <2>5. Apart'
    BY <2>3, <2>4 DEF IndInv, Apart
  <2>6. \A i \in Tokens : mType[i] = mType[k] => i = k
    BY <1>1 DEF IndInv, KeptOnce
  <2>7. KeptOnce' /\ KeepsEntry'
    BY <1>1, <2>1, <2>6 DEF IndInv, TypesOf, KeptOnce, KeepsEntry
  <2>8. Kept'
    <3> SUFFICES ASSUME NEW y \in Types, mHandlers'[y] /= None
                 PROVE \E i \in exists' : mType'[i] = y
      BY DEF Kept
    <3>1. y /= mType[k] /\ mHandlers[y] /= None
      BY <1>1 DEF IndInv, TypesOf
    <3>2. PICK i \in exists : mType[i] = y
      BY <3>1 DEF IndInv, Kept
    <3>3. i \in Tokens /\ i /= k
      BY <3>1, <3>2 DEF IndInv, TypesOf
    <3>4. CASE i = j
      BY <1>1, <2>1, <3>2, <3>4 DEF IndInv, TypesOf
    <3>5. CASE i /= j
      BY <2>1, <3>2, <3>3, <3>5 DEF IndInv, TypesOf
    <3> QED
      BY <3>4, <3>5
  <2> QED
    BY <2>2, <2>3, <2>4, <2>5, <2>7, <2>8 DEF IndInv
<1>3. CASE call[t].op = "destroy"
  <2>1. mType' = [mType EXCEPT ![k] = None] /\ exists' = exists \ {k}
    BY <1>1, <1>3 DEF Released, ReleasedUnlocked
  <2>2. TypesOf'
    BY <1>1, <2>1 DEF IndInv, TypesOf, Calls
  <2>3. ASSUME NEW u \in Threads \ {t} PROVE ClaimKept(u)' /\ Claimed(u)' = Claimed(u)
    <3>1. Claimed(t) = {k}
      BY <1>3 DEF Claimed
    <3>2. k \notin Claimed(u)
      BY <3>1 DEF IndInv, Apart
    <3>3. call'[u] = call[u] /\ ClaimKept(u) /\ call[u] \in Calls
      BY <1>1 DEF IndInv, TypesOf
    <3> QED
      BY <2>1, <3>2, <3>3, CallFields DEF ClaimKept, Claimed, IndInv, TypesOf
  <2>4. ClaimKept(t)' /\ Claimed(t)' = {}
    BY <1>1 DEF IndInv, TypesOf, ClaimKept, Claimed, Idle
  <2>5. Apart'
    BY <2>3, <2>4 DEF IndInv, Apart
  <2>6. KeptOnce' /\ KeepsEntry' /\ Kept'
    BY <1>1, <2>1 DEF IndInv, TypesOf, KeptOnce, KeepsEntry, Kept
  <2> QED
    BY <2>2, <2>3, <2>4, <2>5, <2>6 DEF IndInv
<1> QED
  BY <1>1, <1>2, <1>3

(* Every step keeps the invariant.                                         *)
LEMMA StepInv == IndInv /\ [Next]_vars => IndInv'
<1> SUFFICES ASSUME IndInv, [Next]_vars PROVE IndInv'
  OBVIOUS
<1> USE HandlersAssumption
<1>1. ASSUME NEW t \in Threads, Go(t) PROVE IndInv'
  <2>1. CASE AddLocked(t)
    BY <2>1, AddStep
  <2>2. CASE Released(t)
    BY <2>2, ReleaseStep
  <2>3. CASE StartAsking(t)
    BY <2>3, NoClaimStep DEF StartAsking, Calls
  <2>4. CASE HandlerAccepts(t) \/ NobodyHandled(t)
    BY <2>4, NoClaimStep
    DEF HandlerAccepts, NobodyHandled, Conclude, End, Idle, Calls
  <2>5. CASE HandlerDeclines(t)
    BY <2>5
    DEF HandlerDeclines, IndInv, TypesOf, ClaimKept, Apart, Claimed, Kept,
        KeptOnce, KeepsEntry
  <2> QED
    BY <1>1, <2>1, <2>2, <2>3, <2>4, <2>5 DEF Go
<1>2. ASSUME NEW t \in Threads, DescribeKnown(t) PROVE IndInv'
  BY <1>2
  DEF DescribeKnown, IndInv, TypesOf, ClaimKept, Apart, Claimed, Kept, KeptOnce,
      KeepsEntry
<1>3. ASSUME NEW t \in Threads, DescribeOther(t) PROVE IndInv'
  BY <1>3, NoClaimStep DEF DescribeOther, Begin, Calls
<1>4. ASSUME NEW t \in Threads, NEW k \in Tokens, NEW y \in Types,
             NEW h \in Handlers, AddHandler(t, k, y, h)
      PROVE  IndInv'
  <2> DEFINE c == [op |-> "add", token |-> k, type |-> y, handler |-> h]
  <2>1. c \in Calls /\ Begin(t, c) /\ k \notin exists /\ k \notin InUse
    BY <1>4 DEF AddHandler, Slots, Calls
  <2>2. call'[t] = c /\ UNCHANGED <<mHandlers, mType, exists>>
    BY <1>4 DEF AddHandler, Begin, IndInv, TypesOf
  <2>3. ClaimKept(t)' /\ Claimed(t)' = {k}
    BY <2>1, <2>2 DEF ClaimKept, Claimed
  <2> QED
    BY <2>1, <2>2, <2>3, BeginStep
<1>5. ASSUME NEW t \in Threads, NEW k \in Tokens, NEW j \in Tokens,
             MoveConstruct(t, k, j)
      PROVE  IndInv'
  <2>1. k \notin exists /\ j \in exists /\ k \notin InUse /\ j \notin InUse
    BY <1>5 DEF MoveConstruct, Slots, Free
  <2>2. mType[k] = None
    BY <2>1 DEF IndInv, KeepsEntry
  <2> QED
    BY <1>5, <2>1, <2>2, MoveStep DEF MoveConstruct
<1>6. ASSUME NEW t \in Threads, NEW k \in Tokens, NEW j \in Tokens,
             MoveAssign(t, k, j)
      PROVE  IndInv'
  <2>1. /\ k \in exists /\ j \in exists /\ k \notin InUse /\ j \notin InUse
        /\ k /= j
    BY <1>6 DEF MoveAssign, Free
  <2>2. CASE mType[k] = None
    <3>1. exists' = exists \cup {k}
      BY <1>6, <2>1 DEF MoveAssign
    <3> QED
      BY <1>6, <2>1, <2>2, <3>1, MoveStep DEF MoveAssign
  <2>3. CASE mType[k] /= None
    <3> DEFINE c == [op |-> "assign", token |-> k, from |-> j]
    <3>1. c \in Calls /\ Begin(t, c) /\ UNCHANGED <<mHandlers, mType, exists>>
      BY <1>6, <2>3 DEF MoveAssign, Calls
    <3>2. call'[t] = c
      BY <3>1 DEF Begin, IndInv, TypesOf
    <3>3. ClaimKept(t)' /\ Claimed(t)' = {k, j}
      BY <2>1, <2>3, <3>1, <3>2 DEF ClaimKept, Claimed
    <3> QED
      BY <2>1, <3>1, <3>3, BeginStep
  <2> QED
    BY <2>2, <2>3
<1>7. ASSUME NEW t \in Threads, NEW k \in Tokens, Destroy(t, k) PROVE IndInv'
  <2>1. k \in exists /\ k \notin InUse
    BY <1>7 DEF Destroy, Free
  <2>2. CASE mType[k] = None
    BY <1>7, <2>1, <2>2, EmptyEndStep DEF Destroy
  <2>3. CASE mType[k] /= None
    <3> DEFINE c == [op |-> "destroy", token |-> k]
    <3>1. c \in Calls /\ Begin(t, c) /\ UNCHANGED <<mHandlers, mType, exists>>
      BY <1>7, <2>3 DEF Destroy, Calls
    <3>2. call'[t] = c
      BY <3>1 DEF Begin, IndInv, TypesOf
    <3>3. ClaimKept(t)' /\ Claimed(t)' = {k}
      BY <2>1, <2>3, <3>1, <3>2 DEF ClaimKept, Claimed
    <3> QED
      BY <2>1, <3>1, <3>3, BeginStep
  <2> QED
    BY <2>2, <2>3
<1>8. ASSUME NEW t \in Threads, NEW h \in Handlers, DestroyObject(t, h) PROVE IndInv'
  BY <1>8
  DEF DestroyObject, IndInv, TypesOf, ClaimKept, Apart, Claimed, Kept, KeptOnce,
      KeepsEntry
<1>9. CASE UNCHANGED vars
  BY <1>9
  DEF vars, IndInv, TypesOf, ClaimKept, Apart, Claimed, Kept, KeptOnce, KeepsEntry
<1> QED
  BY <1>1, <1>2, <1>3, <1>4, <1>5, <1>6, <1>7, <1>8, <1>9 DEF Next

(* Every entry of the registry is kept by exactly one token and every      *)
(* token that keeps one keeps an entry that is there: the assertion of     *)
(* release() never fails.                                                  *)
THEOREM EntriesHaveOneToken == Spec => []OneTokenPerEntry
<1>1. IndInv => OneTokenPerEntry
  BY HandlersAssumption
  DEF IndInv, TypesOf, Kept, KeptOnce, KeepsEntry, OneTokenPerEntry, Registered
<1> QED
  BY <1>1, InitInv, StepInv, PTL DEF Spec

-----------------------------------------------------------------------------
(* Why the handlers of a running loop exist: the loop has the mutex, so    *)
(* nothing leaves the registry, and what is registered exists.             *)
Asking ==
    /\ left \in [Threads -> SUBSET Types]
    /\ \A t \in Threads :
          call[t].op = "asking" => mutex = t /\ left[t] \subseteq Registered
ObjectsKept ==
    /\ \A y \in Types : mHandlers[y] /= None => mHandlers[y] \in objects
    /\ \A t \in Threads : call[t].op = "add" => call[t].handler \in objects

Alive == Asking /\ ObjectsKept

\* Both are kept by every step.
LEMMA AliveStep == IndInv /\ Alive /\ [Next]_vars => Alive'
<1> SUFFICES ASSUME IndInv, Alive, [Next]_vars PROVE Alive'
  OBVIOUS
<1> USE HandlersAssumption DEF IndInv, TypesOf, Alive, Asking, ObjectsKept
<1>1. ASSUME NEW t \in Threads, AddLocked(t) PROVE Alive'
  <2>1. call[t].type \in Types /\ call[t].handler \in Handlers
    BY <1>1, CallFields DEF AddLocked
  <2>2. ObjectsKept'
    BY <1>1, <2>1 DEF AddLocked, Inserted, End, Idle
  <2>3. Asking'
    BY <1>1 DEF AddLocked, End, Idle
  <2> QED
    BY <2>2, <2>3
<1>2. ASSUME NEW t \in Threads, Released(t) PROVE Alive'
  <2>1. ObjectsKept'
    BY <1>2 DEF Released, ReleasedUnlocked, End, Idle
  <2>2. Asking'
    BY <1>2 DEF Released, ReleasedUnlocked, End, Idle
  <2> QED
    BY <2>1, <2>2
<1>3. ASSUME NEW t \in Threads, StartAsking(t) PROVE Alive'
  BY <1>3 DEF StartAsking, Registered
<1>4. ASSUME NEW t \in Threads, HandlerAccepts(t) \/ NobodyHandled(t) PROVE Alive'
  BY <1>4 DEF HandlerAccepts, NobodyHandled, Conclude, End, Idle
<1>5. ASSUME NEW t \in Threads, HandlerDeclines(t) PROVE Alive'
  BY <1>5 DEF HandlerDeclines, Registered
<1>6. ASSUME NEW t \in Threads, DescribeKnown(t) PROVE Alive'
  BY <1>6 DEF DescribeKnown, Registered
<1>7. ASSUME NEW t \in Threads, DescribeOther(t) PROVE Alive'
  BY <1>7 DEF DescribeOther, Begin, Registered
<1>8. ASSUME NEW t \in Threads, NEW k \in Tokens, NEW y \in Types,
             NEW h \in Handlers, AddHandler(t, k, y, h)
      PROVE  Alive'
  BY <1>8 DEF AddHandler, Begin, Registered
<1>9. ASSUME NEW t \in Threads, NEW k \in Tokens, NEW j \in Tokens,
             MoveConstruct(t, k, j) \/ MoveAssign(t, k, j)
      PROVE  Alive'
  BY <1>9 DEF MoveConstruct, MoveAssign, Begin, Registered
<1>10. ASSUME NEW t \in Threads, NEW k \in Tokens, Destroy(t, k) PROVE Alive'
  BY <1>10 DEF Destroy, Begin, Registered
<1>11. ASSUME NEW t \in Threads, NEW h \in Handlers, DestroyObject(t, h) PROVE Alive'
  BY <1>11 DEF DestroyObject, Registered
<1>12. CASE UNCHANGED vars
  BY <1>12 DEF vars, Registered
<1> QED
  BY <1>1, <1>2, <1>3, <1>4, <1>5, <1>6, <1>7, <1>8, <1>9, <1>10, <1>11, <1>12
  DEF Next, Go

(* Every handler that a running loop calls, or may come to, exists.        *)
THEOREM CalledHandlersAreThere == Spec => []CalledHandlersExist
<1>1. Init => Alive
  BY DEF Init, Alive, Asking, ObjectsKept, Idle
<1>2. Alive => CalledHandlersExist
  BY DEF Alive, Asking, ObjectsKept, CalledHandlersExist, Registered
<1> QED
  BY <1>1, <1>2, InitInv, StepInv, AliveStep, PTL DEF Spec
-----------------------------------------------------------------------------
(* Who describes an exception: the loop has not come to any willing handler *)
(* yet, and the next it comes to is the first of those left.                *)
WillingAreLeft ==
    /\ details \in [Threads -> Handlers \cup {"known", "unknown", "nothing"}]
    /\ \A t \in Threads :
          call[t].op = "asking" =>
            \A y \in Types : mHandlers[y] \in Willing => y \in left[t]

(* A finite set of integers has a least element.                           *)
LEMMA FirstOfFinite ==
    ASSUME NEW S, S \subseteq Int, IsFiniteSet(S), S /= {}
    PROVE  Min(S) \in S /\ \A y \in S : Min(S) <= y
<1> DEFINE HasLeast(T) == \E x \in T : \A y \in T : x <= y
           Sized(n) == {T \in SUBSET Int : IsFiniteSet(T) /\ Cardinality(T) = n}
           N == {n \in Nat : \A T \in Sized(n) : T /= {} => HasLeast(T)}
<1>1. 0 \in N
  <2>1. \A T \in Sized(0) : T = {}
    BY FS_EmptySet
  <2>2. \A T \in Sized(0) : T /= {} => HasLeast(T)
    BY <2>1
  <2> HIDE DEF Sized, HasLeast
  <2> QED
    BY <2>2
<1>2. ASSUME NEW n \in Nat, \A T \in Sized(n) : T /= {} => HasLeast(T),
             NEW T \in Sized(n + 1), NEW x \in T
      PROVE  HasLeast(T)
  <2> DEFINE R == T \ {x}
  <2>1. IsFiniteSet(R) /\ Cardinality(R) = Cardinality(T) - 1 /\ R \subseteq Int /\ x \in Int
    BY FS_RemoveElement
  <2>2. R \in Sized(n)
    BY <2>1
  <2>3. CASE R = {}
    <3>1. T = {x}
      BY <2>3
    <3> QED
      BY <2>1, <3>1
  <2>4. CASE R /= {}
    <3>1. PICK r \in R : \A y \in R : r <= y
      BY <1>2, <2>2, <2>4
    <3>2. r \in Int /\ r \in T /\ \A y \in T : y = x \/ y \in R
      BY <2>1
    <3>3. CASE r <= x
      <4>1. \A y \in T : r <= y
        BY <3>1, <3>2, <3>3
      <4> QED
        BY <3>2, <4>1
    <3>4. CASE ~(r <= x)
      <4>1. ASSUME NEW y \in T PROVE x <= y
        <5>1. CASE y = x
          BY <2>1, <5>1
        <5>2. CASE y \in R
          <6>1. r <= y /\ y \in Int
            BY <2>1, <3>1, <5>2
          <6> QED
            BY <2>1, <3>2, <3>4, <6>1
        <5> QED
          BY <3>2, <5>1, <5>2
      <4> QED
        BY <4>1
    <3> QED
      BY <3>3, <3>4
  <2> QED
    BY <2>3, <2>4
<1>3. Nat \subseteq N
  <2> HIDE DEF Sized, HasLeast
  <2>1. ASSUME NEW n \in Nat, n \in N PROVE n + 1 \in N
    <3>1. \A T \in Sized(n + 1) : T /= {} => HasLeast(T)
      BY <1>2, <2>1
    <3> QED
      BY <3>1
  <2> HIDE DEF N
  <2> QED
    BY <1>1, <2>1, InductionOnSet
<1>4. Cardinality(S) \in N
  BY <1>3, FS_CardinalityType
<1>5. S \in Sized(Cardinality(S))
  OBVIOUS
<1>6. \E x \in S : \A y \in S : x <= y
  BY <1>4, <1>5
<1> QED
  BY <1>6 DEF Min

(* The next type of a loop that has one.                                   *)
LEMMA NextOfLeft ==
    ASSUME IndInv, Alive, NEW t \in Threads, left[t] /= {}
    PROVE  NextType(t) \in left[t] /\ \A y \in left[t] : NextType(t) <= y
<1>1. left[t] \subseteq Types
  BY DEF Alive, Asking
<1>2. left[t] \subseteq Int /\ IsFiniteSet(left[t])
  BY <1>1, HandlersAssumption, FS_Subset
<1> QED
  BY <1>2, FirstOfFinite DEF NextType

(* Every step keeps the willing handlers before a loop.                    *)
LEMMA WillingStep ==
    ASSUME IndInv, Alive, WillingAreLeft, [Next]_vars
    PROVE  WillingAreLeft'
<1> USE HandlersAssumption DEF IndInv, TypesOf, WillingAreLeft
<1>1. ASSUME NEW t \in Threads, AddLocked(t) \/ Released(t) PROVE WillingAreLeft'
  <2>1. \A u \in Threads : call'[u].op # "asking"
    BY <1>1 DEF AddLocked, Released, ReleasedUnlocked, End, Idle, Alive, Asking
  <2> QED
    BY <1>1, <2>1 DEF AddLocked, Released, ReleasedUnlocked
<1>2. ASSUME NEW t \in Threads, StartAsking(t) PROVE WillingAreLeft'
  BY <1>2 DEF StartAsking, Registered, Alive, Asking
<1>3. ASSUME NEW t \in Threads, HandlerAccepts(t) PROVE WillingAreLeft'
  BY <1>3 DEF HandlerAccepts, Conclude, End, Idle, Alive, Asking
<1>4. ASSUME NEW t \in Threads, NobodyHandled(t) PROVE WillingAreLeft'
  BY <1>4 DEF NobodyHandled, Conclude, End, Idle, Alive, Asking
<1>5. ASSUME NEW t \in Threads, HandlerDeclines(t) PROVE WillingAreLeft'
  BY <1>5 DEF HandlerDeclines, Asked, Alive, Asking
<1>6. ASSUME NEW t \in Threads, DescribeKnown(t) PROVE WillingAreLeft'
  BY <1>6 DEF DescribeKnown
<1>7. ASSUME NEW t \in Threads, DescribeOther(t) PROVE WillingAreLeft'
  BY <1>7 DEF DescribeOther, Begin
<1>8. ASSUME NEW t \in Threads, NEW k \in Tokens, NEW y \in Types,
             NEW h \in Handlers, AddHandler(t, k, y, h)
      PROVE  WillingAreLeft'
  BY <1>8 DEF AddHandler, Begin
<1>9. ASSUME NEW t \in Threads, NEW k \in Tokens, NEW j \in Tokens,
             MoveConstruct(t, k, j) \/ MoveAssign(t, k, j)
      PROVE  WillingAreLeft'
  BY <1>9 DEF MoveConstruct, MoveAssign, Begin
<1>10. ASSUME NEW t \in Threads, NEW k \in Tokens, Destroy(t, k) PROVE WillingAreLeft'
  <2>1. CASE mType[k] = None
    BY <1>10, <2>1 DEF Destroy
  <2>2. CASE mType[k] /= None
    BY <1>10, <2>2 DEF Destroy, Begin
  <2> QED
    BY <2>1, <2>2
<1>11. ASSUME NEW t \in Threads, NEW h \in Handlers, DestroyObject(t, h) PROVE WillingAreLeft'
  BY <1>11 DEF DestroyObject
<1>12. CASE UNCHANGED vars
  BY <1>12 DEF vars
<1> QED
  BY <1>1, <1>2, <1>3, <1>4, <1>5, <1>6, <1>7, <1>8, <1>9, <1>10, <1>11, <1>12
  DEF Next, Go

(* A loop ends where a handler accepts, or behind the last one.            *)
LEMMA LoopEnds ==
    ASSUME IndInv, [Next]_vars, NEW t \in Threads, call[t].op = "asking", call'[t] = Idle
    PROVE  HandlerAccepts(t) \/ NobodyHandled(t)
<1> USE DEF IndInv, TypesOf
<1>0. Idle.op # "asking" /\ call[t] # Idle
  BY DEF Idle
<1>1. ASSUME NEW u \in Threads, u # t, \E c : call' = [call EXCEPT ![u] = c] PROVE FALSE
  BY <1>0, <1>1
<1>2. ASSUME UNCHANGED call PROVE FALSE
  BY <1>0, <1>2
<1>3. ASSUME NEW u \in Threads, AddLocked(u) \/ Released(u) \/ StartAsking(u) PROVE FALSE
  <2>1. call[u].op # "asking"
    BY <1>3 DEF AddLocked, Released, ReleasedUnlocked, StartAsking
  <2> QED
    BY <1>1, <1>3, <2>1 DEF AddLocked, Released, ReleasedUnlocked, StartAsking, End
<1>4. ASSUME NEW u \in Threads, HandlerAccepts(u) \/ NobodyHandled(u), u # t PROVE FALSE
  BY <1>1, <1>4 DEF HandlerAccepts, NobodyHandled, Conclude, End
<1>5. ASSUME NEW u \in Threads, HandlerDeclines(u) \/ DescribeKnown(u) PROVE FALSE
  BY <1>2, <1>5 DEF HandlerDeclines, DescribeKnown
<1>6. ASSUME NEW u \in Threads, NEW c, Begin(u, c) PROVE FALSE
  BY <1>0, <1>1, <1>6 DEF Begin
<1>7. ASSUME NEW u \in Threads, DescribeOther(u) PROVE FALSE
  BY <1>6, <1>7 DEF DescribeOther
<1>8. ASSUME NEW u \in Threads, NEW k \in Tokens, NEW y \in Types,
             NEW h \in Handlers, AddHandler(u, k, y, h)
      PROVE  FALSE
  BY <1>6, <1>8 DEF AddHandler
<1>9. ASSUME NEW u \in Threads, NEW k \in Tokens, NEW j \in Tokens,
             MoveConstruct(u, k, j) \/ MoveAssign(u, k, j)
      PROVE  FALSE
  BY <1>2, <1>6, <1>9 DEF MoveConstruct, MoveAssign
<1>10. ASSUME NEW u \in Threads, NEW k \in Tokens, Destroy(u, k) PROVE FALSE
  BY <1>2, <1>6, <1>10 DEF Destroy
<1>11. ASSUME NEW u \in Threads, NEW h \in Handlers, DestroyObject(u, h) PROVE FALSE
  BY <1>2, <1>11 DEF DestroyObject
<1>12. CASE UNCHANGED vars
  BY <1>2, <1>12 DEF vars
<1> QED
  BY <1>3, <1>4, <1>5, <1>7, <1>8, <1>9, <1>10, <1>11, <1>12 DEF Next, Go

(* An exception that is not known is described by the first registered     *)
(* handler that is willing, and as unknown only if none is: the loop of    *)
(* the constructor of exception_details, whatever other threads do.        *)
THEOREM FirstWillingOneDescribes == Spec => FirstWillingDescribes
<1> DEFINE Willings == {y \in Types : mHandlers[y] \in Willing}
           By == IF Willings = {} THEN "unknown"
                 ELSE mHandlers[CHOOSE y \in Willings : \A z \in Willings : y <= z]
<1>1. Init => WillingAreLeft
  BY DEF Init, WillingAreLeft, Idle
<1>2. ASSUME IndInv, Alive, WillingAreLeft, [Next]_vars,
             NEW t \in Threads, call[t].op = "asking", call'[t] = Idle
      PROVE  details'[t] = By
  <2> DEFINE n == NextType(t)
  <2>0. left[t] \subseteq Types /\ Willings \subseteq left[t]
        /\ Types \subseteq Int /\ None \notin Willing
    BY <1>2, HandlersAssumption DEF Alive, Asking, WillingAreLeft
  <2>1. CASE HandlerAccepts(t)
    <3>1. left[t] # {} /\ mHandlers[n] \in Willing
      BY <2>0, <2>1 DEF HandlerAccepts, Asked
    <3>2. n \in left[t] /\ \A y \in left[t] : n <= y
      BY <1>2, <3>1, NextOfLeft
    <3>3. n \in Willings /\ \A y \in Willings : n <= y /\ y \in Int
      BY <2>0, <3>1, <3>2
    <3>4. \A y \in Willings : (\A z \in Willings : y <= z) => y = n
      BY <3>3
    <3> HIDE DEF Willings, n
    <3>5. By = mHandlers[n]
      BY <3>3, <3>4
    <3>6. details'[t] = mHandlers[n]
      BY <1>2, <2>1, <3>1 DEF HandlerAccepts, Asked, Conclude, WillingAreLeft, n
    <3> QED
      BY <3>5, <3>6
  <2>2. CASE NobodyHandled(t)
    <3>1. Willings = {}
      BY <2>0, <2>2 DEF NobodyHandled
    <3>2. details'[t] = "unknown"
      BY <1>2, <2>2 DEF NobodyHandled, Conclude, WillingAreLeft
    <3> QED
      BY <3>1, <3>2
  <2> QED
    BY <1>2, <2>1, <2>2, LoopEnds
<1>3. IndInv /\ Alive /\ WillingAreLeft /\ [Next]_vars =>
        [\A t \in Threads : call[t].op = "asking" /\ call'[t] = Idle =>
            LET willing == {y \in Types : mHandlers[y] \in Willing}
            IN  details'[t] = (IF willing = {} THEN "unknown"
                                  ELSE mHandlers[CHOOSE y \in willing :
                                                    \A z \in willing : y <= z])]_vars
  BY <1>2
<1>4. Init => Alive
  BY DEF Init, Alive, Asking, ObjectsKept, Idle
<1> QED
  BY <1>1, <1>3, <1>4, InitInv, StepInv, AliveStep, WillingStep, PTL DEF Spec, FirstWillingDescribes
=============================================================================
