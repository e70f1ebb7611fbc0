--------------------------- MODULE Library_proofs ---------------------------
(***************************************************************************)
(* Proofs about the small parts of the library, for any number of          *)
(* variables, things, blocks, calls and arguments: cached_variable,        *)
(* expected, unique_object, buffer, generator, the scope guards, getopt.   *)
(*                                                                         *)
(* They are about the instances of MCLibrary: value, last and third stand  *)
(* for the three variables of the part that runs, in the order in which    *)
(* its module declares them.                                               *)
(***************************************************************************)
EXTENDS MCLibrary, FiniteSetTheorems, SequenceTheorems, WellFoundedInduction, TLAPS

allOf == <<value, last, third>>

\* A step of the library is one of the part that runs, or of none.
LEMMA OnePartRuns ==
    ASSUME [LibraryNext]_<<component, vars, third>>
    PROVE  /\ component' = component
           /\ component = "cached_variable" => Caches!Next \/ UNCHANGED allOf
           /\ component = "expected" => Results!Next \/ UNCHANGED allOf
           /\ component = "unique_object" => Owners!Next \/ UNCHANGED allOf
           /\ component = "buffer" => Memory!Next \/ UNCHANGED allOf
           /\ component = "generator" => Coroutines!Next \/ UNCHANGED allOf
           /\ component = "scope_exit" => Scopes!Next \/ UNCHANGED allOf
           /\ component = "getopt" => Options!Next \/ UNCHANGED allOf
<1>1. CASE UNCHANGED <<component, vars, third>>
  BY <1>1 DEF vars, allOf
<1>2. CASE NumbersStep
  BY <1>2 DEF NumbersStep, NumbersNext, Numbers
<1>3. CASE LibraryNext /\ ~NumbersStep
  BY <1>3 DEF LibraryNext, OptionsNext, CoroutinesNext, OwnersNext, CachesNext, MemoryNext,
      ScopesNext, ResultsNext
<1> QED
  BY <1>1, <1>2, <1>3

\* It begins with one of them.
LEMMA OnePartBegins ==
    ASSUME LibraryInit
    PROVE  /\ component = "cached_variable" => Caches!Init
           /\ component = "expected" => Results!Init
           /\ component = "unique_object" => Owners!Init
           /\ component = "buffer" => Memory!Init
           /\ component = "generator" => Coroutines!Init
           /\ component = "scope_exit" => Scopes!Init
           /\ component = "getopt" => Options!Init
BY DEF LibraryInit, NumbersInit

\* A set whose elements are all the same has one or none.
LEMMA OneOrNone ==
    ASSUME NEW S, \A x, y \in S : x = y
    PROVE  Cardinality(S) = IF S = {} THEN 0 ELSE 1
<1>1. CASE S = {}
  BY <1>1, FS_EmptySet
<1>2. CASE S # {}
  <2>1. PICK x \in S : TRUE
    BY <1>2
  <2>2. S = {x}
    BY <2>1
  <2> QED
    BY <1>2, <2>2, FS_Singleton
<1> QED
  BY <1>1, <1>2
\* Each part counts as this module does.
LEMMA SameCount ==
    \A S : /\ Owners!Cardinality(S) = Cardinality(S)
           /\ Memory!Cardinality(S) = Cardinality(S)
           /\ Coroutines!Cardinality(S) = Cardinality(S)
BY DEF Owners!Cardinality, Memory!Cardinality, Coroutines!Cardinality, Cardinality
-----------------------------------------------------------------------------
(* cached_variable: value is the clock, last the cache, third the calls.   *)

Holding == {"locked", "updating", "read"}
Call == [at : {"out", "wanting"} \cup Holding, now : Nat, lockedAt : Nat]

\* One thread has the lock.  The value tells of no later time than now, and the
\* next update is due no later than an interval behind it; who updates began
\* after it had the lock, and what is read is fresh enough for the reader.
CacheInv ==
    /\ value \in Nat /\ last \in [value : Nat, nextUpdate : Nat]
    /\ third \in [Things -> Call]
    /\ last.value <= value /\ last.nextUpdate <= last.value + Interval
    /\ \A t, u \in Things : third[t].at \in Holding /\ third[u].at \in Holding => t = u
    /\ \A t \in Things :
         /\ third[t].at \in Holding => third[t].lockedAt <= value
         /\ third[t].at = "updating" =>
              /\ third[t].lockedAt <= third[t].now /\ third[t].now <= value
              /\ last.value <= third[t].now
         /\ third[t].at = "read" => last.value > third[t].lockedAt - Interval

\* The constructor's value is from before the end of the constructor.
LEMMA CacheBegins == Caches!Init => CacheInv
BY LibraryAssumption DEF Caches!Init, CacheInv, Call, Holding

\* A call of another thread changes nothing that this one knows.
LEMMA CacheCallKeeps ==
    ASSUME CacheInv, NEW t \in Things, NEW call \in Call,
           third' = [third EXCEPT ![t] = call], UNCHANGED <<value, last>>,
           call.at \in Holding =>
             /\ \A u \in Things \ {t} : third[u].at \notin Holding
             /\ call.lockedAt <= value,
           call.at = "updating" => /\ call.lockedAt <= call.now /\ call.now <= value
                                   /\ last.value <= call.now,
           call.at = "read" => last.value > call.lockedAt - Interval
    PROVE  CacheInv'
<1>1. third' \in [Things -> Call] /\ third'[t] = call
      /\ \A u \in Things \ {t} : third'[u] = third[u]
  BY DEF CacheInv
<1> QED
  BY <1>1 DEF CacheInv

\* Every step of the cache keeps it.
LEMMA CacheKeeps ==
    ASSUME CacheInv, Caches!Next \/ UNCHANGED allOf
    PROVE  CacheInv' /\ last'.value >= last.value
<1>1. \A t \in Things : third[t] \in Call /\ third[t].now \in Nat /\ third[t].lockedAt \in Nat
  BY DEF CacheInv, Call
<1>2. /\ value \in Nat /\ last.value \in Nat /\ last.nextUpdate \in Nat
      /\ Interval \in Nat \ {0}
  BY LibraryAssumption DEF CacheInv
<1>3. ASSUME NEW t \in Things, Caches!Get(t) \/ Caches!UpdateThrew(t) \/ Caches!Return(t)
      PROVE  CacheInv' /\ last' = last
  <2>1. PICK at \in {"wanting", "out"} : third' = [third EXCEPT ![t].at = at]
    BY <1>3 DEF Caches!Get, Caches!UpdateThrew, Caches!Return, Caches!Goto
  <2>2. [third[t] EXCEPT !.at = at] \in Call /\ [third[t] EXCEPT !.at = at].at = at
    BY <1>1 DEF Call
  <2>3. UNCHANGED <<value, last>>
    BY <1>3 DEF Caches!Get, Caches!UpdateThrew, Caches!Return
  <2> QED
    BY <2>1, <2>2, <2>3, CacheCallKeeps DEF Holding
<1>4. ASSUME NEW t \in Things, Caches!Lock(t)
      PROVE  CacheInv' /\ last' = last
  <2> DEFINE call == [at |-> "locked", now |-> 0, lockedAt |-> value]
  <2>1. third' = [third EXCEPT ![t] = call] /\ UNCHANGED <<value, last>>
    BY <1>4 DEF Caches!Lock
  <2>2. \A u \in Things : third[u].at \notin Holding
    BY <1>4 DEF Caches!Lock, Caches!Locked, Holding
  <2>3. call \in Call /\ call.at = "locked" /\ call.lockedAt = value
    BY <1>2 DEF Call, Holding
  <2>4. call.at # "updating" /\ call.at # "read" /\ call.lockedAt <= value
    BY <1>2, <2>3
  <2> HIDE DEF call
  <2> QED
    BY <2>1, <2>2, <2>3, <2>4, CacheCallKeeps
<1>5. ASSUME NEW t \in Things, Caches!TryUpdate(t)
      PROVE  CacheInv' /\ last' = last
  <2> DEFINE at == IF value >= last.nextUpdate THEN "updating" ELSE "read"
             call == [third[t] EXCEPT !.at = at, !.now = value]
  <2>1. third' = [third EXCEPT ![t] = call] /\ UNCHANGED <<value, last>>
        /\ third[t].at = "locked"
    BY <1>5 DEF Caches!TryUpdate
  <2>2. call \in Call /\ call.at = at /\ call.now = value /\ call.lockedAt = third[t].lockedAt
    BY <1>1, <1>2 DEF Call, Holding
  <2>3. /\ \A u \in Things \ {t} : third[u].at \notin Holding
        /\ third[t].lockedAt <= value /\ last.value <= value
    BY <2>1 DEF CacheInv, Holding
  <2>4. at = "read" => last.value > third[t].lockedAt - Interval
    BY <1>1, <1>2, <2>3 DEF CacheInv
  <2>5. /\ call.lockedAt <= value
        /\ call.lockedAt <= call.now /\ call.now <= value /\ last.value <= call.now
        /\ call.at = "read" => last.value > call.lockedAt - Interval
    BY <1>1, <1>2, <2>2, <2>3, <2>4
  <2> HIDE DEF call, at
  <2> QED
    BY <2>1, <2>2, <2>3, <2>5, CacheCallKeeps
<1>6. ASSUME NEW t \in Things, Caches!Updated(t)
      PROVE  CacheInv' /\ last'.value >= last.value
  <2>1. PICK v \in third[t].now..value :
          last' = [value |-> v, nextUpdate |-> third[t].now + Interval]
    BY <1>6 DEF Caches!Updated
  <2>2. third' = [third EXCEPT ![t].at = "read"] /\ value' = value /\ third[t].at = "updating"
    BY <1>6 DEF Caches!Updated, Caches!Goto
  <2>3. /\ third'[t] \in Call /\ third'[t].at = "read" /\ third'[t].lockedAt = third[t].lockedAt
        /\ \A u \in Things \ {t} : third'[u] = third[u] /\ third[u].at \notin Holding
    BY <1>1, <2>2 DEF CacheInv, Call, Holding
  <2>4. last'.value = v /\ last'.nextUpdate = third[t].now + Interval
        /\ third[t].lockedAt <= third[t].now /\ last.value <= third[t].now
        /\ third[t].lockedAt <= value
    BY <2>1, <2>2 DEF CacheInv, Holding
  <2>5. last' \in [value : Nat, nextUpdate : Nat] /\ third' \in [Things -> Call]
    BY <1>1, <1>2, <2>1, <2>2, <2>3 DEF CacheInv
  <2>6. /\ last'.value <= value /\ last'.nextUpdate <= last'.value + Interval
        /\ last'.value > third[t].lockedAt - Interval /\ last'.value >= last.value
    BY <1>1, <1>2, <2>1, <2>4
  <2> QED
    BY <1>2, <2>2, <2>3, <2>4, <2>5, <2>6 DEF CacheInv, Holding
<1>7. ASSUME Caches!Tick PROVE CacheInv' /\ last' = last
  BY <1>1, <1>2, <1>7 DEF Caches!Tick, CacheInv
<1>8. ASSUME UNCHANGED allOf PROVE CacheInv' /\ last' = last
  BY <1>8 DEF allOf, CacheInv
<1> QED
  BY <1>2, <1>3, <1>4, <1>5, <1>6, <1>7, <1>8 DEF Caches!Next

\* get never returns a value that was an interval old before the call had the
\* lock, nor one older than an earlier get did: for any number of threads, and
\* any interval but 0.
THEOREM CacheIsNeverStale == LibrarySpec => NeverStale
<1> DEFINE Inv == component = "cached_variable" => CacheInv
<1>1. LibraryInit => Inv
  BY OnePartBegins, CacheBegins
<1>2. Inv /\ [LibraryNext]_<<component, vars, third>> =>
        /\ Inv'
        /\ [component = "cached_variable" => Caches!FreshStep]_<<component, vars, third>>
  <2> SUFFICES ASSUME Inv, [LibraryNext]_<<component, vars, third>>
               PROVE  Inv' /\ (component = "cached_variable" => Caches!FreshStep)
    OBVIOUS
  <2>1. component' = component
    BY OnePartRuns
  <2>2. CASE component = "cached_variable"
    <3>1. CacheInv' /\ last'.value >= last.value
      BY <2>2, OnePartRuns, CacheKeeps
    <3> QED
      BY <2>1, <2>2, <3>1 DEF Caches!FreshStep, CacheInv
  <2> QED
    BY <2>1, <2>2
<1> QED
  BY <1>1, <1>2, PTL DEF LibrarySpec, NeverStale
-----------------------------------------------------------------------------
(* expected: value is what each holds, last what the calls that returned   *)
(* made of it, third what a function heard.                                *)

Sides == {"value", "error"}
Contents == {<<side, thing>> : side \in Sides, thing \in Things \cup {Nothing}}
              \cup {<<"unbuilt", Nothing>>, <<"valueless", Nothing>>}
Given == {<<side, thing>> : side \in Sides, thing \in Things \cup {Nothing}}
           \cup {<<"unbuilt", Nothing>>, <<"unknown", Nothing>>}

\* What is held is what was given, unless nobody knows what that is.
Agree(h, t) == h \in Contents /\ t \in Given /\ (t[1] # "unknown" => h = t)

HeardOf(call, v) ==
    /\ third = <<call, v, value[v]>>
    /\ value[v][1] = (IF call = "map" THEN "value" ELSE "error")

ExpectedInv ==
    /\ value \in [Variables -> Contents] /\ last \in [Variables -> Given]
    /\ \A v \in Variables : Agree(value[v], last[v])
    /\ \/ third = Results!Unheard
       \/ \E call \in {"map", "or_else"}, v \in Variables : HeardOf(call, v)

\* Contents that agree still do when they are moved from.
LEMMA LeftAgree ==
    ASSUME NEW h, NEW t, Agree(h, t)
    PROVE  Agree(Results!Left(h), Results!Left(t))
<1>1. /\ h[1] \in Sides \cup {"unbuilt", "valueless"} /\ t[1] \in Sides \cup {"unbuilt", "unknown"}
      /\ t[1] # "unknown" => h[1] = t[1]
  BY DEF Agree, Contents, Given
<1>2. /\ Results!Left(h) = <<h[1], Nothing>> /\ Results!Left(t) = <<t[1], Nothing>>
  BY DEF Results!Left
<1>3. /\ <<h[1], Nothing>> \in Contents /\ <<t[1], Nothing>> \in Given
  BY <1>1 DEF Contents, Given
<1> QED
  BY <1>1, <1>2, <1>3 DEF Agree

\* At first no variable is built.
LEMMA ExpectedBegins == Results!Init => ExpectedInv
BY DEF Results!Init, Results!Unbuilt, ExpectedInv, Agree, Contents, Given

\* A variable that becomes something keeps it, if that agrees.
LEMMA BecomesKeeps ==
    ASSUME ExpectedInv, NEW v \in Variables, NEW h, NEW t, Agree(h, t), Results!Becomes(v, h, t)
    PROVE  ExpectedInv'
BY DEF Results!Becomes, ExpectedInv, Agree

\* So does one that is moved into another.
LEMMA MovedKeeps ==
    ASSUME ExpectedInv, NEW v \in Variables, NEW other \in Variables, v # other,
           Results!Moved(v, other)
    PROVE  ExpectedInv'
<1>1. Agree(value[other], last[other])
  BY DEF ExpectedInv
<1>2. Agree(Results!Left(value[other]), Results!Left(last[other]))
  BY <1>1, LeftAgree
<1> QED
  BY <1>1, <1>2 DEF Results!Moved, ExpectedInv, Agree

\* A function that is called hears what the variable holds.
LEMMA CallKeeps ==
    ASSUME ExpectedInv, UNCHANGED <<value, last>>, NEW v \in Variables,
           NEW call \in {"map", "or_else"},
           third' = Results!Unheard \/ HeardOf(call, v)'
    PROVE  ExpectedInv'
BY DEF ExpectedInv

\* Every call keeps it, whether it throws or not.
LEMMA ExpectedKeeps ==
    ASSUME ExpectedInv, Results!Next \/ UNCHANGED allOf
    PROVE  ExpectedInv'
<1>1. \A v \in Variables : Agree(value[v], last[v])
  BY DEF ExpectedInv
<1>2. \A side \in Sides, thing \in Things : Agree(<<side, thing>>, <<side, thing>>)
  BY DEF Agree, Contents, Given, Sides
<1>3. /\ Agree(Results!Unbuilt, Results!Unbuilt)
      /\ Agree(Results!Valueless, Results!Unknown)
      /\ \A v \in Variables : Agree(value[v], Results!Unknown)
  BY <1>1 DEF Agree, Contents, Given, Results!Unbuilt, Results!Valueless, Results!Unknown
<1>4. ASSUME NEW v \in Variables, Results!Destroy(v) PROVE ExpectedInv'
  BY <1>3, <1>4, BecomesKeeps DEF Results!Destroy
<1>5. ASSUME NEW v \in Variables, Results!CallMap(v) PROVE ExpectedInv'
  BY <1>5, CallKeeps DEF Results!CallMap, Results!HasValue, HeardOf
<1>6. ASSUME NEW v \in Variables, Results!OrElse(v) PROVE ExpectedInv'
  BY <1>6, CallKeeps DEF Results!OrElse, Results!Readable, HeardOf
<1>7. ASSUME NEW v \in Variables, NEW side \in Sides, NEW thing \in Things,
             Results!Construct(v, side, thing) \/ Results!Emplace(v, side, thing)
      PROVE  ExpectedInv'
  BY <1>2, <1>3, <1>7, BecomesKeeps DEF Results!Construct, Results!Emplace
<1>8. ASSUME NEW v \in Variables, NEW other \in Variables,
             Results!CopyConstruct(v, other) \/ Results!CopyAssign(v, other)
      PROVE  ExpectedInv'
  BY <1>1, <1>8, BecomesKeeps DEF Results!CopyConstruct, Results!CopyAssign
<1>9. ASSUME NEW v \in Variables, NEW other \in Variables,
             Results!MoveConstruct(v, other) \/ Results!MoveAssign(v, other)
      PROVE  ExpectedInv'
  BY <1>9, MovedKeeps DEF Results!MoveConstruct, Results!MoveAssign, Results!Built
<1>10. ASSUME NEW v \in Variables, NEW other \in Variables, NEW thing \in Things,
              Results!MapToValue(v, other, thing)
       PROVE  ExpectedInv'
  <2>1. /\ v # other /\ third' = <<"map", other, value[other]>> /\ value[other][1] = "value"
    BY <1>10 DEF Results!MapToValue, Results!HasValue, Results!Built, Results!Unbuilt
  <2>2. CASE UNCHANGED <<value, last>>
    BY <2>1, <2>2, CallKeeps DEF HeardOf
  <2>3. CASE /\ value' = [value EXCEPT ![v] = <<"value", thing>>]
             /\ last' = [last EXCEPT ![v] = <<"value", thing>>]
    <3>1. Agree(<<"value", thing>>, <<"value", thing>>)
      BY <1>2 DEF Sides
    <3>2. HeardOf("map", other)'
      BY <2>1, <2>3 DEF HeardOf, ExpectedInv
    <3> QED
      BY <2>3, <3>1, <3>2 DEF ExpectedInv, Agree
  <2> QED
    BY <1>10, <2>2, <2>3 DEF Results!MapToValue
<1>11. ASSUME NEW v \in Variables, NEW other \in Variables, Results!MapError(v, other)
       PROVE  ExpectedInv'
  <2>1. \/ Results!Becomes(v, value[other], last[other])
        \/ third' = Results!Unheard /\ UNCHANGED <<value, last>>
    BY <1>11 DEF Results!MapError
  <2> QED
    BY <1>1, <2>1, BecomesKeeps, CallKeeps
<1>12. ASSUME UNCHANGED allOf PROVE ExpectedInv'
  BY <1>12 DEF allOf, ExpectedInv, HeardOf
<1> QED
  BY <1>4, <1>5, <1>6, <1>7, <1>8, <1>9, <1>10, <1>11, <1>12 DEF Results!Next, Results!Sides, Sides

\* What is held as it was given is equal to that value or error and to no other.
LEMMA HeldIsEqual ==
    ASSUME ExpectedInv
    PROVE  Results!HoldsWhatItWasGiven
<1>1. ASSUME NEW v \in Variables, last[v] # Results!Unknown
      PROVE  /\ value[v] = last[v] /\ value[v] \in Contents
             /\ value[v][1] \in {"value", "error", "unbuilt"}
             /\ value[v][1] = "unbuilt" => value[v] = Results!Unbuilt
  BY <1>1 DEF ExpectedInv, Agree, Contents, Given, Results!Unknown, Results!Unbuilt, Sides
<1>2. ASSUME NEW v \in Variables, last[v] # Results!Unknown,
             NEW side \in Results!Sides, NEW thing \in Things
      PROVE  LET equal == last[v] = <<side, thing>>
             IN  /\ Results!IsEqual(v, side, thing) <=> equal
                 /\ Results!Built(v) => (Results!Compare(v, side, thing) = "equal" <=> equal)
                 /\ Results!Built(v) => Results!Compare(v, side, thing) # "throws"
  <2>1. side \in {"value", "error"}
    BY DEF Results!Sides
  <2>2. value[v] = <<side, thing>> => Results!Has(v, side)
    BY <2>1 DEF Results!Has, Results!HasValue, Results!HasError
  <2>3. Results!Built(v) /\ Results!Has(v, side) => Results!Readable(v, side)
    BY <1>1, <1>2, <2>1 DEF Results!Has, Results!HasValue, Results!HasError, Results!Readable,
        Results!Built
  <2>4. value[v] = last[v]
    BY <1>1, <1>2
  <2> QED
    BY <2>2, <2>3, <2>4 DEF Results!IsEqual, Results!Compare
<1>3. ASSUME third # Results!Unheard
      PROVE  /\ third[3][1] = (IF third[1] = "map" THEN "value" ELSE "error")
             /\ last[third[2]] \in {third[3], Results!Unknown}
  <2>1. PICK call \in {"map", "or_else"}, v \in Variables : HeardOf(call, v)
    BY <1>3 DEF ExpectedInv
  <2>2. third[1] = call /\ third[2] = v /\ third[3] = value[v]
    BY <2>1 DEF HeardOf
  <2> QED
    BY <1>1, <2>1, <2>2 DEF HeardOf
<1> QED
  BY <1>1, <1>2, <1>3 DEF Results!HoldsWhatItWasGiven

\* An expected holds what the last call that returned made of it, whichever
\* calls threw, compares equal to that only, and a function hears only that:
\* for any number of variables and things.
THEOREM ExpectedHoldsWhatItWasGiven == LibrarySpec => []HoldsWhatItWasGiven
<1> DEFINE Inv == component = "expected" => ExpectedInv
<1>1. LibraryInit => Inv
  BY OnePartBegins, ExpectedBegins
<1>2. Inv /\ [LibraryNext]_<<component, vars, third>> => Inv'
  BY OnePartRuns, ExpectedKeeps
<1>3. Inv => HoldsWhatItWasGiven
  BY HeldIsEqual DEF HoldsWhatItWasGiven
<1> QED
  BY <1>1, <1>2, <1>3, PTL DEF LibrarySpec
-----------------------------------------------------------------------------
(* unique_object: value is what each variable owns, last what the program  *)
(* has, third how often each object was deleted.                           *)

Owned(o) == \E v \in Variables : value[v] = o

\* An object is in one place: with the program, in one variable, or deleted.
OwnerInv ==
    /\ value \in [Variables -> Things \cup {Nothing, Invalid}]
    /\ last \subseteq Things /\ third \in [Things -> {0, 1}]
    /\ \A v, w \in Variables : value[v] = value[w] /\ value[v] \in Things => v = w
    /\ \A o \in Things :
         /\ o \in last => third[o] = 0 /\ ~Owned(o)
         /\ third[o] = 1 => ~Owned(o)
         /\ o \notin last /\ third[o] = 0 => Owned(o)

\* At first the program has them all.
LEMMA OwnerBegins == Owners!Init => OwnerInv
BY LibraryAssumption DEF Owners!Init, OwnerInv, Owned

\* A variable takes an object from the program, or gives one back or deletes
\* it; what it has then is the program's no more.
LEMMA SlotKeeps ==
    ASSUME OwnerInv, NEW v \in Variables, NEW new \in last \cup {Nothing, Invalid},
           value' = [value EXCEPT ![v] = new],
           \/ /\ value[v] \notin Things /\ third' = third /\ last' = last \ {new}
           \/ /\ value[v] \in Things /\ third' = third
              /\ last' = (last \cup {value[v]}) \ {new}
           \/ /\ value[v] \in Things /\ third' = [third EXCEPT ![value[v]] = @ + 1]
              /\ last' = last \ {new}
    PROVE  OwnerInv'
<1>1. /\ new \in Things \cup {Nothing, Invalid} /\ Nothing \notin Things /\ Invalid \notin Things
      /\ value' \in [Variables -> Things \cup {Nothing, Invalid}]
      /\ value'[v] = new /\ \A w \in Variables \ {v} : value'[w] = value[w]
  BY LibraryAssumption DEF OwnerInv
<1>2. \A o \in Things : Owned(o)' <=> (o = new \/ (Owned(o) /\ o # value[v]))
  BY <1>1 DEF Owned, OwnerInv
<1>3. value[v] \in Things => third[value[v]] = 0 /\ value[v] \notin last
  BY DEF OwnerInv, Owned
<1>4. \A u, w \in Variables : value'[u] = value'[w] /\ value'[u] \in Things => u = w
  BY <1>1 DEF OwnerInv, Owned
<1>5. third' \in [Things -> {0, 1}] /\ last' \subseteq Things
  BY <1>1, <1>3 DEF OwnerInv
<1>6. ASSUME NEW o \in Things
      PROVE  /\ o \in last' => third'[o] = 0 /\ ~Owned(o)'
             /\ third'[o] = 1 => ~Owned(o)'
             /\ o \notin last' /\ third'[o] = 0 => Owned(o)'
  <2>1. third[o] \in {0, 1} /\ (value[v] = o => third[o] = 0 /\ o \notin last /\ Owned(o))
    BY <1>3 DEF OwnerInv, Owned
  <2>2. /\ o \in last => third[o] = 0 /\ ~Owned(o)
        /\ third[o] = 1 => ~Owned(o)
        /\ o \notin last /\ third[o] = 0 => Owned(o)
    BY DEF OwnerInv
  <2>3. third \in [Things -> {0, 1}]
    BY DEF OwnerInv
  <2>4. o = new => o \in last
    BY <1>1
  <2>5. CASE value[v] \notin Things
    BY <1>2, <2>2, <2>4, <2>5
  <2>6. CASE value[v] \in Things /\ third' = third /\ last' = (last \cup {value[v]}) \ {new}
    BY <1>2, <2>1, <2>2, <2>4, <2>6
  <2>7. CASE /\ value[v] \in Things /\ third' = [third EXCEPT ![value[v]] = @ + 1]
             /\ last' = last \ {new}
    BY <1>2, <2>1, <2>2, <2>3, <2>4, <2>7
  <2> QED
    BY <2>5, <2>6, <2>7
<1> QED
  BY <1>1, <1>4, <1>5, <1>6 DEF OwnerInv

\* An object that goes from one variable to another is in one place still.
LEMMA HandedOver ==
    ASSUME OwnerInv, NEW v \in Variables, NEW other \in Variables, v # other,
           value' = [[value EXCEPT ![other] = Invalid] EXCEPT ![v] = value[other]],
           last' = last,
           \/ value[v] \notin Things /\ third' = third
           \/ value[v] \in Things /\ third' = [third EXCEPT ![value[v]] = @ + 1]
    PROVE  OwnerInv'
<1>1. /\ Nothing \notin Things /\ Invalid \notin Things
      /\ value' \in [Variables -> Things \cup {Nothing, Invalid}]
      /\ value'[v] = value[other] /\ value'[other] = Invalid
      /\ \A w \in Variables \ {v, other} : value'[w] = value[w]
  BY LibraryAssumption DEF OwnerInv
<1>2. \A o \in Things : Owned(o)' <=> (Owned(o) /\ o # value[v])
  <2> TAKE o \in Things
  <2>1. ASSUME Owned(o)' PROVE Owned(o) /\ o # value[v]
    BY <1>1, <2>1 DEF Owned, OwnerInv
  <2>2. ASSUME Owned(o), o # value[v] PROVE Owned(o)'
    <3>1. PICK w \in Variables : value[w] = o
      BY <2>2 DEF Owned
    <3>2. w # v
      BY <2>2, <3>1
    <3>3. value'[IF w = other THEN v ELSE w] = o
      BY <1>1, <3>1, <3>2
    <3> QED
      BY <3>3 DEF Owned
  <2> QED
    BY <2>1, <2>2
<1>3. value[v] \in Things => third[value[v]] = 0 /\ value[v] \notin last
  BY DEF OwnerInv, Owned
<1>4. \A u, w \in Variables : value'[u] = value'[w] /\ value'[u] \in Things => u = w
  BY <1>1 DEF OwnerInv
<1>5. third' \in [Things -> {0, 1}]
  BY <1>3 DEF OwnerInv
<1>6. \A o \in Things : third'[o] = IF o = value[v] THEN 1 ELSE third[o]
  BY <1>3 DEF OwnerInv
<1> QED
  BY <1>1, <1>2, <1>3, <1>4, <1>5, <1>6 DEF OwnerInv

\* Every operation keeps every object in one place.
LEMMA OwnerKeeps ==
    ASSUME OwnerInv, Owners!Next \/ UNCHANGED allOf
    PROVE  OwnerInv'
<1>1. /\ Nothing \notin Things /\ Invalid \notin Things /\ last \subseteq Things
      /\ \A v \in Variables : value[v] \in Things \cup {Nothing, Invalid}
  BY LibraryAssumption DEF OwnerInv
<1>2. last \ {Invalid} = last /\ last \ {Nothing} = last
  BY <1>1
<1>3. ASSUME NEW v \in Variables, Owners!ConstructEmpty(v) PROVE OwnerInv'
  BY <1>1, <1>2, <1>3, SlotKeeps DEF Owners!ConstructEmpty, Owners!Built
<1>4. ASSUME NEW v \in Variables, NEW o \in Things, Owners!Construct(v, o) PROVE OwnerInv'
  BY <1>1, <1>4, SlotKeeps DEF Owners!Construct, Owners!Built
<1>5. ASSUME NEW v \in Variables, Owners!Destruct(v) \/ Owners!Reset(v) PROVE OwnerInv'
  BY <1>1, <1>2, <1>5, SlotKeeps DEF Owners!Destruct, Owners!Reset, Owners!DeleteObj, Owners!Built
<1>6. ASSUME NEW v \in Variables, Owners!Release(v) PROVE OwnerInv'
  <2>1. CASE value[v] \in Things
    <3>1. last' = (last \cup {value[v]}) \ {Invalid}
      BY <1>1, <1>6, <2>1 DEF Owners!Release
    <3> QED
      BY <1>6, <2>1, <3>1, SlotKeeps DEF Owners!Release
  <2>2. CASE value[v] \notin Things
    <3>1. value[v] = Invalid
      BY <1>1, <1>6, <2>2 DEF Owners!Release, Owners!Built
    <3>2. last' = last \ {Invalid}
      BY <1>2, <1>6, <3>1 DEF Owners!Release
    <3> QED
      BY <1>6, <2>2, <3>2, SlotKeeps DEF Owners!Release
  <2> QED
    BY <2>1, <2>2
<1>7. ASSUME NEW v \in Variables, NEW o \in Things, Owners!ResetTo(v, o) PROVE OwnerInv'
  BY <1>1, <1>7, SlotKeeps DEF Owners!ResetTo, Owners!DeleteObj, Owners!Built
<1>8. ASSUME NEW v \in Variables, NEW other \in Variables, Owners!MoveConstruct(v, other)
      PROVE  OwnerInv'
  <2>1. v # other /\ value[v] \notin Things
    BY <1>1, <1>8 DEF Owners!MoveConstruct, Owners!Built
  <2>2. value' = [[value EXCEPT ![other] = Invalid] EXCEPT ![v] = value[other]]
    BY <1>8, <2>1 DEF Owners!MoveConstruct, OwnerInv
  <2> QED
    BY <1>8, <2>1, <2>2, HandedOver DEF Owners!MoveConstruct
<1>9. ASSUME NEW v \in Variables, NEW other \in Variables, Owners!MoveAssign(v, other)
      PROVE  OwnerInv'
  <2>1. CASE v = other
    <3>1. value' = [value EXCEPT ![v] = Invalid]
      BY <1>9, <2>1 DEF Owners!MoveAssign, OwnerInv
    <3> QED
      BY <1>1, <1>2, <1>9, <3>1, SlotKeeps DEF Owners!MoveAssign, Owners!DeleteObj, Owners!Built
  <2>2. CASE v # other
    BY <1>1, <1>9, <2>2, HandedOver DEF Owners!MoveAssign, Owners!DeleteObj, Owners!Built
  <2> QED
    BY <2>1, <2>2
<1>10. ASSUME UNCHANGED allOf PROVE OwnerInv'
  BY <1>10 DEF allOf, OwnerInv, Owned
<1> QED
  BY <1>3, <1>4, <1>5, <1>6, <1>7, <1>8, <1>9, <1>10 DEF Owners!Next

\* In one place, so deleted once.
LEMMA OwnerReleasesOnce ==
    ASSUME OwnerInv
    PROVE  Owners!ReleasedOnce
<1> SUFFICES ASSUME NEW o \in Things
             PROVE  Cardinality({v \in Variables : value[v] = o})
                      + (IF o \in last THEN 1 ELSE 0) + third[o] = 1
  BY SameCount DEF Owners!ReleasedOnce
<1> DEFINE S == {v \in Variables : value[v] = o}
<1>1. \A x, y \in S : x = y
  BY DEF OwnerInv
<1>2. Cardinality(S) = IF S = {} THEN 0 ELSE 1
  BY <1>1, OneOrNone
<1>3. Owned(o) <=> S # {}
  BY DEF Owned
<1> HIDE DEF S
<1>4. third[o] \in {0, 1}
  BY DEF OwnerInv
<1>5. /\ o \in last => third[o] = 0 /\ S = {}
      /\ third[o] = 1 => S = {}
      /\ o \notin last /\ third[o] = 0 => S # {}
  BY <1>3 DEF OwnerInv
<1> QED
  BY <1>2, <1>4, <1>5 DEF S
-----------------------------------------------------------------------------
(* buffer: value is the buffers, last the blocks of the heap, third what    *)
(* was reserved.                                                           *)

BufferRecord == [built : BOOLEAN, data : Blocks \cup {Nothing}, size : Nat]
BlockRecord == [state : {"new", "live", "freed"}, size : Nat]

\* A buffer has a block that lives and knows its size, or none and no size; a
\* block that lives has a buffer, and no two have the same.
MemoryInv ==
    /\ value \in [Variables -> BufferRecord] /\ last \in [Blocks -> BlockRecord]
    /\ \A b \in Variables :
         /\ ~value[b].built => value[b].data = Nothing
         /\ value[b].data = Nothing => value[b].size = 0
         /\ value[b].data # Nothing => /\ last[value[b].data].state = "live"
                                       /\ last[value[b].data].size = value[b].size
    /\ \A b, c \in Variables : value[b].data = value[c].data /\ value[b].data # Nothing => b = c
    /\ \A p \in Blocks : last[p].state = "live" => \E b \in Variables : value[b].data = p
    /\ \/ third = Memory!NoReserve
       \/ \E b \in Variables, least \in Nat : third = <<b, least>> /\ value[b].size >= least

\* A buffer without a block, and a variable that is no buffer.
LEMMA EmptyBuffers ==
    /\ Memory!Empty \in BufferRecord /\ Memory!Empty.built
    /\ Memory!Empty.data = Nothing /\ Memory!Empty.size = 0
    /\ Memory!Unbuilt \in BufferRecord /\ ~Memory!Unbuilt.built
    /\ Memory!Unbuilt.data = Nothing /\ Memory!Unbuilt.size = 0
<1>1. /\ Memory!Empty \in [built : BOOLEAN, data : Blocks \cup {Nothing}, size : Nat]
      /\ Memory!Empty.built /\ Memory!Empty.data = Nothing /\ Memory!Empty.size = 0
  BY DEF Memory!Empty
<1>2. /\ Memory!Unbuilt \in [built : BOOLEAN, data : Blocks \cup {Nothing}, size : Nat]
      /\ Memory!Unbuilt.built = FALSE /\ Memory!Unbuilt.data = Memory!Empty.data
      /\ Memory!Unbuilt.size = Memory!Empty.size
  BY <1>1 DEF Memory!Unbuilt
<1> QED
  BY <1>1, <1>2 DEF BufferRecord

\* At first there is neither a buffer nor a block.
LEMMA MemoryBegins == Memory!Init => MemoryInv
<1> SUFFICES ASSUME Memory!Init PROVE MemoryInv
  OBVIOUS
<1>1. /\ value = [b \in Variables |-> Memory!Unbuilt]
      /\ last = [p \in Blocks |-> [state |-> "new", size |-> 0]]
      /\ third = Memory!NoReserve
  BY DEF Memory!Init
<1>2. [state |-> "new", size |-> 0] \in BlockRecord
  BY DEF BlockRecord
<1> QED
  BY <1>1, <1>2, EmptyBuffers DEF MemoryInv

\* What the last call of reserve promised, of any buffer.
ReserveKept ==
    \/ third' = Memory!NoReserve
    \/ \E b \in Variables, least \in Nat : third' = <<b, least>> /\ value'[b].size >= least

\* A buffer that gets a block of a size, where it had one or none.
LEMMA ResizeKeeps ==
    ASSUME MemoryInv, NEW b \in Variables, NEW old, NEW size \in Nat,
           old = value[b] \/ (old = Memory!Empty /\ value[b].data = Nothing),
           Memory!ResizeWorks(b, old, size), ReserveKept
    PROVE  MemoryInv' /\ value'[b].size = size
<1>1. PICK q \in Blocks :
        /\ Memory!Reallocated(old.data, size, q, last')
        /\ value' = [value EXCEPT ![b] = [built |-> TRUE, data |-> q, size |-> size]]
  BY DEF Memory!ResizeWorks
<1>2. /\ Nothing \notin Blocks /\ old.data = value[b].data
      /\ value[b].data \in Blocks \cup {Nothing}
      /\ \A c \in Variables : value[c].data \in Blocks \cup {Nothing}
  BY LibraryAssumption DEF Memory!Empty, MemoryInv, BufferRecord
<1>3. /\ value' \in [Variables -> BufferRecord]
      /\ value'[b].data = q /\ value'[b].size = size /\ value'[b].built
      /\ \A c \in Variables \ {b} : value'[c] = value[c]
  <2>1. [built |-> TRUE, data |-> q, size |-> size] \in BufferRecord
    BY DEF BufferRecord
  <2> QED
    BY <1>1, <2>1 DEF MemoryInv
<1>4. /\ last' \in [Blocks -> BlockRecord]
      /\ last'[q].state = "live" /\ last'[q].size = size
      /\ \A p \in Blocks \ {q, value[b].data} : last'[p] = last[p]
      /\ value[b].data \in Blocks \ {q} => last'[value[b].data].state = "freed"
  <2>1. [state |-> "live", size |-> size] \in BlockRecord
    BY DEF BlockRecord
  <2>2. last \in [Blocks -> BlockRecord]
    BY DEF MemoryInv
  <2>3. \A p \in Blocks : [last[p] EXCEPT !.state = "freed"] \in BlockRecord
                          /\ [last[p] EXCEPT !.state = "freed"].state = "freed"
    BY <2>2 DEF BlockRecord
  <2>4. CASE q = value[b].data \/ value[b].data = Nothing
    <3>1. last' = [last EXCEPT ![q] = [state |-> "live", size |-> size]]
      BY <1>1, <1>2, <2>4 DEF Memory!Reallocated, Memory!Freed
    <3> QED
      BY <1>2, <2>1, <2>2, <2>4, <3>1
  <2>5. CASE q # value[b].data /\ value[b].data # Nothing
    <3>1. last' = [[last EXCEPT ![value[b].data].state = "freed"]
                      EXCEPT ![q] = [state |-> "live", size |-> size]]
      BY <1>1, <1>2, <2>5 DEF Memory!Reallocated, Memory!Freed
    <3>2. value[b].data \in Blocks
      BY <1>2, <2>5
    <3> QED
      BY <2>1, <2>2, <2>3, <2>5, <3>1, <3>2
  <2> QED
    BY <2>4, <2>5
\* The block is no other buffer's.
<1>5. \A c \in Variables \ {b} : value[c].data # q
  BY <1>1, <1>2 DEF Memory!Reallocated, MemoryInv
<1>6. \A c \in Variables \ {b} : value[c].data # Nothing => value[c].data # value[b].data
  BY DEF MemoryInv
<1>7. \A c \in Variables :
         /\ ~value'[c].built => value'[c].data = Nothing
         /\ value'[c].data = Nothing => value'[c].size = 0
         /\ value'[c].data # Nothing => /\ last'[value'[c].data].state = "live"
                                        /\ last'[value'[c].data].size = value'[c].size
  BY <1>2, <1>3, <1>4, <1>5, <1>6 DEF MemoryInv
<1>8. \A c, d \in Variables : value'[c].data = value'[d].data /\ value'[c].data # Nothing => c = d
  BY <1>3, <1>5 DEF MemoryInv
<1>9. \A p \in Blocks : last'[p].state = "live" => \E c \in Variables : value'[c].data = p
  <2> SUFFICES ASSUME NEW p \in Blocks, last'[p].state = "live"
               PROVE  \E c \in Variables : value'[c].data = p
    OBVIOUS
  <2>1. CASE p = q
    BY <1>3, <2>1
  <2>2. CASE p # q
    <3>1. p # value[b].data /\ last[p].state = "live"
      BY <1>4, <2>2
    <3>2. PICK c \in Variables : value[c].data = p
      BY <3>1 DEF MemoryInv
    <3> QED
      BY <1>3, <3>1, <3>2
  <2> QED
    BY <2>1, <2>2
<1> QED
  BY <1>3, <1>4, <1>7, <1>8, <1>9 DEF MemoryInv, ReserveKept

\* A buffer that gives its block up.
LEMMA FreeKeeps ==
    ASSUME MemoryInv, NEW b \in Variables, NEW new \in {Memory!Empty, Memory!Unbuilt},
           last' = Memory!Freed(last, value[b].data), value' = [value EXCEPT ![b] = new],
           third' = Memory!NoReserve
    PROVE  MemoryInv'
<1>1. /\ new \in BufferRecord /\ new.data = Nothing /\ new.size = 0
  BY EmptyBuffers
<1>2. /\ Nothing \notin Blocks /\ value[b].data \in Blocks \cup {Nothing}
      /\ \A c \in Variables : value[c].data \in Blocks \cup {Nothing}
  BY LibraryAssumption DEF MemoryInv, BufferRecord
<1>3. /\ value' \in [Variables -> BufferRecord] /\ value'[b] = new
      /\ \A c \in Variables \ {b} : value'[c] = value[c]
  BY <1>1 DEF MemoryInv
<1>4. /\ last' \in [Blocks -> BlockRecord]
      /\ \A p \in Blocks \ {value[b].data} : last'[p] = last[p]
      /\ value[b].data # Nothing => last'[value[b].data].state = "freed"
  <2>1. last \in [Blocks -> BlockRecord]
    BY DEF MemoryInv
  <2>2. \A p \in Blocks : [last[p] EXCEPT !.state = "freed"] \in BlockRecord
                          /\ [last[p] EXCEPT !.state = "freed"].state = "freed"
    BY <2>1 DEF BlockRecord
  <2> QED
    BY <1>2, <2>1, <2>2 DEF Memory!Freed
<1>5. \A c \in Variables \ {b} : value[c].data # Nothing => value[c].data # value[b].data
  BY DEF MemoryInv
<1>6. \A c \in Variables :
         /\ ~value'[c].built => value'[c].data = Nothing
         /\ value'[c].data = Nothing => value'[c].size = 0
         /\ value'[c].data # Nothing => /\ last'[value'[c].data].state = "live"
                                        /\ last'[value'[c].data].size = value'[c].size
  BY <1>1, <1>2, <1>3, <1>4, <1>5 DEF MemoryInv
<1>7. \A c, d \in Variables : value'[c].data = value'[d].data /\ value'[c].data # Nothing => c = d
  BY <1>1, <1>3 DEF MemoryInv
<1>8. \A p \in Blocks : last'[p].state = "live" => \E c \in Variables : value'[c].data = p
  <2> SUFFICES ASSUME NEW p \in Blocks, last'[p].state = "live"
               PROVE  \E c \in Variables : value'[c].data = p
    OBVIOUS
  <2>1. p # value[b].data /\ last[p].state = "live"
    BY <1>2, <1>4
  <2>2. PICK c \in Variables : value[c].data = p
    BY <2>1 DEF MemoryInv
  <2> QED
    BY <1>3, <2>1, <2>2
<1> QED
  BY <1>3, <1>4, <1>6, <1>7, <1>8 DEF MemoryInv

\* Every operation keeps it, whether there is memory or not.
LEMMA MemoryKeeps ==
    ASSUME MemoryInv, Memory!Next \/ UNCHANGED allOf
    PROVE  MemoryInv'
<1>1. /\ \A b \in Variables : /\ value[b] \in BufferRecord
                              /\ value[b].size \in Nat
                              /\ ~value[b].built => value[b].data = Nothing
      /\ MaxSize \in Nat
  BY LibraryAssumption DEF MemoryInv, BufferRecord
\* Nothing changes but that there is no promise left, or a new one that is kept.
<1>2. ASSUME UNCHANGED <<value, last>>, ReserveKept PROVE MemoryInv'
  BY <1>2 DEF MemoryInv, ReserveKept
<1>3. ASSUME NEW b \in Variables, NEW size \in Nat, Memory!ConstructSized(b, size)
      PROVE  MemoryInv'
  <2>1. ReserveKept /\ value[b].data = Nothing
    BY <1>1, <1>3 DEF Memory!ConstructSized, ReserveKept
  <2>2. CASE UNCHANGED <<value, last>>
    BY <1>2, <2>1, <2>2
  <2>3. CASE Memory!ResizeWorks(b, Memory!Empty, size)
    BY <2>1, <2>3, ResizeKeeps
  <2> QED
    BY <1>3, <2>2, <2>3 DEF Memory!ConstructSized
<1>4. ASSUME NEW b \in Variables, NEW size \in Nat, Memory!Resize(b, size)
      PROVE  MemoryInv'
  <2>1. ReserveKept
    BY <1>4 DEF Memory!Resize, ReserveKept
  <2>2. CASE UNCHANGED <<value, last>>
    BY <1>2, <2>1, <2>2
  <2>3. CASE Memory!ResizeWorks(b, value[b], size)
    BY <2>1, <2>3, ResizeKeeps
  <2> QED
    BY <1>4, <2>2, <2>3 DEF Memory!Resize
<1>5. ASSUME NEW b \in Variables, NEW least \in Nat, Memory!Reserve(b, least)
      PROVE  MemoryInv'
  <2>1. CASE value[b].size >= least /\ UNCHANGED <<value, last>> /\ third' = <<b, least>>
    <3>1. ReserveKept
      BY <2>1 DEF ReserveKept
    <3> QED
      BY <1>2, <2>1, <3>1
  <2>2. CASE Memory!ResizeWorks(b, value[b], least + (least \div 2)) /\ third' = <<b, least>>
    <3>1. least + (least \div 2) \in Nat /\ least + (least \div 2) >= least
      OBVIOUS
    <3>2. value'[b].size = least + (least \div 2)
      BY <1>1, <2>2 DEF Memory!ResizeWorks, MemoryInv
    <3>3. ReserveKept
      BY <2>2, <3>1, <3>2 DEF ReserveKept
    <3> HIDE DEF ReserveKept
    <3> QED
      BY <2>2, <3>1, <3>3, ResizeKeeps
  <2>3. CASE third' = Memory!NoReserve /\ UNCHANGED <<value, last>>
    BY <1>2, <2>3 DEF ReserveKept
  <2> QED
    BY <1>5, <2>1, <2>2, <2>3 DEF Memory!Reserve
<1>6. ASSUME NEW b \in Variables, Memory!Construct(b) PROVE MemoryInv'
  <2>1. value[b].data = Nothing
    BY <1>1, <1>6 DEF Memory!Construct
  <2> QED
    BY <1>6, <2>1, FreeKeeps DEF Memory!Construct, Memory!Freed
<1>7. ASSUME NEW b \in Variables, Memory!Clear(b) \/ Memory!Destroy(b) PROVE MemoryInv'
  BY <1>7, FreeKeeps DEF Memory!Clear, Memory!Destroy
<1>8. ASSUME NEW b \in Variables, NEW other \in Variables, Memory!Copy(b, other)
      PROVE  MemoryInv'
  BY <1>1, <1>3, <1>8 DEF Memory!Copy
<1>9. ASSUME NEW b \in Variables, NEW other \in Variables, Memory!Move(b, other)
      PROVE  MemoryInv'
  <2>1. /\ b # other /\ value[b].data = Nothing
        /\ value' = [value EXCEPT ![b] = value[other], ![other] = Memory!Empty]
        /\ last' = last /\ third' = Memory!NoReserve
    BY <1>1, <1>9 DEF Memory!Move
  <2>2. /\ value' \in [Variables -> BufferRecord]
        /\ value'[b] = value[other] /\ value'[other] = Memory!Empty
        /\ \A c \in Variables \ {b, other} : value'[c] = value[c]
    BY <2>1, EmptyBuffers DEF MemoryInv
  <2>3. \A c \in Variables :
           /\ ~value'[c].built => value'[c].data = Nothing
           /\ value'[c].data = Nothing => value'[c].size = 0
           /\ value'[c].data # Nothing => /\ last[value'[c].data].state = "live"
                                          /\ last[value'[c].data].size = value'[c].size
    BY <2>2, EmptyBuffers DEF MemoryInv
  <2>4. \A c, d \in Variables :
           value'[c].data = value'[d].data /\ value'[c].data # Nothing => c = d
    BY <2>1, <2>2, EmptyBuffers DEF MemoryInv
  <2>5. ASSUME NEW p \in Blocks, last[p].state = "live"
        PROVE  \E c \in Variables : value'[c].data = p
    <3>1. PICK c \in Variables : value[c].data = p
      BY <2>5 DEF MemoryInv
    <3>2. c # b
      BY <2>1, <3>1, LibraryAssumption
    <3>3. value'[IF c = other THEN b ELSE c].data = p
      BY <2>2, <3>1, <3>2
    <3> QED
      BY <3>3
  <2> QED
    BY <2>1, <2>2, <2>3, <2>4, <2>5 DEF MemoryInv
<1>10. ASSUME UNCHANGED allOf PROVE MemoryInv'
  BY <1>10 DEF allOf, MemoryInv
<1>11. 0..MaxSize \subseteq Nat
  BY <1>1
<1> QED
  BY <1>3, <1>4, <1>5, <1>6, <1>7, <1>8, <1>9, <1>10, <1>11 DEF Memory!Next

\* So what lives is one buffer's, and a promise of reserve is kept.
LEMMA MemoryReleasesOnce ==
    ASSUME MemoryInv
    PROVE  Memory!ReleasedOnce
<1>1. ASSUME NEW p \in Blocks
      PROVE  Cardinality({b \in Variables : value[b].data = p})
               = (IF last[p].state = "live" THEN 1 ELSE 0)
  <2> DEFINE S == {b \in Variables : value[b].data = p}
  <2>1. \A x, y \in S : x = y
    BY LibraryAssumption DEF MemoryInv
  <2>2. Cardinality(S) = IF S = {} THEN 0 ELSE 1
    BY <2>1, OneOrNone
  <2>3. last[p].state = "live" <=> S # {}
    BY LibraryAssumption DEF MemoryInv
  <2> QED
    BY <2>2, <2>3
<1>2. ASSUME NEW b \in Variables
      PROVE  /\ value[b].size = (IF value[b].data = Nothing THEN 0 ELSE last[value[b].data].size)
             /\ third[1] = b => value[b].size >= third[2]
  <2>1. value[b].size \in Nat
    BY DEF MemoryInv, BufferRecord
  <2>2. third[1] = b => value[b].size >= third[2]
    BY <2>1, LibraryAssumption DEF MemoryInv, Memory!NoReserve
  <2> QED
    BY <2>2 DEF MemoryInv
<1> QED
  BY <1>1, <1>2, SameCount DEF Memory!ReleasedOnce
-----------------------------------------------------------------------------
(* Scope guards: value is the guards, last what is known of each function, *)
(* third the exceptions in flight.                                         *)

GuardRecord == [function : Things \cup {Nothing}, kind : {"exit", "fail", "success"},
                active : BOOLEAN, startedWith : Nat]
RunRecord == [guarded : BOOLEAN, ran : {0, 1}, owedBy : Variables \cup {Nothing}, due : {0, 1},
              inFlight : BOOLEAN]

\* The guard that owes a call is the active one with that function.  Until it
\* is destroyed the function neither ran nor should have run, and after that it
\* ran if it should have, except in a flight.
ScopeInv ==
    /\ value \in [Variables -> GuardRecord] /\ last \in [Things -> RunRecord] /\ third \in Nat
    /\ \A g \in Variables :
         /\ value[g].function = Nothing => value[g] = Scopes!Gone
         /\ value[g].function # Nothing => last[value[g].function].guarded
    /\ \A g \in Variables, f \in Things :
         last[f].owedBy = g <=> value[g].function = f /\ value[g].active
    /\ \A f \in Things :
         /\ ~last[f].guarded \/ last[f].owedBy # Nothing => last[f].ran = 0 /\ last[f].due = 0
         /\ ~last[f].inFlight => last[f].ran = last[f].due

\* A variable that is no guard.
LEMMA GoneIsIdle ==
    /\ Scopes!Gone \in GuardRecord /\ Scopes!Gone.function = Nothing /\ ~Scopes!Gone.active
BY DEF Scopes!Gone, GuardRecord

\* At first there are no guards, and nothing ran.
LEMMA ScopeBegins == Scopes!Init => ScopeInv
<1> SUFFICES ASSUME Scopes!Init PROVE ScopeInv
  OBVIOUS
<1> DEFINE run == [guarded |-> FALSE, ran |-> 0, owedBy |-> Nothing, due |-> 0, inFlight |-> FALSE]
<1>1. /\ value = [g \in Variables |-> Scopes!Gone] /\ last = [f \in Things |-> run] /\ third = 0
  BY DEF Scopes!Init
<1>2. /\ run \in RunRecord /\ ~run.guarded /\ run.owedBy = Nothing /\ run.ran = 0 /\ run.due = 0
  BY DEF RunRecord
<1>3. Nothing \notin Things \cup Variables
  BY LibraryAssumption
<1> HIDE DEF run
<1> QED
  BY <1>1, <1>2, <1>3, GoneIsIdle DEF ScopeInv

\* A guard begins, with a function that no other has.
LEMMA ConstructKeeps ==
    ASSUME ScopeInv, NEW g \in Variables, NEW f \in Things, NEW kind \in Scopes!Kinds,
           NEW enabled \in BOOLEAN, Scopes!Construct(g, f, kind, enabled)
    PROVE  ScopeInv'
<1> DEFINE guard == [function |-> f, kind |-> kind, active |-> enabled, startedWith |-> third]
           owner == IF enabled THEN g ELSE Nothing
<1>1. /\ value[g] = Scopes!Gone /\ ~last[f].guarded /\ third' = third
      /\ value' = [value EXCEPT ![g] = guard]
      /\ last' = [last EXCEPT ![f].guarded = TRUE, ![f].owedBy = owner]
  BY DEF Scopes!Construct
<1>2. guard \in GuardRecord /\ guard.function = f /\ guard.active = enabled
  BY DEF GuardRecord, Scopes!Kinds, ScopeInv
<1>3. /\ value' \in [Variables -> GuardRecord] /\ value'[g] = guard
      /\ \A h \in Variables \ {g} : value'[h] = value[h]
  BY <1>1, <1>2 DEF ScopeInv
<1>4. /\ last' \in [Things -> RunRecord]
      /\ last'[f].guarded /\ last'[f].owedBy = owner
      /\ last'[f].ran = last[f].ran /\ last'[f].due = last[f].due
      /\ \A e \in Things \ {f} : last'[e] = last[e]
  <2> DEFINE new == [last[f] EXCEPT !.guarded = TRUE, !.owedBy = owner]
  <2>1. last \in [Things -> RunRecord] /\ last[f] \in RunRecord
        /\ owner \in Variables \cup {Nothing}
    BY DEF ScopeInv
  <2>2. /\ new \in RunRecord /\ new.guarded /\ new.owedBy = owner
        /\ new.ran = last[f].ran /\ new.due = last[f].due
    BY <2>1 DEF RunRecord
  <2>3. /\ DOMAIN last' = Things /\ last'[f] = new
        /\ last' = [e \in Things |-> last'[e]]
        /\ \A e \in Things \ {f} : last'[e] = last[e]
    BY <1>1, <2>1
  <2> HIDE DEF new, owner
  <2> QED
    BY <2>1, <2>2, <2>3
<1>5. /\ Nothing \notin Things \cup Variables /\ last[f].ran = 0 /\ last[f].due = 0
      /\ \A h \in Variables : value[h].function # f
  BY <1>1, LibraryAssumption DEF ScopeInv
<1> HIDE DEF guard
<1>6. \A h \in Variables, e \in Things :
        last'[e].owedBy = h <=> value'[h].function = e /\ value'[h].active
  <2> TAKE h \in Variables, e \in Things
  <2>1. last[e].owedBy = h <=> value[h].function = e /\ value[h].active
    BY DEF ScopeInv
  <2>2. CASE e = f
    BY <1>2, <1>3, <1>4, <1>5, <2>2
  <2>3. CASE e # f /\ h = g
    BY <1>1, <1>2, <1>3, <1>4, <1>5, <2>1, <2>3, GoneIsIdle
  <2>4. CASE e # f /\ h # g
    BY <1>3, <1>4, <2>1, <2>4
  <2> QED
    BY <2>2, <2>3, <2>4
<1>7. \A h \in Variables :
         /\ value'[h].function = Nothing => value'[h] = Scopes!Gone
         /\ value'[h].function # Nothing => last'[value'[h].function].guarded
  <2> TAKE h \in Variables
  <2>1. CASE h = g
    BY <1>2, <1>3, <1>4, <1>5, <2>1
  <2>2. CASE h # g
    BY <1>3, <1>4, <2>2 DEF ScopeInv, GuardRecord
  <2> QED
    BY <2>1, <2>2
<1>8. \A e \in Things :
         /\ ~last'[e].guarded \/ last'[e].owedBy # Nothing => last'[e].ran = 0 /\ last'[e].due = 0
         /\ ~last'[e].inFlight => last'[e].ran = last'[e].due
  BY <1>4, <1>5 DEF ScopeInv
<1> QED
  BY <1>1, <1>3, <1>4, <1>6, <1>7, <1>8 DEF ScopeInv

\* Whose turn it is passes from a guard to a new one that takes its place, or
\* to none.
LEMMA PassedTo ==
    ASSUME ScopeInv, NEW g \in Variables, value[g] # Scopes!Gone, NEW to \in Variables \cup {Nothing},
           last' = Scopes!Passed(value[g].function, g, to)
    PROVE  LET f == value[g].function
           IN  /\ f \in Things /\ last' \in [Things -> RunRecord]
               /\ last'[f].owedBy = IF last[f].owedBy = g THEN to ELSE last[f].owedBy
               /\ last'[f].guarded /\ last'[f].ran = last[f].ran /\ last'[f].due = last[f].due
               /\ last'[f].inFlight = last[f].inFlight
               /\ \A e \in Things \ {f} : last'[e] = last[e]
<1> DEFINE f == value[g].function
<1>1. f \in Things /\ last[f].guarded /\ last \in [Things -> RunRecord]
  BY DEF ScopeInv, GuardRecord
<1>2. last' = [last EXCEPT ![f].owedBy = IF @ = g THEN to ELSE @]
  BY DEF Scopes!Passed
<1> HIDE DEF f
<1>3. /\ last' \in [Things -> RunRecord]
      /\ last'[f].owedBy = IF last[f].owedBy = g THEN to ELSE last[f].owedBy
      /\ last'[f].guarded = last[f].guarded
      /\ last'[f].ran = last[f].ran /\ last'[f].due = last[f].due
      /\ last'[f].inFlight = last[f].inFlight
      /\ \A e \in Things \ {f} : last'[e] = last[e]
  <2> DEFINE owner == IF last[f].owedBy = g THEN to ELSE last[f].owedBy
             new == [last[f] EXCEPT !.owedBy = owner]
  <2>1. last[f] \in RunRecord /\ owner \in Variables \cup {Nothing}
    BY <1>1 DEF RunRecord
  <2>2. /\ new \in RunRecord /\ new.owedBy = owner /\ new.guarded = last[f].guarded
        /\ new.ran = last[f].ran /\ new.due = last[f].due /\ new.inFlight = last[f].inFlight
    BY <2>1 DEF RunRecord
  <2>3. /\ DOMAIN last' = Things /\ last'[f] = new
        /\ last' = [e \in Things |-> last'[e]]
        /\ \A e \in Things \ {f} : last'[e] = last[e]
    BY <1>1, <1>2
  <2> HIDE DEF new
  <2> QED
    BY <1>1, <2>2, <2>3
<1> QED
  BY <1>1, <1>3 DEF f

\* A guard that is moved owes its call no more, and the new one does if it did.
LEMMA MoveGuardKeeps ==
    ASSUME ScopeInv, NEW g \in Variables, NEW other \in Variables, Scopes!Move(g, other)
    PROVE  ScopeInv'
<1> DEFINE guard == [value[other] EXCEPT !.startedWith = third]
           old == [value[other] EXCEPT !.active = FALSE]
           f == value[other].function
<1>1. /\ value[g] = Scopes!Gone /\ value[other] # Scopes!Gone /\ third' = third
      /\ value' = [value EXCEPT ![g] = guard, ![other] = old]
      /\ last' = Scopes!Passed(f, other, g)
  <2>1. /\ value[g] = Scopes!Gone /\ value[other] # Scopes!Gone /\ third' = third
        /\ value' = [value EXCEPT ![g] = guard, ![other].active = FALSE]
        /\ last' = Scopes!Passed(f, other, g)
    BY DEF Scopes!Move
  <2>2. g # other /\ value \in [Variables -> GuardRecord]
    BY <2>1 DEF ScopeInv
  <2> QED
    BY <2>1, <2>2
<1>2. /\ guard \in GuardRecord /\ guard.function = f /\ guard.active = value[other].active
      /\ old \in GuardRecord /\ old.function = f /\ ~old.active
  <2>1. value[other] \in GuardRecord /\ third \in Nat
    BY DEF ScopeInv
  <2> QED
    BY <2>1 DEF GuardRecord
<1>3. /\ value' \in [Variables -> GuardRecord] /\ value'[g] = guard /\ value'[other] = old
      /\ \A h \in Variables \ {g, other} : value'[h] = value[h]
  BY <1>1, <1>2 DEF ScopeInv
<1>4. /\ f \in Things /\ last' \in [Things -> RunRecord]
      /\ last'[f].owedBy = IF last[f].owedBy = other THEN g ELSE last[f].owedBy
      /\ last'[f].guarded /\ last'[f].ran = last[f].ran /\ last'[f].due = last[f].due
      /\ last'[f].inFlight = last[f].inFlight
      /\ \A e \in Things \ {f} : last'[e] = last[e]
  BY <1>1, PassedTo
<1>5. Nothing \notin Things \cup Variables
  BY LibraryAssumption
<1> HIDE DEF guard, old, f
<1>6. \A h \in Variables, e \in Things :
        last'[e].owedBy = h <=> value'[h].function = e /\ value'[h].active
  <2> TAKE h \in Variables, e \in Things
  <2>1. \A v \in Variables, d \in Things :
           last[d].owedBy = v <=> value[v].function = d /\ value[v].active
    BY DEF ScopeInv
  <2>2. value[g].function = Nothing /\ value[other].function = f
    BY <1>1, GoneIsIdle DEF f
  <2>3. CASE h = g
    BY <1>2, <1>3, <1>4, <1>5, <2>1, <2>2, <2>3
  <2>4. CASE h = other /\ h # g
    BY <1>2, <1>3, <1>4, <1>5, <2>1, <2>2, <2>4
  <2>5. CASE h # g /\ h # other
    BY <1>3, <1>4, <2>1, <2>5
  <2> QED
    BY <2>3, <2>4, <2>5
<1>7. \A h \in Variables :
         /\ value'[h].function = Nothing => value'[h] = Scopes!Gone
         /\ value'[h].function # Nothing => last'[value'[h].function].guarded
  <2> TAKE h \in Variables
  <2>1. CASE h = g \/ h = other
    BY <1>2, <1>3, <1>4, <1>5, <2>1
  <2>2. CASE h # g /\ h # other
    BY <1>3, <1>4, <2>2 DEF ScopeInv, GuardRecord
  <2> QED
    BY <2>1, <2>2
<1>8. \A e \in Things :
         /\ ~last'[e].guarded \/ last'[e].owedBy # Nothing => last'[e].ran = 0 /\ last'[e].due = 0
         /\ ~last'[e].inFlight => last'[e].ran = last'[e].due
  BY <1>4, <1>5 DEF ScopeInv
<1> QED
  BY <1>1, <1>3, <1>4, <1>6, <1>7, <1>8 DEF ScopeInv

\* A guard that is released owes nothing.
LEMMA ReleaseKeeps ==
    ASSUME ScopeInv, NEW g \in Variables, Scopes!Release(g)
    PROVE  ScopeInv'
<1> DEFINE old == [value[g] EXCEPT !.active = FALSE]
           f == value[g].function
<1>1. /\ value[g] # Scopes!Gone /\ third' = third
      /\ value' = [value EXCEPT ![g].active = FALSE]
      /\ last' = Scopes!Passed(f, g, Nothing)
  BY DEF Scopes!Release
<1>2. old \in GuardRecord /\ old.function = f /\ ~old.active
  <2>1. value[g] \in GuardRecord
    BY DEF ScopeInv
  <2> QED
    BY <2>1 DEF GuardRecord
<1>3. /\ value' \in [Variables -> GuardRecord] /\ value'[g] = old
      /\ \A h \in Variables \ {g} : value'[h] = value[h]
  BY <1>1, <1>2 DEF ScopeInv
<1>4. /\ f \in Things /\ last' \in [Things -> RunRecord]
      /\ last'[f].owedBy = IF last[f].owedBy = g THEN Nothing ELSE last[f].owedBy
      /\ last'[f].guarded /\ last'[f].ran = last[f].ran /\ last'[f].due = last[f].due
      /\ last'[f].inFlight = last[f].inFlight
      /\ \A e \in Things \ {f} : last'[e] = last[e]
  BY <1>1, PassedTo
<1>5. Nothing \notin Things \cup Variables
  BY LibraryAssumption
<1> HIDE DEF old
<1>6. \A h \in Variables, e \in Things :
        last'[e].owedBy = h <=> value'[h].function = e /\ value'[h].active
  <2> TAKE h \in Variables, e \in Things
  <2>1. \A v \in Variables, d \in Things :
           last[d].owedBy = v <=> value[v].function = d /\ value[v].active
    BY DEF ScopeInv
  <2>2. CASE h = g
    BY <1>2, <1>3, <1>4, <1>5, <2>1, <2>2
  <2>3. CASE h # g
    BY <1>3, <1>4, <1>5, <2>1, <2>3
  <2> QED
    BY <2>2, <2>3
<1>7. \A h \in Variables :
         /\ value'[h].function = Nothing => value'[h] = Scopes!Gone
         /\ value'[h].function # Nothing => last'[value'[h].function].guarded
  <2> TAKE h \in Variables
  <2>1. CASE h = g
    BY <1>2, <1>3, <1>4, <1>5, <2>1
  <2>2. CASE h # g
    BY <1>3, <1>4, <2>2 DEF ScopeInv, GuardRecord
  <2> QED
    BY <2>1, <2>2
<1>8. \A e \in Things :
         /\ ~last'[e].guarded \/ last'[e].owedBy # Nothing => last'[e].ran = 0 /\ last'[e].due = 0
         /\ ~last'[e].inFlight => last'[e].ran = last'[e].due
  BY <1>4, <1>5 DEF ScopeInv
<1> QED
  BY <1>1, <1>3, <1>4, <1>6, <1>7, <1>8 DEF ScopeInv

\* A guard without an exception at its start calls when it should.
LEMMA CallsAsPromised ==
    ASSUME NEW guard \in GuardRecord, guard.startedWith = 0, third \in Nat
    PROVE  Scopes!Calls(guard) = Scopes!ShouldCall(guard)
<1>1. guard.kind \in {"exit", "fail", "success"}
  BY DEF GuardRecord
<1>2. CASE guard.kind = "exit"
  BY <1>2 DEF Scopes!Calls, Scopes!ShouldCall
<1>3. CASE guard.kind = "fail"
  BY <1>3 DEF Scopes!Calls, Scopes!ShouldCall
<1>4. CASE guard.kind = "success"
  <2>1. third <= 0 <=> third = 0
    OBVIOUS
  <2> QED
    BY <1>4, <2>1 DEF Scopes!Calls, Scopes!ShouldCall
<1> QED
  BY <1>1, <1>2, <1>3, <1>4

\* A guard that is destroyed pays what it owes, and is gone.
LEMMA DestroyKeeps ==
    ASSUME ScopeInv, NEW g \in Variables, Scopes!Destroy(g)
    PROVE  ScopeInv'
<1> DEFINE guard == value[g]
           f == guard.function
           owes == last[f].owedBy = g
           ran == Scopes!Count(guard.active /\ Scopes!Calls(guard))
           due == Scopes!Count(owes /\ Scopes!ShouldCall(guard))
           new == [last[f] EXCEPT !.owedBy = IF @ = g THEN Nothing ELSE @,
                                  !.ran = @ + ran, !.due = @ + due,
                                  !.inFlight = @ \/ (owes /\ guard.startedWith > 0)]
           owner == IF last[f].owedBy = g THEN Nothing ELSE last[f].owedBy
           flight == last[f].inFlight \/ (owes /\ guard.startedWith > 0)
<1>1. /\ guard # Scopes!Gone /\ third' = third
      /\ value' = [value EXCEPT ![g] = Scopes!Gone]
      /\ last' = [Scopes!Passed(f, g, Nothing) EXCEPT
                    ![f].ran = @ + ran, ![f].due = @ + due,
                    ![f].inFlight = @ \/ (owes /\ guard.startedWith > 0)]
  BY DEF Scopes!Destroy
<1>2. /\ guard \in GuardRecord /\ guard.startedWith \in Nat /\ guard.active \in BOOLEAN
      /\ third \in Nat /\ last \in [Things -> RunRecord]
  BY DEF ScopeInv, GuardRecord
<1>3. f \in Things /\ last[f].guarded /\ (owes <=> guard.active)
  BY <1>1, <1>2 DEF ScopeInv, GuardRecord
<1>4. last[f] \in RunRecord /\ last[f].ran \in {0, 1} /\ last[f].due \in {0, 1}
      /\ last[f].inFlight \in BOOLEAN /\ last[f].owedBy \in Variables \cup {Nothing}
  BY <1>2, <1>3 DEF RunRecord
<1>5. ran \in {0, 1} /\ due \in {0, 1} /\ (~owes => ran = 0 /\ due = 0)
  BY <1>3 DEF Scopes!Count
<1>6. owes => last[f].ran = 0 /\ last[f].due = 0
  BY <1>3, LibraryAssumption DEF ScopeInv
<1>7. owes /\ ~(guard.startedWith > 0) => ran = due
  BY <1>2, <1>3, CallsAsPromised DEF Scopes!Count
<1>8. /\ last' \in [Things -> RunRecord]
      /\ last'[f].guarded /\ last'[f].owedBy = owner
      /\ last'[f].ran = last[f].ran + ran /\ last'[f].due = last[f].due + due
      /\ last'[f].inFlight = flight
      /\ \A e \in Things \ {f} : last'[e] = last[e]
  <2> HIDE DEF ran, due, owes
  <2>1. Scopes!Passed(f, g, Nothing) = [last EXCEPT ![f].owedBy = IF @ = g THEN Nothing ELSE @]
    BY DEF Scopes!Passed
  <2>2. /\ DOMAIN last' = Things /\ last' = [e \in Things |-> last'[e]]
        /\ \A e \in Things \ {f} : last'[e] = last[e]
    BY <1>1, <1>2, <1>3, <2>1
  <2>3. /\ last'[f].owedBy = owner /\ last'[f].ran = last[f].ran + ran
        /\ last'[f].due = last[f].due + due /\ last'[f].inFlight = flight
        /\ last'[f].guarded = last[f].guarded /\ last'[f] \in RunRecord
    <3> HIDE DEF f
    <3> DEFINE mid == [last[f] EXCEPT !.owedBy = IF @ = g THEN Nothing ELSE @]
    <3>1. mid \in RunRecord /\ mid.owedBy = owner /\ mid.ran = last[f].ran
          /\ mid.due = last[f].due /\ mid.inFlight = last[f].inFlight
          /\ mid.guarded = last[f].guarded
      BY <1>4 DEF RunRecord
    <3>2. last'[f] = [mid EXCEPT !.ran = @ + ran, !.due = @ + due,
                                 !.inFlight = @ \/ (owes /\ guard.startedWith > 0)]
      BY <1>1, <1>2, <1>3, <2>1
    <3>3. mid.ran + ran \in {0, 1} /\ mid.due + due \in {0, 1}
      BY <1>4, <1>5, <1>6, <3>1
    <3> HIDE DEF mid, guard
    <3>4. mid \in [guarded : BOOLEAN, ran : {0, 1}, owedBy : Variables \cup {Nothing},
                   due : {0, 1}, inFlight : BOOLEAN]
      BY <3>1 DEF RunRecord
    <3>5. (mid.inFlight \/ (owes /\ guard.startedWith > 0)) \in BOOLEAN
      OBVIOUS
    <3> QED
      BY <3>1, <3>2, <3>3, <3>4, <3>5 DEF RunRecord
  <2>4. \A e \in Things : last'[e] \in RunRecord
    BY <1>2, <2>2, <2>3
  <2> QED
    BY <1>3, <2>2, <2>3, <2>4
<1>9. /\ value' \in [Variables -> GuardRecord] /\ value'[g] = Scopes!Gone
      /\ \A h \in Variables \ {g} : value'[h] = value[h]
  BY <1>1, GoneIsIdle DEF ScopeInv
<1>10. Nothing \notin Things \cup Variables
  BY LibraryAssumption
<1> HIDE DEF ran, due, new
<1>11. \A h \in Variables, e \in Things :
         last'[e].owedBy = h <=> value'[h].function = e /\ value'[h].active
  <2> TAKE h \in Variables, e \in Things
  <2>1. \A v \in Variables, d \in Things :
           last[d].owedBy = v <=> value[v].function = d /\ value[v].active
    BY DEF ScopeInv
  <2>2. CASE h = g
    <3>1. last'[e].owedBy # g
      BY <1>3, <1>8, <1>10, <2>1
    <3> QED
      BY <1>9, <2>2, <3>1, GoneIsIdle
  <2>3. CASE h # g
    BY <1>8, <1>9, <1>10, <2>1, <2>3
  <2> QED
    BY <2>2, <2>3
<1>12. \A h \in Variables :
         /\ value'[h].function = Nothing => value'[h] = Scopes!Gone
         /\ value'[h].function # Nothing => last'[value'[h].function].guarded
  <2> TAKE h \in Variables
  <2>1. CASE h = g
    BY <1>9, <2>1, GoneIsIdle
  <2>2. CASE h # g
    BY <1>8, <1>9, <2>2 DEF ScopeInv, GuardRecord
  <2> QED
    BY <2>1, <2>2
<1>13. \A e \in Things :
         /\ ~last'[e].guarded \/ last'[e].owedBy # Nothing => last'[e].ran = 0 /\ last'[e].due = 0
         /\ ~last'[e].inFlight => last'[e].ran = last'[e].due
  <2> TAKE e \in Things
  <2>1. /\ ~last[e].guarded \/ last[e].owedBy # Nothing => last[e].ran = 0 /\ last[e].due = 0
        /\ ~last[e].inFlight => last[e].ran = last[e].due
    BY DEF ScopeInv
  <2>2. CASE e # f
    BY <1>8, <2>1, <2>2
  <2>3. CASE e = f /\ owes
    BY <1>3, <1>5, <1>6, <1>7, <1>8, <2>3
  <2>4. CASE e = f /\ ~owes
    BY <1>4, <1>5, <1>8, <2>1, <2>4
  <2> QED
    BY <2>2, <2>3, <2>4
<1> QED
  BY <1>1, <1>2, <1>8, <1>9, <1>11, <1>12, <1>13 DEF ScopeInv

\* Every step keeps it; exceptions come and go without the guards.
LEMMA ScopeKeeps ==
    ASSUME ScopeInv, Scopes!Next \/ UNCHANGED allOf
    PROVE  ScopeInv'
<1>1. ASSUME Scopes!Throw \/ Scopes!Catch PROVE ScopeInv'
  <2>1. UNCHANGED <<value, last>> /\ third' \in Nat
    BY <1>1 DEF Scopes!Throw, Scopes!Catch, ScopeInv
  <2> QED
    BY <2>1 DEF ScopeInv
<1>2. ASSUME UNCHANGED allOf PROVE ScopeInv'
  BY <1>2 DEF allOf, ScopeInv
<1> QED
  BY <1>1, <1>2, ConstructKeeps, MoveGuardKeeps, ReleaseKeeps, DestroyKeeps DEF Scopes!Next

\* So a function runs at most once, and when it should.
LEMMA ScopeRunsOnce ==
    ASSUME ScopeInv
    PROVE  Scopes!ReleasedOnce
<1> SUFFICES ASSUME NEW f \in Things
             PROVE  last[f].ran <= 1 /\ (~last[f].inFlight => last[f].ran = last[f].due)
  BY DEF Scopes!ReleasedOnce
<1>1. last[f].ran \in {0, 1}
  BY DEF ScopeInv, RunRecord
<1> QED
  BY <1>1 DEF ScopeInv
-----------------------------------------------------------------------------
(* generator: value is the frames, last what each generator holds, third    *)
(* the loop that runs.                                                     *)

FrameRecord == [frame : {"none", "suspended", "done", "destroyed"},
                state : {"monostate", "value", "exception"}, yielded : Nat, seen : Seq(Nat),
                destroyed : {0, 1}, thrown : BOOLEAN, reported : BOOLEAN]
LoopRecord == [it : Things \cup {Nothing}, at : {"no loop", "test", "body"}]

Held(c) == \E g \in Variables : last[g] = c

\* A frame that exists is held by one generator, and a loop goes over one that
\* exists.
FramesInv ==
    /\ value \in [Things -> FrameRecord] /\ last \in [Variables -> Things \cup {Nothing}]
    /\ third \in LoopRecord
    /\ \A g, h \in Variables : last[g] = last[h] /\ last[g] # Nothing => g = h
    /\ \A c \in Things :
         /\ value[c].frame \in {"suspended", "done"} <=> Held(c)
         /\ value[c].destroyed = (IF value[c].frame = "destroyed" THEN 1 ELSE 0)
    /\ third.it = Nothing <=> third.at = "no loop"
    /\ third.it # Nothing => Held(third.it)

\* Where a loop is, it has seen all but the value that it is about to see.
SeenInv(f, at) ==
    /\ \A i \in 1..Len(f.seen) : f.seen[i] = i
    /\ at # "test" => Len(f.seen) = f.yielded
    /\ at = "test" /\ f.frame = "suspended" => f.yielded = Len(f.seen) + 1
    /\ at = "test" /\ f.frame # "suspended" => f.yielded = Len(f.seen)
    /\ at = "body" => f.yielded >= 1
    /\ f.thrown /\ f.yielded = 0 => f.reported

At(c) == IF third.it = c THEN third.at ELSE "no loop"
LoopsInv == \A c \in Things : SeenInv(value[c], At(c))

GeneratorInv == FramesInv /\ LoopsInv

\* At first no frame exists.
LEMMA GeneratorBegins == Coroutines!Init => GeneratorInv
<1> SUFFICES ASSUME Coroutines!Init PROVE GeneratorInv
  OBVIOUS
<1> DEFINE fresh == [frame |-> "none", state |-> "monostate", yielded |-> 0, seen |-> <<>>,
                     destroyed |-> 0, thrown |-> FALSE, reported |-> FALSE]
<1>1. /\ value = [c \in Things |-> fresh] /\ last = [g \in Variables |-> Nothing]
      /\ third = [it |-> Nothing, at |-> "no loop"]
  BY DEF Coroutines!Init, Coroutines!Fresh
<1>2. <<>> \in Seq(Nat) /\ Len(<<>>) = 0
  OBVIOUS
<1>3. /\ fresh \in FrameRecord /\ fresh.frame = "none" /\ fresh.destroyed = 0
      /\ fresh.seen = <<>> /\ fresh.yielded = 0 /\ ~fresh.thrown
  BY <1>2 DEF FrameRecord
<1> HIDE DEF fresh
<1>4. third \in LoopRecord /\ third.it = Nothing /\ third.at = "no loop"
  BY <1>1 DEF LoopRecord
<1>5. \A c \in Things : ~Held(c)
  BY <1>1, LibraryAssumption DEF Held
<1>6. FramesInv
  BY <1>1, <1>3, <1>4, <1>5 DEF FramesInv
<1>7. SeenInv(fresh, "no loop")
  BY <1>2, <1>3 DEF SeenInv
<1>8. \A c \in Things : At(c) = "no loop"
  BY <1>4 DEF At
<1> QED
  BY <1>1, <1>6, <1>7, <1>8 DEF GeneratorInv, LoopsInv

\* What the types say of one frame and of the loop.
LEMMA FrameFields ==
    ASSUME FramesInv
    PROVE  /\ third.it \in Things \cup {Nothing} /\ third.at \in {"no loop", "test", "body"}
           /\ \A c \in Things :
                /\ value[c] \in FrameRecord /\ value[c].yielded \in Nat
                /\ value[c].seen \in Seq(Nat) /\ Len(value[c].seen) \in Nat
                /\ value[c].frame \in {"none", "suspended", "done", "destroyed"}
<1>1. third \in LoopRecord /\ \A c \in Things : value[c] \in FrameRecord
  BY DEF FramesInv
<1>2. third.it \in Things \cup {Nothing} /\ third.at \in {"no loop", "test", "body"}
  BY <1>1 DEF LoopRecord
<1>3. ASSUME NEW c \in Things
      PROVE  /\ value[c].yielded \in Nat /\ value[c].seen \in Seq(Nat)
             /\ value[c].frame \in {"none", "suspended", "done", "destroyed"}
  BY <1>1 DEF FrameRecord
<1>4. \A c \in Things : Len(value[c].seen) \in Nat
  BY <1>3
<1> QED
  BY <1>1, <1>2, <1>3, <1>4

\* The frame that a generator loses is destroyed, and its loops are over.
LEMMA FrameGoes ==
    ASSUME GeneratorInv, NEW c \in Things \cup {Nothing}, c # Nothing => Held(c),
           c # Nothing => third.it # c, value' = Coroutines!Destroyed(c), third' = third,
           last' \in [Variables -> Things \cup {Nothing}],
           \A g, h \in Variables : last'[g] = last'[h] /\ last'[g] # Nothing => g = h,
           \A d \in Things : Held(d)' <=> Held(d) /\ d # c
    PROVE  GeneratorInv'
<1>1. CASE c = Nothing
  <2>1. value' = value
    BY <1>1 DEF Coroutines!Destroyed
  <2>2. \A d \in Things : Held(d)' <=> Held(d)
    BY <1>1, LibraryAssumption
  <2>3. third.it # Nothing => third.it \in Things
    BY FrameFields DEF GeneratorInv
  <2> QED
    BY <2>1, <2>2, <2>3 DEF GeneratorInv, FramesInv, LoopsInv, At
<1>2. CASE c # Nothing
  <2> DEFINE new == [value[c] EXCEPT !.frame = "destroyed", !.destroyed = @ + 1]
  <2>1. c \in Things /\ Held(c) /\ third.it # c
    BY <1>2
  <2>2. value[c] \in FrameRecord /\ value[c].destroyed = 0 /\ value \in [Things -> FrameRecord]
    BY <2>1 DEF GeneratorInv, FramesInv
  <2>3. /\ new \in FrameRecord /\ new.frame = "destroyed" /\ new.destroyed = 1
        /\ new.seen = value[c].seen /\ new.yielded = value[c].yielded
        /\ new.thrown = value[c].thrown /\ new.reported = value[c].reported
    <3>1. new = [value[c] EXCEPT !.frame = "destroyed", !.destroyed = 1]
      BY <2>2
    <3> HIDE DEF new
    <3> QED
      BY <2>2, <3>1 DEF FrameRecord
  <2>4. /\ value'[c] = new /\ \A d \in Things \ {c} : value'[d] = value[d]
        /\ DOMAIN value' = Things /\ value' = [d \in Things |-> value'[d]]
    BY <1>2, <2>1, <2>2 DEF Coroutines!Destroyed
  <2> HIDE DEF new
  <2>5. \A d \in Things : value'[d] \in FrameRecord
    BY <2>2, <2>3, <2>4
  <2>6. third.it # Nothing => third.it \in Things /\ third.it # c
    BY <2>1, FrameFields DEF GeneratorInv
  <2>7. FramesInv'
    <3>1. value' \in [Things -> FrameRecord]
      BY <2>4, <2>5
    <3>2. \A d \in Things :
            /\ value'[d].frame \in {"suspended", "done"} <=> Held(d)'
            /\ value'[d].destroyed = (IF value'[d].frame = "destroyed" THEN 1 ELSE 0)
      <4>1. \A d \in Things \ {c} :
              /\ value[d].frame \in {"suspended", "done"} <=> Held(d)
              /\ value[d].destroyed = (IF value[d].frame = "destroyed" THEN 1 ELSE 0)
        BY DEF GeneratorInv, FramesInv
      <4>2. ~Held(c)' /\ \A d \in Things \ {c} : Held(d)' <=> Held(d)
        BY <2>1
      <4> QED
        BY <2>3, <2>4, <4>1, <4>2
    <3>3. /\ third.it # Nothing => Held(third.it)'
          /\ third' \in LoopRecord
          /\ third'.it = Nothing <=> third'.at = "no loop"
      BY <2>6 DEF GeneratorInv, FramesInv
    <3> QED
      BY <3>1, <3>2, <3>3 DEF FramesInv
  <2>8. SeenInv(value'[c], At(c))
    <3>1. SeenInv(value[c], At(c)) /\ At(c) = "no loop"
      BY <2>1 DEF GeneratorInv, LoopsInv, At
    <3> QED
      BY <2>3, <2>4, <3>1 DEF SeenInv
  <2>9. \A d \in Things \ {c} : SeenInv(value'[d], At(d))
    BY <2>4 DEF GeneratorInv, LoopsInv
  <2> QED
    BY <2>7, <2>8, <2>9 DEF GeneratorInv, LoopsInv, At
<1> QED
  BY <1>1, <1>2

\* Whoever holds what after the move of a generator into another.
LEMMA HoldsMove ==
    ASSUME GeneratorInv, NEW g \in Variables, NEW h \in Variables, g # h,
           last' = [last EXCEPT ![h] = last[g], ![g] = Nothing]
    PROVE  /\ last' \in [Variables -> Things \cup {Nothing}]
           /\ \A u, w \in Variables : last'[u] = last'[w] /\ last'[u] # Nothing => u = w
           /\ \A d \in Things : Held(d)' <=> Held(d) /\ d # last[h]
<1>1. /\ last' \in [Variables -> Things \cup {Nothing}]
      /\ last'[h] = last[g] /\ last'[g] = Nothing
      /\ \A w \in Variables \ {g, h} : last'[w] = last[w]
  BY DEF GeneratorInv, FramesInv
<1>2. \A u, w \in Variables : last[u] = last[w] /\ last[u] # Nothing => u = w
  BY DEF GeneratorInv, FramesInv
<1>3. \A u, w \in Variables : last'[u] = last'[w] /\ last'[u] # Nothing => u = w
  BY <1>1, <1>2
<1>4. ASSUME NEW d \in Things, Held(d)' PROVE Held(d) /\ d # last[h]
  BY <1>1, <1>2, <1>4, LibraryAssumption DEF Held
<1>5. ASSUME NEW d \in Things, Held(d), d # last[h] PROVE Held(d)'
  <2>1. PICK w \in Variables : last[w] = d
    BY <1>5 DEF Held
  <2>2. w # h /\ last'[IF w = g THEN h ELSE w] = d
    BY <1>1, <1>5, <2>1
  <2> QED
    BY <2>2 DEF Held
<1> QED
  BY <1>1, <1>3, <1>4, <1>5

\* A step of the loop, or of the coroutine that it resumes.
LEMMA LoopStep ==
    ASSUME GeneratorInv, NEW c \in Things, Held(c), last' = last,
           third.it \in {c, Nothing}, third' \in LoopRecord, third'.it \in {c, Nothing},
           third'.it = Nothing <=> third'.at = "no loop",
           NEW new \in FrameRecord, new.frame \in {"suspended", "done"}, new.destroyed = 0,
           value' \in [Things -> FrameRecord], value'[c] = new,
           \A d \in Things \ {c} : value'[d] = value[d],
           SeenInv(new, third'.at)
    PROVE  GeneratorInv'
<1>1. \A d \in Things : Held(d)' <=> Held(d)
  BY DEF Held
<1>2. value[c].frame \in {"suspended", "done"}
  BY DEF GeneratorInv, FramesInv
<1>3. FramesInv'
  BY <1>1, <1>2 DEF GeneratorInv, FramesInv
<1>4. At(c)' = third'.at
  BY DEF At
<1>5. ASSUME NEW d \in Things \ {c} PROVE At(d)' = At(d)
  <2>1. d # Nothing /\ d # c
    BY <1>5, LibraryAssumption
  <2> QED
    BY <2>1 DEF At
<1>6. LoopsInv'
  BY <1>4, <1>5 DEF GeneratorInv, LoopsInv
<1> QED
  BY <1>3, <1>6 DEF GeneratorInv

\* What a coroutine that is resumed makes of its frame.
ResumedTo(c, new) ==
    /\ value[c].frame = "suspended"
    /\ value' = [value EXCEPT ![c] = new]
    /\ new \in FrameRecord /\ new.destroyed = value[c].destroyed /\ new.seen = value[c].seen
    /\ \/ /\ new.frame = "suspended" /\ new.yielded = value[c].yielded + 1
          /\ new.thrown = value[c].thrown /\ new.reported = value[c].reported
       \/ /\ new.frame = "done" /\ new.yielded = value[c].yielded
          /\ new.thrown = value[c].thrown /\ new.reported = value[c].reported
       \/ /\ new.frame = "done" /\ new.yielded = value[c].yielded
          /\ new.state = "exception"

\* A resumed coroutine yields, returns or throws.
LEMMA ResumeEnds ==
    ASSUME GeneratorInv, NEW c \in Things, Coroutines!Resume(c)
    PROVE  \E new : ResumedTo(c, new)
<1>1. value[c] \in FrameRecord /\ value[c].yielded + 1 \in Nat /\ value[c].frame = "suspended"
  <2>1. value[c] \in FrameRecord /\ value[c].yielded \in Nat
    BY FrameFields DEF GeneratorInv
  <2>2. value[c].yielded + 1 \in Nat
    BY <2>1
  <2>3. value[c].frame = "suspended"
    BY DEF Coroutines!Resume
  <2> QED
    BY <2>1, <2>2, <2>3
<1>2. CASE Coroutines!YieldValue(c)
  <2> DEFINE new == [value[c] EXCEPT !.state = "value", !.yielded = @ + 1]
  <2>1. value' = [value EXCEPT ![c] = new]
    BY <1>2 DEF Coroutines!YieldValue
  <2>2. /\ new \in FrameRecord /\ new.frame = value[c].frame /\ new.seen = value[c].seen
        /\ new.yielded = value[c].yielded + 1 /\ new.destroyed = value[c].destroyed
        /\ new.thrown = value[c].thrown /\ new.reported = value[c].reported
    BY <1>1 DEF FrameRecord
  <2> HIDE DEF new
  <2> QED
    BY <1>1, <2>1, <2>2 DEF ResumedTo
<1>3. CASE Coroutines!ReturnVoid(c)
  <2> DEFINE new == [value[c] EXCEPT !.frame = "done"]
  <2>1. value' = [value EXCEPT ![c] = new]
    BY <1>3 DEF Coroutines!ReturnVoid
  <2>2. /\ new \in FrameRecord /\ new.frame = "done" /\ new.seen = value[c].seen
        /\ new.yielded = value[c].yielded /\ new.destroyed = value[c].destroyed
        /\ new.thrown = value[c].thrown /\ new.reported = value[c].reported
    BY <1>1 DEF FrameRecord
  <2> HIDE DEF new
  <2> QED
    BY <1>1, <2>1, <2>2 DEF ResumedTo
<1>4. CASE Coroutines!UnhandledException(c)
  <2> DEFINE new == [value[c] EXCEPT !.frame = "done", !.state = "exception", !.thrown = TRUE]
  <2>1. value' = [value EXCEPT ![c] = new]
    BY <1>4 DEF Coroutines!UnhandledException
  <2>2. /\ new \in FrameRecord /\ new.frame = "done" /\ new.seen = value[c].seen
        /\ new.yielded = value[c].yielded /\ new.destroyed = value[c].destroyed
        /\ new.state = "exception"
    BY <1>1 DEF FrameRecord
  <2> HIDE DEF new
  <2> QED
    BY <1>1, <2>1, <2>2 DEF ResumedTo
<1> QED
  BY <1>2, <1>3, <1>4 DEF Coroutines!Resume

\* A frame that has been replaced, and the others as they were.
LEMMA FrameReplaced ==
    ASSUME FramesInv, NEW c \in Things, NEW new \in FrameRecord,
           value' = [value EXCEPT ![c] = new]
    PROVE  /\ value' \in [Things -> FrameRecord] /\ value'[c] = new
           /\ \A d \in Things \ {c} : value'[d] = value[d]
BY DEF FramesInv

\* A frame that is held has not been destroyed.
LEMMA HeldFrames ==
    ASSUME FramesInv, NEW c \in Things, Held(c)
    PROVE  /\ value[c].frame \in {"suspended", "done"} /\ value[c].destroyed = 0
           /\ value[c] \in FrameRecord
BY DEF FramesInv

\* begin() and ++ resume the coroutine of the loop.
LEMMA ResumesInLoop ==
    ASSUME GeneratorInv, NEW c \in Things, Held(c), last' = last, Coroutines!Resume(c),
           third' = [it |-> c, at |-> "test"],
           \/ third.it = Nothing /\ value'[c].state # "exception"
           \/ third.it = c /\ third.at = "body"
    PROVE  GeneratorInv'
<1>1. PICK new : ResumedTo(c, new)
  BY ResumeEnds
<1>2. /\ value' \in [Things -> FrameRecord] /\ value'[c] = new
      /\ \A d \in Things \ {c} : value'[d] = value[d]
  BY <1>1, FrameReplaced DEF GeneratorInv, ResumedTo
<1>3. /\ third' \in LoopRecord /\ third'.it = c /\ third'.at = "test" /\ third.it \in {c, Nothing}
  BY DEF LoopRecord
<1>4. c # Nothing
  BY LibraryAssumption
<1>5. new.frame \in {"suspended", "done"} /\ new.destroyed = 0 /\ new \in FrameRecord
  BY <1>1, HeldFrames DEF GeneratorInv, ResumedTo
<1>6. /\ value[c].yielded \in Nat /\ Len(value[c].seen) \in Nat
      /\ \A i \in 1..Len(value[c].seen) : value[c].seen[i] = i
      /\ Len(value[c].seen) = value[c].yielded
      /\ third.it = c => value[c].yielded >= 1
      /\ value[c].thrown /\ value[c].yielded = 0 => value[c].reported
  BY <1>4, FrameFields DEF GeneratorInv, LoopsInv, SeenInv, At
<1>7. SeenInv(new, "test")
  BY <1>1, <1>2, <1>4, <1>6 DEF ResumedTo, SeenInv
<1> QED
  BY <1>2, <1>3, <1>4, <1>5, <1>7, LoopStep

\* Every step of a generator keeps it.
LEMMA GeneratorKeeps ==
    ASSUME GeneratorInv, Coroutines!Next \/ UNCHANGED allOf
    PROVE  GeneratorInv'
<1> USE DEF GeneratorInv
<1>1. Nothing \notin Things
  BY LibraryAssumption
<1>2. ASSUME NEW c \in Things, NEW g \in Variables, Coroutines!Create(c, g)
      PROVE  GeneratorInv'
  <2> DEFINE new == [value[c] EXCEPT !.frame = "suspended"]
  <2>1. /\ value[c].frame = "none" /\ last[g] = Nothing /\ third' = third
        /\ value' = [value EXCEPT ![c] = new] /\ last' = [last EXCEPT ![g] = c]
    BY <1>2 DEF Coroutines!Create
  <2>2. value[c] \in FrameRecord
    BY FrameFields
  <2>3. /\ new \in FrameRecord /\ new.frame = "suspended" /\ new.destroyed = value[c].destroyed
        /\ new.seen = value[c].seen /\ new.yielded = value[c].yielded
        /\ new.thrown = value[c].thrown /\ new.reported = value[c].reported
    BY <2>2 DEF FrameRecord
  <2> HIDE DEF new
  <2>4. /\ value' \in [Things -> FrameRecord] /\ value'[c] = new
        /\ \A d \in Things \ {c} : value'[d] = value[d]
    BY <2>1, <2>3, FrameReplaced
  <2>5. /\ last' \in [Variables -> Things \cup {Nothing}] /\ last'[g] = c
        /\ \A h \in Variables \ {g} : last'[h] = last[h]
    BY <2>1 DEF FramesInv
  <2>6. ~Held(c)
    BY <2>1 DEF FramesInv
  <2>7. \A d \in Things : Held(d)' <=> Held(d) \/ d = c
    <3>1. ASSUME NEW d \in Things, Held(d) PROVE Held(d)'
      BY <1>1, <2>1, <2>5, <3>1 DEF Held
    <3>2. ASSUME NEW d \in Things, Held(d)' PROVE Held(d) \/ d = c
      BY <2>5, <3>2 DEF Held
    <3>3. Held(c)'
      BY <2>5 DEF Held
    <3> QED
      BY <3>1, <3>2, <3>3
  <2>8. third.it # c /\ (third.it # Nothing => third.it \in Things)
    BY <1>1, <2>6, FrameFields DEF FramesInv
  <2>9. FramesInv'
    <3>1. \A h, i \in Variables : last'[h] = last'[i] /\ last'[h] # Nothing => h = i
      <4>1. \A h, i \in Variables : last[h] = last[i] /\ last[h] # Nothing => h = i
        BY DEF FramesInv
      <4>2. \A h \in Variables : last[h] # c
        BY <2>6 DEF Held
      <4> QED
        BY <2>5, <4>1, <4>2
    <3>2. \A d \in Things :
            /\ value'[d].frame \in {"suspended", "done"} <=> Held(d)'
            /\ value'[d].destroyed = (IF value'[d].frame = "destroyed" THEN 1 ELSE 0)
      BY <2>1, <2>3, <2>4, <2>7 DEF FramesInv
    <3>3. third.it # Nothing => Held(third.it)'
      <4>1. third.it # Nothing => Held(third.it)
        BY DEF FramesInv
      <4> QED
        BY <2>1, <2>7, <2>8, <4>1 DEF Held
    <3> QED
      BY <2>1, <2>4, <2>5, <3>1, <3>2, <3>3 DEF FramesInv
  <2>10. At(c) = "no loop" /\ \A d \in Things : At(d)' = At(d)
    BY <2>1, <2>8 DEF At
  <2>11. SeenInv(new, "no loop")
    <3>1. SeenInv(value[c], "no loop")
      BY <2>10 DEF LoopsInv
    <3> QED
      BY <2>3, <3>1 DEF SeenInv
  <2>12. LoopsInv'
    <3>1. \A d \in Things : SeenInv(value[d], At(d))
      BY DEF LoopsInv
    <3>2. \A d \in Things : SeenInv(value'[d], At(d)')
      <4> TAKE d \in Things
      <4>1. CASE d = c
        <5>1. value'[d] = new /\ At(d)' = "no loop"
          BY <2>4, <2>10, <4>1
        <5> QED
          BY <2>11, <5>1
      <4>2. CASE d # c
        <5>1. value'[d] = value[d] /\ At(d)' = At(d)
          BY <2>4, <2>10, <4>2
        <5> QED
          BY <3>1, <5>1
      <4> QED
        BY <4>1, <4>2
    <3> QED
      BY <3>2 DEF LoopsInv
  <2> QED
    BY <2>9, <2>12
<1>3. ASSUME NEW g \in Variables, NEW h \in Variables, Coroutines!MoveConstruct(g, h)
      PROVE  GeneratorInv'
  <2>1. /\ g # h /\ last[h] = Nothing /\ value' = Coroutines!Destroyed(Nothing) /\ third' = third
        /\ last' = [last EXCEPT ![h] = last[g], ![g] = Nothing]
    BY <1>3 DEF Coroutines!MoveConstruct, Coroutines!Destroyed
  <2>2. /\ last' \in [Variables -> Things \cup {Nothing}]
        /\ \A u, w \in Variables : last'[u] = last'[w] /\ last'[u] # Nothing => u = w
        /\ \A d \in Things : Held(d)' <=> Held(d) /\ d # Nothing
    BY <2>1, HoldsMove
  <2> QED
    BY <2>1, <2>2, FrameGoes
<1>4. ASSUME NEW g \in Variables, NEW h \in Variables, Coroutines!MoveAssign(g, h)
      PROVE  GeneratorInv'
  <2>1. /\ g # h /\ value' = Coroutines!Destroyed(last[h]) /\ third' = third
        /\ last' = [last EXCEPT ![h] = last[g], ![g] = Nothing]
        /\ last[h] # Nothing => third.it # last[h]
    BY <1>4 DEF Coroutines!MoveAssign
  <2>2. last[h] \in Things \cup {Nothing} /\ (last[h] # Nothing => Held(last[h]))
    BY DEF FramesInv, Held
  <2> QED
    BY <2>1, <2>2, HoldsMove, FrameGoes
<1>5. ASSUME NEW g \in Variables, Coroutines!Destroy(g)
      PROVE  GeneratorInv'
  <2>1. /\ last[g] # Nothing /\ third.it # last[g] /\ value' = Coroutines!Destroyed(last[g])
        /\ third' = third /\ last' = [last EXCEPT ![g] = Nothing]
    BY <1>5 DEF Coroutines!Destroy
  <2>2. /\ last' \in [Variables -> Things \cup {Nothing}] /\ last'[g] = Nothing
        /\ \A w \in Variables \ {g} : last'[w] = last[w]
        /\ last[g] \in Things \cup {Nothing} /\ Held(last[g])
    BY <2>1 DEF FramesInv, Held
  <2>3. \A u, w \in Variables : last'[u] = last'[w] /\ last'[u] # Nothing => u = w
    BY <2>2 DEF FramesInv
  <2>4. \A d \in Things : Held(d)' <=> Held(d) /\ d # last[g]
    <3>1. \A u, w \in Variables : last[u] = last[w] /\ last[u] # Nothing => u = w
      BY DEF FramesInv
    <3> QED
      BY <1>1, <2>1, <2>2, <3>1 DEF Held
  <2> QED
    BY <2>1, <2>2, <2>3, <2>4, FrameGoes
<1>6. ASSUME NEW g \in Variables, Coroutines!Begin(g)
      PROVE  GeneratorInv'
  <2> DEFINE c == last[g]
  <2>1. third.it = Nothing /\ c # Nothing /\ last' = last
    BY <1>6 DEF Coroutines!Begin
  <2>2. c \in Things /\ Held(c)
    BY <2>1, ZenonT(60) DEF FramesInv, Held
  <2>3. CASE /\ Coroutines!Resume(c) /\ value'[c].state # "exception"
             /\ third' = [it |-> c, at |-> "test"]
    BY <2>1, <2>2, <2>3, ResumesInLoop
  <2>4. CASE /\ value[c].frame = "suspended" /\ third' = third
             /\ value' = [value EXCEPT ![c].frame = "done", ![c].state = "exception",
                                       ![c].thrown = TRUE, ![c].reported = TRUE]
    <3> DEFINE new == [value[c] EXCEPT !.frame = "done", !.state = "exception",
                                       !.thrown = TRUE, !.reported = TRUE]
    <3>1. value[c] \in FrameRecord /\ value[c].destroyed = 0
      BY <2>2, HeldFrames
    <3>2. /\ new \in FrameRecord /\ new.frame = "done" /\ new.destroyed = 0 /\ new.reported
          /\ new.seen = value[c].seen /\ new.yielded = value[c].yielded
      BY <3>1 DEF FrameRecord
    <3>3. value' = [value EXCEPT ![c] = new]
      BY <2>4
    <3> HIDE DEF new
    <3>4. /\ value' \in [Things -> FrameRecord] /\ value'[c] = new
          /\ \A d \in Things \ {c} : value'[d] = value[d]
      BY <2>2, <3>2, <3>3, FrameReplaced
    <3>5. SeenInv(value[c], "no loop")
      BY <1>1, <2>1, <2>2 DEF LoopsInv, At
    <3>6. SeenInv(new, "no loop")
      BY <3>2, <3>5 DEF SeenInv
    <3>7. /\ third' \in LoopRecord /\ third'.it = Nothing /\ third'.at = "no loop"
          /\ third.it \in {c, Nothing}
      BY <2>1, <2>4 DEF FramesInv
    <3> HIDE DEF c
    <3>8. SeenInv(new, third'.at)
      BY <3>6, <3>7
    <3> QED
      BY <2>1, <2>2, <3>2, <3>4, <3>7, <3>8, LoopStep
  <2> QED
    BY <1>6, <2>3, <2>4 DEF Coroutines!Begin
<1>7. ASSUME third.at # "no loop"
      PROVE  third.it \in Things /\ Held(third.it)
  BY <1>7, FrameFields DEF FramesInv
<1>8. ASSUME Coroutines!Increment PROVE GeneratorInv'
  <2> DEFINE c == third.it
  <2>1. third.at = "body" /\ Coroutines!Resume(c) /\ last' = last
        /\ third' = [third EXCEPT !.at = "test"]
    BY <1>8 DEF Coroutines!Increment
  <2>2. third' = [it |-> c, at |-> "test"]
    BY <2>1 DEF FramesInv, LoopRecord
  <2> QED
    BY <1>7, <2>1, <2>2, ResumesInLoop
<1>9. ASSUME Coroutines!Test PROVE GeneratorInv'
  <2> DEFINE c == third.it
  <2>1. third.at = "test" /\ last' = last /\ c \in Things /\ Held(c)
    BY <1>7, <1>9 DEF Coroutines!Test
  <2>2. /\ value[c].frame \in {"suspended", "done"} /\ value[c].destroyed = 0
        /\ value[c] \in FrameRecord
    BY <2>1, HeldFrames
  <2>3. SeenInv(value[c], "test")
    BY <2>1 DEF LoopsInv, At
  <2>4. /\ value[c].yielded \in Nat /\ Len(value[c].seen) \in Nat
        /\ value[c].seen \in Seq(Nat)
    BY <2>1, FrameFields
  <2>5. CASE /\ value[c].frame = "done" /\ value' = value
             /\ third' = [it |-> Nothing, at |-> "no loop"]
    <3>1. SeenInv(value[c], "no loop")
      BY <2>3, <2>5 DEF SeenInv
    <3>2. third' \in LoopRecord /\ third'.it = Nothing /\ third'.at = "no loop"
      BY <2>5 DEF LoopRecord
    <3>3. value' \in [Things -> FrameRecord] /\ \A d \in Things : value'[d] = value[d]
      BY <2>5 DEF FramesInv
    <3> HIDE DEF c
    <3>4. third.it \in {c, Nothing}
      BY DEF c
    <3> QED
      BY <2>1, <2>2, <3>1, <3>2, <3>3, <3>4, LoopStep
  <2>6. ASSUME NEW v \in 1..MaxYields, value[c].frame # "done", v = value[c].yielded,
               value' = [value EXCEPT ![c].seen = Append(@, v)],
               third' = [third EXCEPT !.at = "body"]
        PROVE  GeneratorInv'
    <3> DEFINE new == [value[c] EXCEPT !.seen = Append(@, v)]
    <3>1. /\ Append(value[c].seen, v) \in Seq(Nat)
          /\ Len(Append(value[c].seen, v)) = Len(value[c].seen) + 1
          /\ \A i \in 1..Len(value[c].seen) : Append(value[c].seen, v)[i] = value[c].seen[i]
          /\ Append(value[c].seen, v)[Len(value[c].seen) + 1] = v
      BY <2>4, <2>6
    <3>2. /\ new \in FrameRecord /\ new.frame = value[c].frame /\ new.destroyed = 0
          /\ new.seen = Append(value[c].seen, v) /\ new.yielded = value[c].yielded
          /\ new.thrown = value[c].thrown /\ new.reported = value[c].reported
      BY <2>2, <3>1 DEF FrameRecord
    <3>3. value' = [value EXCEPT ![c] = new]
      BY <2>6
    <3> HIDE DEF new
    <3>4. /\ value' \in [Things -> FrameRecord] /\ value'[c] = new
          /\ \A d \in Things \ {c} : value'[d] = value[d]
      BY <2>1, <3>2, <3>3, FrameReplaced
    <3>5. value[c].yielded = Len(value[c].seen) + 1 /\ new.frame = "suspended"
      BY <2>2, <2>3, <2>6, <3>2 DEF SeenInv
    <3>6. SeenInv(new, "body")
      <4>1. \A i \in 1..(Len(value[c].seen) + 1) : new.seen[i] = i
        BY <2>3, <2>4, <2>6, <3>1, <3>2, <3>5 DEF SeenInv
      <4> QED
        BY <2>3, <2>4, <3>1, <3>2, <3>5, <4>1 DEF SeenInv
    <3>7. third' \in LoopRecord /\ third'.it = c /\ third'.at = "body"
      BY <2>6 DEF FramesInv, LoopRecord
    <3> HIDE DEF c
    <3>8. third.it \in {c, Nothing} /\ c # Nothing
      BY <1>1, <2>1 DEF c
    <3> QED
      BY <2>1, <3>2, <3>4, <3>5, <3>6, <3>7, <3>8, LoopStep
  <2> QED
    BY <1>9, <2>1, <2>5, <2>6 DEF Coroutines!Test, Coroutines!Done, Coroutines!Value
<1>10. ASSUME Coroutines!Break PROVE GeneratorInv'
  <2> DEFINE c == third.it
  <2>1. /\ third.at = "body" /\ last' = last /\ value' = value /\ c \in Things /\ Held(c)
        /\ third' = [it |-> Nothing, at |-> "no loop"]
    BY <1>7, <1>10 DEF Coroutines!Break
  <2>2. /\ value[c].frame \in {"suspended", "done"} /\ value[c].destroyed = 0
        /\ value[c] \in FrameRecord
    BY <2>1, HeldFrames
  <2>3. SeenInv(value[c], "body")
    BY <2>1 DEF LoopsInv, At
  <2>4. SeenInv(value[c], "no loop")
    BY <2>3 DEF SeenInv
  <2>5. third' \in LoopRecord /\ third'.it = Nothing /\ third'.at = "no loop"
    BY <2>1 DEF LoopRecord
  <2>6. value' \in [Things -> FrameRecord] /\ \A d \in Things : value'[d] = value[d]
    BY <2>1 DEF FramesInv
  <2>7. third.it \in {c, Nothing}
    OBVIOUS
  <2> HIDE DEF c
  <2> QED
    BY <2>1, <2>2, <2>4, <2>5, <2>6, <2>7, LoopStep
<1>11. ASSUME UNCHANGED allOf PROVE GeneratorInv'
  <2>1. value' = value /\ last' = last /\ third' = third
    BY <1>11 DEF allOf
  <2> QED
    BY <2>1 DEF FramesInv, LoopsInv, Held, At
<1> QED
  BY <1>2, <1>3, <1>4, <1>5, <1>6, <1>8, <1>9, <1>10, <1>11 DEF Coroutines!Next

\* Each frame has one owner, or none once it is destroyed, and each loop has
\* seen what it should.
LEMMA GeneratorIsRight ==
    ASSUME GeneratorInv
    PROVE  Coroutines!ReleasedOnce /\ Coroutines!EveryValueOnce
<1>1. ASSUME NEW c \in Things
      PROVE  Cardinality({g \in Variables : last[g] = c})
               = (IF value[c].frame \in {"suspended", "done"} THEN 1 ELSE 0)
  <2> DEFINE S == {g \in Variables : last[g] = c}
  <2>1. \A x, y \in S : x = y
    BY LibraryAssumption DEF GeneratorInv, FramesInv
  <2>2. Cardinality(S) = IF S = {} THEN 0 ELSE 1
    BY <2>1, OneOrNone
  <2>3. value[c].frame \in {"suspended", "done"} <=> S # {}
    BY DEF GeneratorInv, FramesInv, Held
  <2> QED
    BY <2>2, <2>3
<1>2. Coroutines!ReleasedOnce
  BY <1>1, SameCount DEF Coroutines!ReleasedOnce, GeneratorInv, FramesInv
<1>3. ASSUME NEW c \in Things
      PROVE  /\ value[c].seen = [i \in 1..Len(value[c].seen) |-> i]
             /\ third.it # c => Len(value[c].seen) = value[c].yielded
             /\ value[c].thrown /\ value[c].yielded = 0 => value[c].reported
  <2>1. value[c].seen \in Seq(Nat)
    BY FrameFields DEF GeneratorInv
  <2>2. SeenInv(value[c], At(c))
    BY DEF GeneratorInv, LoopsInv
  <2>3. value[c].seen = [i \in 1..Len(value[c].seen) |-> value[c].seen[i]]
    BY <2>1
  <2>4. value[c].seen = [i \in 1..Len(value[c].seen) |-> i]
    BY <2>2, <2>3 DEF SeenInv
  <2>5. third.it # c => At(c) = "no loop"
    BY DEF At
  <2> QED
    BY <2>2, <2>4, <2>5 DEF SeenInv
<1>4. Coroutines!EveryValueOnce
  BY <1>3 DEF Coroutines!EveryValueOnce
<1> QED
  BY <1>2, <1>4
-----------------------------------------------------------------------------
(* What the run checks of the generator and of all that own something.     *)

\* A loop over a generator sees every value once and in order, for any number
\* of coroutines, generators and values.
THEOREM LoopsSeeEveryValueOnce == LibrarySpec => []EveryValueOnce
<1> DEFINE Inv == component = "generator" => GeneratorInv
<1>1. LibraryInit => Inv
  BY OnePartBegins, GeneratorBegins
<1>2. Inv /\ [LibraryNext]_<<component, vars, third>> => Inv'
  BY OnePartRuns, GeneratorKeeps
<1>3. Inv => EveryValueOnce
  BY GeneratorIsRight DEF EveryValueOnce
<1> QED
  BY <1>1, <1>2, <1>3, PTL DEF LibrarySpec

\* Frames of generators, objects, blocks of memory and the calls that guards
\* owe are released once, by whom they belong to, for any number of them and of
\* the variables that they go through.
THEOREM EverythingIsReleasedOnce == LibrarySpec => []ReleasedOnce
<1> DEFINE Inv == /\ component = "generator" => GeneratorInv
                  /\ component = "unique_object" => OwnerInv
                  /\ component = "buffer" => MemoryInv
                  /\ component = "scope_exit" => ScopeInv
<1>1. LibraryInit => Inv
  BY OnePartBegins, GeneratorBegins, OwnerBegins, MemoryBegins, ScopeBegins
<1>2. Inv /\ [LibraryNext]_<<component, vars, third>> => Inv'
  <2> SUFFICES ASSUME Inv, [LibraryNext]_<<component, vars, third>> PROVE Inv'
    OBVIOUS
  <2>1. component' = component
    BY OnePartRuns
  <2>2. component = "generator" => GeneratorInv'
    BY OnePartRuns, GeneratorKeeps
  <2>3. component = "unique_object" => OwnerInv'
    BY OnePartRuns, OwnerKeeps
  <2>4. component = "buffer" => MemoryInv'
    BY OnePartRuns, MemoryKeeps
  <2>5. component = "scope_exit" => ScopeInv'
    BY OnePartRuns, ScopeKeeps
  <2> QED
    BY <2>1, <2>2, <2>3, <2>4, <2>5
<1>3. Inv => ReleasedOnce
  BY GeneratorIsRight, OwnerReleasesOnce, MemoryReleasesOnce, ScopeRunsOnce DEF ReleasedOnce
<1> QED
  BY <1>1, <1>2, <1>3, PTL DEF LibrarySpec
-----------------------------------------------------------------------------
(* getopt: value is the arguments, last its globals, third the parse.       *)

\* What the arguments are, and the letters of a cluster; its globals.
Kinds == {"plain", "--", "long", "long arg", "cluster"}
Argument == {a \in [id : Nat \ {0}, kind : Kinds, letters : Seq(STRING)] :
                 a.kind = "cluster" => a.letters # <<>>}
Letter == [id : Nat \ {0}, at : Nat \ {0}, letter : STRING]
Globals == [optind : Nat \ {0}, nextchar : Seq(Letter), first : Nat \ {0}, last : Nat \ {0}]
Places == Nat \X Nat

\* What a call needs of what it finds, and leaves, whatever was parsed before.
Kept(args, s) == args \in Seq(Argument) /\ s \in Globals /\ s.first <= s.last

\* Where getopt is: behind what it has gone past, in a cluster or not.
Cursor(s) == <<s.optind, IF s.nextchar = <<>> THEN 0 ELSE s.nextchar[1].at>>

\* All of an argument is among the parts that were given out.
Passed(a, given) == Options!Parts(a) \subseteq given

\* In a cluster, nextchar is what is left of it.
InCluster(args, s, given) ==
    /\ s.optind <= Len(args) /\ args[s.optind].kind = "cluster"
    /\ Len(s.nextchar) <= Len(args[s.optind].letters)
    /\ \A k \in 1..Len(s.nextchar) :
         /\ s.nextchar[k].id = s.optind
         /\ s.nextchar[k].at = Len(args[s.optind].letters) - Len(s.nextchar) + k
    /\ \A k \in 1..(Len(args[s.optind].letters) - Len(s.nextchar)) : <<s.optind, k>> \in given

\* A parse begins with nothing set aside and nothing given out.
Begins(args, s) ==
    /\ args \in Seq(Argument) /\ s \in Globals /\ s.optind = 1 /\ s.nextchar = <<>>
    /\ \A k \in DOMAIN args : args[k].id = k

\* Between two options.  Behind optind the arguments are as they were given,
\* from first to last are those set aside, in order and not given out, and
\* everything else is given out, and lies before the cursor.
Scanned(args, s, given) ==
    /\ Kept(args, s) /\ given \subseteq Places
    /\ s.last <= s.optind /\ s.optind <= Len(args) + 1
    /\ \A k \in s.optind..Len(args) : args[k].id = k
    /\ \A k \in s.first..(s.last - 1) :
         args[k].id < s.optind /\ \A p \in given : p[1] # args[k].id
    /\ \A j, k \in s.first..(s.last - 1) : j < k => args[j].id < args[k].id
    /\ \A k \in 1..(s.first - 1) : Passed(args[k], given)
    /\ \A k \in s.last..(s.optind - 1) : Passed(args[k], given)
    /\ \A p \in given : Options!Before(p, Cursor(s))
    /\ s.nextchar # <<>> => InCluster(args, s, given)

\* After the options: from optind on are those that are none, in order and
\* not given out, and all before them is, but for the terminator.
Rest(args, s, given) ==
    /\ args \in Seq(Argument) /\ s \in Globals /\ given \subseteq Places
    /\ s.optind <= Len(args) + 1
    /\ \A j, k \in s.optind..Len(args) : j < k => args[j].id < args[k].id
    /\ \A k \in s.optind..Len(args), p \in given : p[1] # args[k].id
    /\ \A k \in 1..(s.optind - 1) : args[k].kind = "--" \/ Passed(args[k], given)

\* One part is before all others.
HasFirst(parts) ==
    \E p \in parts : \A q \in parts : p[1] < q[1] \/ (p[1] = q[1] /\ p[2] <= q[2])

\* What is found next: one part or more, behind all that was given out.
Ahead(given, parts) ==
    /\ HasFirst(parts)
    /\ \A p \in given, q \in parts : Options!Before(p, q)

Delivery == [parts : SUBSET Places, isNonOption : BOOLEAN]
GivenOut(delivered) == UNION {delivered[i].parts : i \in DOMAIN delivered}

\* No part twice, and options and the others each in order.
InOrder(delivered) ==
    /\ \A i \in DOMAIN delivered : HasFirst(delivered[i].parts)
    /\ \A i, j \in DOMAIN delivered : i < j =>
         /\ delivered[i].parts \cap delivered[j].parts = {}
         /\ delivered[i].isNonOption = delivered[j].isNonOption =>
              \A p \in delivered[i].parts, q \in delivered[j].parts : Options!Before(p, q)

\* A parse that began outside of a cluster.
CleanInv ==
    /\ InOrder(third.delivered)
    /\ third.phase = "options" =>
         /\ \A i \in DOMAIN third.delivered : ~third.delivered[i].isNonOption
         /\ \/ third.delivered = <<>> /\ Begins(value, last)
            \/ Scanned(value, last, GivenOut(third.delivered))
    /\ third.phase = "rest" =>
         /\ Rest(value, last, GivenOut(third.delivered))
         /\ \A i \in DOMAIN third.delivered, k \in last.optind..Len(value) :
              third.delivered[i].isNonOption =>
                \A p \in third.delivered[i].parts : p[1] < value[k].id
    /\ third.phase = "finished" =>
         /\ last.optind = third.saved
         /\ \A k \in DOMAIN value :
              value[k].kind = "--" \/ Passed(value[k], GivenOut(third.delivered))

OptionsInv ==
    /\ Kept(value, last)
    /\ third \in [phase : {"none", "options", "stopped", "rest", "finished"}, clean : BOOLEAN,
                  saved : Nat \ {0}, delivered : Seq(Delivery)]
    /\ third.phase = "none" => third.delivered = <<>>
    /\ third.clean => CleanInv

\* What setting aside does: the arguments from first to last change places
\* with those from last to optind.
IsAside(args, s, aside) ==
    /\ aside = [args |-> aside.args, s |-> aside.s]
    /\ aside.args \in Seq(Argument) /\ Len(aside.args) = Len(args)
    /\ aside.s \in Globals
    /\ aside.s.optind = s.optind /\ aside.s.nextchar = s.nextchar
    /\ aside.s.first = s.first + (s.optind - s.last)
    /\ \A k \in 1..Len(args) :
         /\ k < s.first \/ k >= s.optind => aside.args[k] = args[k]
         /\ k >= s.first /\ k < s.first + (s.optind - s.last) =>
              /\ k + (s.last - s.first) \in 1..Len(args)
              /\ aside.args[k] = args[k + (s.last - s.first)]
         /\ k >= s.first + (s.optind - s.last) /\ k < s.optind =>
              /\ k - (s.optind - s.last) \in 1..Len(args)
              /\ aside.args[k] = args[k - (s.optind - s.last)]

\* The arguments after exchange, element by element.
IsExchange(args, s, all) ==
    /\ all \in Seq(Argument) /\ Len(all) = Len(args)
    /\ \A k \in 1..Len(args) :
         /\ k < s.first \/ k >= s.optind => all[k] = args[k]
         /\ k >= s.first /\ k < s.first + (s.optind - s.last) =>
              all[k] = args[k + (s.last - s.first)]
         /\ k >= s.first + (s.optind - s.last) /\ k < s.optind =>
              all[k] = args[k - (s.optind - s.last)]

LEMMA Exchanges ==
    ASSUME NEW args \in Seq(Argument), NEW s \in Globals,
           s.first <= s.last, s.last <= s.optind, s.optind <= Len(args) + 1
    PROVE  IsExchange(args, s, Options!Exchanged(args, s))
<1>p. PICK a, b, c, d, n, f, l, o, all :
        /\ a = SubSeq(args, 1, f - 1) /\ b = SubSeq(args, l, o - 1)
        /\ c = SubSeq(args, f, l - 1) /\ d = SubSeq(args, o, Len(args))
        /\ n = Len(args) /\ f = s.first /\ l = s.last /\ o = s.optind
        /\ all = Options!Exchanged(args, s)
  OBVIOUS
<1>e. all = ((a \o b) \o c) \o d
  BY <1>p DEF Options!Exchanged
<1>i. /\ f \in Nat \ {0} /\ l \in Nat \ {0} /\ o \in Nat \ {0}
      /\ f <= l /\ l <= o
  BY <1>p DEF Globals
<1>n. n \in Nat /\ n = Len(args) /\ o <= n + 1
  BY <1>p, LenProperties
<1>s. \A i \in 1..n : args[i] \in Argument
  BY <1>n, ElementOfSeq
<1>a. a \in Seq(Argument) /\ Len(a) = f - 1 /\ \A k \in 1..(f - 1) : a[k] = args[k]
  <2>1. /\ \A i \in 1..(f - 1) : args[i] \in Argument
        /\ f - 1 \in Int /\ 1 \in Int
    BY <1>n, <1>i, <1>s
  <2>2. /\ a \in Seq(Argument) /\ Len(a) = IF 1 <= f - 1 THEN (f - 1) - 1 + 1 ELSE 0
        /\ \A i \in 1..((f - 1) - 1 + 1) : a[i] = args[1 + i - 1]
    BY <1>p, <2>1, SubSeqProperties
  <2>3. (f - 1) - 1 + 1 = f - 1 /\ \A i \in 1..(f - 1) : 1 + i - 1 = i
    BY <1>i
  <2> QED
    BY <1>i, <2>2, <2>3
<1>b. b \in Seq(Argument) /\ Len(b) = o - l /\ \A k \in 1..(o - l) : b[k] = args[l + k - 1]
  <2>1. /\ \A i \in l..(o - 1) : args[i] \in Argument
        /\ l \in Int /\ o - 1 \in Int
    BY <1>n, <1>i, <1>s
  <2>2. /\ b \in Seq(Argument) /\ Len(b) = IF l <= o - 1 THEN (o - 1) - l + 1 ELSE 0
        /\ \A i \in 1..((o - 1) - l + 1) : b[i] = args[l + i - 1]
    BY <1>p, <2>1, SubSeqProperties, SMTT(30)
  <2>3. (o - 1) - l + 1 = o - l
    BY <1>i, <1>n
  <2> QED
    BY <1>i, <1>n, <2>2, <2>3
<1>c. c \in Seq(Argument) /\ Len(c) = l - f /\ \A k \in 1..(l - f) : c[k] = args[f + k - 1]
  <2>1. /\ \A i \in f..(l - 1) : args[i] \in Argument
        /\ f \in Int /\ l - 1 \in Int
    BY <1>n, <1>i, <1>s
  <2>2. /\ c \in Seq(Argument) /\ Len(c) = IF f <= l - 1 THEN (l - 1) - f + 1 ELSE 0
        /\ \A i \in 1..((l - 1) - f + 1) : c[i] = args[f + i - 1]
    BY <1>p, <2>1, SubSeqProperties, SMTT(30)
  <2>3. (l - 1) - f + 1 = l - f
    BY <1>i, <1>n
  <2> QED
    BY <1>i, <1>n, <2>2, <2>3
<1>d. d \in Seq(Argument) /\ Len(d) = n - o + 1 /\ \A k \in 1..(n - o + 1) : d[k] = args[o + k - 1]
  <2>1. /\ \A i \in o..(n) : args[i] \in Argument
        /\ o \in Int /\ n \in Int
    BY <1>n, <1>i, <1>s
  <2>2. /\ d \in Seq(Argument) /\ Len(d) = IF o <= n THEN (n) - o + 1 ELSE 0
        /\ \A i \in 1..((n) - o + 1) : d[i] = args[o + i - 1]
    BY <1>p, <2>1, SubSeqProperties
  <2>3. (n) - o + 1 = n - o + 1
    BY <1>i, <1>n
  <2> QED
    BY <1>i, <1>n, <2>2, <2>3
<1>1. /\ a \o b \in Seq(Argument) /\ Len(a \o b) = (f - 1) + (o - l)
      /\ \A k \in 1..((f - 1) + (o - l)) :
           (a \o b)[k] = IF k <= f - 1 THEN a[k] ELSE b[k - (f - 1)]
  <2>1. /\ a \o b \in Seq(Argument) /\ Len(a \o b) = Len(a) + Len(b)
        /\ \A i \in 1..Len(a) + Len(b) :
             (a \o b)[i] = IF i <= Len(a) THEN a[i] ELSE b[i - Len(a)]
    BY <1>a, <1>b, ConcatProperties
  <2> QED
    BY <1>a, <1>b, <1>i, <2>1
<1>2. /\ (a \o b) \o c \in Seq(Argument) /\ Len((a \o b) \o c) = o - 1
      /\ \A k \in 1..(o - 1) :
           ((a \o b) \o c)[k] = IF k <= (f - 1) + (o - l) THEN (a \o b)[k]
                                ELSE c[k - ((f - 1) + (o - l))]
  <2> DEFINE e == a \o b
  <2>1. e \in Seq(Argument) /\ Len(e) = (f - 1) + (o - l)
    BY <1>1
  <2> HIDE DEF e
  <2>2. /\ e \o c \in Seq(Argument) /\ Len(e \o c) = Len(e) + Len(c)
        /\ \A i \in 1..Len(e) + Len(c) :
             (e \o c)[i] = IF i <= Len(e) THEN e[i] ELSE c[i - Len(e)]
    BY <1>c, <2>1, ConcatProperties
  <2>3. (f - 1) + (o - l) + (l - f) = o - 1
    BY <1>n, <1>i
  <2>4. /\ e \o c \in Seq(Argument) /\ Len(e \o c) = o - 1
        /\ \A k \in 1..(o - 1) :
             (e \o c)[k] = IF k <= (f - 1) + (o - l) THEN e[k] ELSE c[k - ((f - 1) + (o - l))]
    BY <1>c, <1>i, <2>1, <2>2, <2>3
  <2> QED
    BY <2>4 DEF e
<1>3. /\ all \in Seq(Argument) /\ Len(all) = n
      /\ \A k \in 1..n : all[k] = IF k <= o - 1 THEN ((a \o b) \o c)[k] ELSE d[k - (o - 1)]
  <2> DEFINE e == (a \o b) \o c
  <2>1. e \in Seq(Argument) /\ Len(e) = o - 1 /\ all = e \o d
    BY <1>2, <1>e
  <2> HIDE DEF e
  <2>2. /\ e \o d \in Seq(Argument) /\ Len(e \o d) = Len(e) + Len(d)
        /\ \A i \in 1..Len(e) + Len(d) :
             (e \o d)[i] = IF i <= Len(e) THEN e[i] ELSE d[i - Len(e)]
    BY <1>d, <2>1, ConcatProperties
  <2>3. (o - 1) + (n - o + 1) = n
    BY <1>n, <1>i
  <2>4. /\ all \in Seq(Argument) /\ Len(all) = n
        /\ \A k \in 1..n : all[k] = IF k <= o - 1 THEN e[k] ELSE d[k - (o - 1)]
    BY <1>d, <1>i, <1>n, <2>1, <2>2, <2>3
  <2> QED
    BY <2>4 DEF e
<1>4. ASSUME NEW k \in 1..n, k < f
      PROVE  all[k] = args[k]
  <2>1. /\ k \in 1..(f - 1) /\ k \in 1..((f - 1) + (o - l)) /\ k \in 1..(o - 1)
        /\ k <= f - 1 /\ k <= (f - 1) + (o - l) /\ k <= o - 1 /\ k \in 1..n
    BY <1>4, <1>n, <1>i
  <2>2. all[k] = ((a \o b) \o c)[k]
    BY <1>3, <2>1
  <2>3. ((a \o b) \o c)[k] = (a \o b)[k]
    BY <1>2, <2>1
  <2>4. (a \o b)[k] = a[k]
    BY <1>1, <2>1
  <2> QED
    BY <1>a, <2>1, <2>2, <2>3, <2>4
<1>5. ASSUME NEW k \in 1..n, k >= o
      PROVE  all[k] = args[k]
  <2>1. k - (o - 1) \in 1..(n - o + 1) /\ ~(k <= o - 1) /\ o + (k - (o - 1)) - 1 = k
    BY <1>5, <1>n, <1>i
  <2> QED
    BY <1>3, <1>d, <2>1
<1>6. ASSUME NEW k \in 1..n, k >= f, k < f + (o - l)
      PROVE  all[k] = args[k + (l - f)]
  <2>1. /\ k \in 1..((f - 1) + (o - l)) /\ k \in 1..(o - 1) /\ ~(k <= f - 1)
        /\ k <= (f - 1) + (o - l) /\ k <= o - 1 /\ k \in 1..n
        /\ k - (f - 1) \in 1..(o - l) /\ l + (k - (f - 1)) - 1 = k + (l - f)
    BY <1>6, <1>n, <1>i
  <2>2. all[k] = ((a \o b) \o c)[k]
    BY <1>3, <2>1
  <2>3. ((a \o b) \o c)[k] = (a \o b)[k]
    BY <1>2, <2>1
  <2>4. (a \o b)[k] = b[k - (f - 1)]
    BY <1>1, <2>1
  <2> QED
    BY <1>b, <2>1, <2>2, <2>3, <2>4
<1>7. ASSUME NEW k \in 1..n, k >= f + (o - l), k < o
      PROVE  all[k] = args[k - (o - l)]
  <2>1. /\ k \in 1..(o - 1) /\ ~(k <= (f - 1) + (o - l)) /\ k <= o - 1 /\ k \in 1..n
        /\ k - ((f - 1) + (o - l)) \in 1..(l - f)
        /\ f + (k - ((f - 1) + (o - l))) - 1 = k - (o - l)
    BY <1>7, <1>n, <1>i
  <2>2. all[k] = ((a \o b) \o c)[k]
    BY <1>3, <2>1
  <2>3. ((a \o b) \o c)[k] = c[k - ((f - 1) + (o - l))]
    BY <1>2, <2>1
  <2> QED
    BY <1>c, <2>1, <2>2, <2>3
<1> QED
  BY <1>3, <1>4, <1>5, <1>6, <1>7, <1>p DEF IsExchange

\* SetAside does that.
LEMMA SetsAside ==
    ASSUME NEW args \in Seq(Argument), NEW s \in Globals,
           s.first <= s.last, s.last <= s.optind, s.optind <= Len(args) + 1
    PROVE  IsAside(args, s, Options!SetAside(args, s))
<1> DEFINE f == s.first
           l == s.last
           o == s.optind
           n == Len(args)
<1>1. f \in Nat \ {0} /\ l \in Nat \ {0} /\ o \in Nat \ {0} /\ n \in Nat
  BY LenProperties DEF Globals
<1>2. CASE f # l /\ l # o
  <2>1. PICK all : all = Options!Exchanged(args, s)
    OBVIOUS
  <2>2. Options!SetAside(args, s) =
          [args |-> all, s |-> [s EXCEPT !.first = f + o - l, !.last = o]]
    BY <1>2, <2>1 DEF Options!SetAside
  <2>3. IsExchange(args, s, all)
    BY <2>1, Exchanges
  <2>4. f + o - l \in Nat \ {0} /\ f + o - l = f + (o - l)
    BY <1>1
  <2>5. /\ \A k \in 1..n : k >= f /\ k < f + (o - l) => k + (l - f) \in 1..n
        /\ \A k \in 1..n : k >= f + (o - l) /\ k < o => k - (o - l) \in 1..n
    BY <1>1, SMTT(30)
  <2>6. PICK aside : aside = Options!SetAside(args, s)
    OBVIOUS
  <2>7. aside.args = all /\ aside.s = [s EXCEPT !.first = f + o - l, !.last = o]
    BY <2>2, <2>6
  <2>8. aside.s \in Globals /\ aside.s.optind = o /\ aside.s.nextchar = s.nextchar
        /\ aside.s.first = f + (o - l)
    BY <1>1, <2>4, <2>7 DEF Globals
  <2>9. aside = [args |-> aside.args, s |-> aside.s]
    BY <2>2, <2>6
  <2> QED
    BY <2>3, <2>5, <2>6, <2>7, <2>8, <2>9 DEF IsAside, IsExchange
<1>3. CASE ~(f # l /\ l # o)
  <2>1. PICK aside : aside = Options!SetAside(args, s)
    OBVIOUS
  <2>2. aside = [args |-> args, s |-> IF l # o THEN [s EXCEPT !.first = o] ELSE s]
    BY <1>3, <2>1 DEF Options!SetAside
  <2>3. aside.args = args /\ aside.s \in Globals /\ aside.s.optind = o
        /\ aside.s.nextchar = s.nextchar
    BY <1>1, <2>2 DEF Globals
  <2>4. aside.s.first = f + (o - l)
    <3>1. CASE l = o
      BY <1>1, <2>2, <3>1
    <3>2. CASE l # o
      BY <1>1, <1>3, <2>2, <3>2 DEF Globals
    <3> QED
      BY <3>1, <3>2
  <2>5. \A k \in 1..n :
          /\ k >= f /\ k < f + (o - l) => k + (l - f) \in 1..n /\ args[k] = args[k + (l - f)]
          /\ k >= f + (o - l) /\ k < o =>
               k - (o - l) \in 1..n /\ args[k] = args[k - (o - l)]
    <3>1. CASE l = o
      BY <1>1, <3>1
    <3>2. CASE l # o
      BY <1>1, <1>3, <3>2
    <3> QED
      BY <3>1, <3>2
  <2>6. aside = [args |-> aside.args, s |-> aside.s]
    BY <2>2
  <2> QED
    BY <2>1, <2>3, <2>4, <2>5, <2>6 DEF IsAside
<1> QED
  BY <1>2, <1>3

\* The next element that is no plain argument, or the end.
IsNext(args, i, next) ==
    /\ next \in i..(Len(args) + 1)
    /\ next > Len(args) \/ args[next].kind # "plain"
    /\ \A j \in i..(next - 1) : args[j].kind = "plain"

\* There is one.
LEMMA FindsNext ==
    ASSUME NEW args \in Seq(Argument), NEW i \in Nat \ {0}, i <= Len(args) + 1
    PROVE  IsNext(args, i, Options!NextElement(args, i))
<1> DEFINE n == Len(args)
           S == {k \in i..(n + 1) : k > n \/ args[k].kind # "plain"}
<1>1. n \in Nat
  BY LenProperties
<1>2. n + 1 \in S /\ S \subseteq Nat
  BY <1>1
<1>3. PICK next \in S : \A m \in S : ~(<<m, next>> \in OpToRel(<, Nat))
  <2> HIDE DEF S
  <2> QED
    BY <1>2, NatLessThanWellFounded, WFMin
<1>4. \A j \in i..(next - 1) : args[j].kind = "plain"
  <2>1. SUFFICES ASSUME NEW j \in i..(next - 1), args[j].kind # "plain"
                 PROVE  FALSE
    OBVIOUS
  <2>2. j \in S /\ j < next /\ j \in Nat /\ next \in Nat
    BY <1>1, <2>1
  <2> QED
    BY <1>3, <2>2 DEF OpToRel
<1>5. IsNext(args, i, next)
  BY <1>4 DEF IsNext
<1> QED
  BY <1>5 DEF IsNext, Options!NextElement

\* The parts of an argument: at least one, all with its place.
LEMMA PartsOf ==
    ASSUME NEW a \in Argument
    PROVE  /\ Options!Parts(a) \subseteq Places /\ HasFirst(Options!Parts(a))
           /\ \A p \in Options!Parts(a) : p[1] = a.id
<1>1. a.id \in Nat /\ a.letters \in Seq(STRING) /\ Len(a.letters) \in Nat
      /\ DOMAIN a.letters = 1..Len(a.letters)
  BY LenProperties DEF Argument
<1>2. CASE a.kind = "cluster"
  <2>1. Options!Parts(a) = {<<a.id, k>> : k \in 1..Len(a.letters)}
    BY <1>1, <1>2 DEF Options!Parts
  <2>2. a.letters # <<>>
    BY <1>2 DEF Argument
  <2>3. 1 \in 1..Len(a.letters)
    BY <1>1, <2>2, EmptySeq
  <2>4. HasFirst(Options!Parts(a))
    <3>1. <<a.id, 1>> \in Options!Parts(a)
      BY <2>1, <2>3
    <3>2. \A q \in Options!Parts(a) : q[1] = a.id /\ q[2] \in Nat /\ 1 <= q[2]
      BY <1>1, <2>1
    <3> QED
      BY <3>1, <3>2 DEF HasFirst
  <2> QED
    BY <1>1, <2>1, <2>4 DEF Places
<1>3. CASE a.kind # "cluster"
  <2>1. Options!Parts(a) = {<<a.id, 0>>}
    BY <1>3 DEF Options!Parts
  <2> QED
    BY <1>1, <2>1 DEF HasFirst, Places
<1> QED
  BY <1>2, <1>3

\* The next argument has been given out, all of it or what was left.
LEMMA ArgumentTaken ==
    ASSUME NEW args, NEW s, NEW given, Scanned(args, s, given), s.optind <= Len(args),
           NEW parts \in SUBSET Places, \A p \in parts : p[1] = s.optind,
           Passed(args[s.optind], given \cup parts),
           NEW t, t = [s EXCEPT !.optind = @ + 1, !.nextchar = <<>>]
    PROVE  Scanned(args, t, given \cup parts)
<1>1. /\ args \in Seq(Argument) /\ s \in Globals /\ s.first <= s.last
      /\ given \subseteq Places /\ s.last <= s.optind /\ Len(args) \in Nat
      /\ s.first \in Nat \ {0} /\ s.last \in Nat \ {0} /\ s.optind \in Nat \ {0}
  BY LenProperties DEF Scanned, Kept, Globals
<1>2. /\ t \in Globals /\ t.first = s.first /\ t.last = s.last /\ t.optind = s.optind + 1
      /\ t.nextchar = <<>>
  <2>1. <<>> \in Seq(Letter)
    BY EmptySeq
  <2>2. s.optind + 1 \in Nat \ {0}
    BY <1>1
  <2> QED
    BY <1>1, <2>1, <2>2 DEF Globals
<1>3. Kept(args, t) /\ given \cup parts \subseteq Places
  BY <1>1, <1>2 DEF Kept
<1>4. \A k \in t.optind..Len(args) : args[k].id = k
  BY <1>1, <1>2 DEF Scanned
<1>5. \A k \in t.first..(t.last - 1) :
         args[k].id < t.optind /\ \A p \in given \cup parts : p[1] # args[k].id
  <2>1. SUFFICES ASSUME NEW k \in s.first..(s.last - 1)
                 PROVE  args[k].id < t.optind /\ \A p \in given \cup parts : p[1] # args[k].id
    BY <1>2
  <2>2. k \in 1..Len(args)
    BY <1>1 DEF Scanned
  <2>3. args[k].id \in Nat
    <3>1. args[k] \in Argument
      BY <1>1, <2>2, ElementOfSeq
    <3> QED
      BY <3>1 DEF Argument
  <2>4. args[k].id < s.optind /\ \A p \in given : p[1] # args[k].id
    BY DEF Scanned
  <2> QED
    BY <1>1, <1>2, <2>3, <2>4
<1>6. \A j, k \in t.first..(t.last - 1) : j < k => args[j].id < args[k].id
  BY <1>2 DEF Scanned
<1>7. \A k \in 1..(t.first - 1) : Passed(args[k], given \cup parts)
  BY <1>2 DEF Scanned, Passed
<1>8. \A k \in t.last..(t.optind - 1) : Passed(args[k], given \cup parts)
  BY <1>1, <1>2 DEF Scanned, Passed
<1>9. \A p \in given \cup parts : Options!Before(p, Cursor(t))
  <2>1. \A p \in Places : p[1] \in Nat /\ p[2] \in Nat
    BY DEF Places
  <2>2. ASSUME NEW p \in given PROVE p[1] <= s.optind
    <3>1. Options!Before(p, Cursor(s))
      BY DEF Scanned
    <3> QED
      BY <1>1, <2>1, <3>1 DEF Options!Before, Cursor
  <2> QED
    BY <1>1, <1>2, <2>1, <2>2 DEF Options!Before, Cursor
<1> QED
  <2>1. t.last <= t.optind /\ t.optind <= Len(args) + 1
    BY <1>1, <1>2
  <2> QED
    BY <1>2, <1>3, <1>4, <1>5, <1>6, <1>7, <1>8, <1>9, <2>1 DEF Scanned

\* What is left of a cluster, its first letter and all of it: letters of the
\* argument at optind, behind all that was given out, and with that all of it.
AreLeft(args, s, given, one, all) ==
    /\ s.nextchar \in Seq(Letter) /\ Len(s.nextchar) \in Nat \ {0}
    /\ s.optind \in Nat \ {0} /\ s.optind <= Len(args)
    /\ s.nextchar[1] \in Letter /\ one = {<<s.optind, s.nextchar[1].at>>}
    /\ one \in SUBSET Places /\ all \in SUBSET Places
    /\ \A p \in one \cup all : p[1] = s.optind
    /\ Ahead(given, one) /\ Ahead(given, all)
    /\ Passed(args[s.optind], given \cup all)
    /\ Len(s.nextchar) = 1 => Passed(args[s.optind], given \cup one)

LEMMA LettersLeft ==
    ASSUME NEW args, NEW s, NEW given, Scanned(args, s, given), s.nextchar # <<>>,
           NEW one, one = Options!PartsOfLetters(<<Head(s.nextchar)>>),
           NEW all, all = Options!PartsOfLetters(s.nextchar)
    PROVE  AreLeft(args, s, given, one, all)
<1> DEFINE c == s.nextchar
           o == s.optind
           a == args[s.optind]
           m == Len(s.nextchar)
           n == Len(args[s.optind].letters)
<1>1. /\ c \in Seq(Letter) /\ m \in Nat \ {0} /\ o \in Nat \ {0} /\ o <= Len(args)
      /\ DOMAIN c = 1..m /\ args \in Seq(Argument) /\ given \in SUBSET Places
  <2>1. c \in Seq(Letter) /\ o \in Nat \ {0} /\ o <= Len(args) /\ args \in Seq(Argument)
        /\ given \in SUBSET Places
    BY DEF Scanned, Kept, Globals, InCluster
  <2> QED
    BY <2>1, LenProperties, EmptySeq
<1>2. a \in Argument /\ n \in Nat /\ a.id = o /\ a.kind = "cluster" /\ DOMAIN a.letters = 1..n
      /\ m <= n
  <2>1. a \in Argument /\ Len(args) \in Nat
    BY <1>1, LenProperties, ElementOfSeq
  <2>2. a.letters \in Seq(STRING)
    BY <2>1 DEF Argument
  <2>3. a.kind = "cluster" /\ m <= n
    BY DEF Scanned, InCluster
  <2>4. a.id = o
    <3>1. o \in o..Len(args)
      BY <1>1, <2>1
    <3> QED
      BY <3>1 DEF Scanned
  <2> QED
    BY <2>1, <2>2, <2>3, <2>4, LenProperties
<1>3. \A k \in 1..m : c[k] \in Letter /\ c[k].id = o /\ c[k].at = (n - m) + k
  <2>1. SUFFICES ASSUME NEW k \in 1..m
                 PROVE  c[k] \in Letter /\ c[k].id = o /\ c[k].at = (n - m) + k
    OBVIOUS
  <2>2. c[k] \in Letter
    BY <1>1, ElementOfSeq
  <2>3. c[k].id = o /\ c[k].at = n - m + k
    BY DEF Scanned, InCluster
  <2> QED
    BY <2>2, <2>3
<1>4. all = {<<o, (n - m) + k>> : k \in 1..m}
  BY <1>1, <1>3 DEF Options!PartsOfLetters
<1>5. one = {<<o, c[1].at>>} /\ 1 \in 1..m
  <2>1. Head(c) = c[1]
    BY <1>1
  <2>2. DOMAIN <<Head(c)>> = {1} /\ <<Head(c)>>[1] = c[1]
    BY <2>1
  <2>3. one = {<<c[1].id, c[1].at>>}
    BY <2>2 DEF Options!PartsOfLetters
  <2>4. 1 \in 1..m
    BY <1>1
  <2>5. c[1].id = o
    BY <1>3, <2>4
  <2> QED
    BY <2>3, <2>4, <2>5
<1>6. one \in SUBSET Places /\ all \in SUBSET Places /\ \A p \in one \cup all : p[1] = o
  <2>1. \A k \in 1..m : (n - m) + k \in Nat
    BY <1>1, <1>2
  <2>2. all \in SUBSET Places /\ \A p \in all : p[1] = o
    <3>1. SUFFICES ASSUME NEW p \in all PROVE p \in Places /\ p[1] = o
      OBVIOUS
    <3>2. PICK k \in 1..m : p = <<o, (n - m) + k>>
      BY <1>4
    <3> QED
      BY <1>1, <2>1, <3>2 DEF Places
  <2>3. c[1].at \in Nat
    BY <1>3, <1>5, <2>1
  <2> QED
    BY <1>1, <1>5, <2>2, <2>3 DEF Places
<1>7. c[1].at = (n - m) + 1 /\ <<o, c[1].at>> \in all
  BY <1>1, <1>3, <1>4, <1>5
<1>8. \A q \in all : q[1] = o /\ c[1].at <= q[2] /\ q[2] \in Nat
  <2>1. ASSUME NEW k \in 1..m PROVE c[1].at <= (n - m) + k /\ (n - m) + k \in Nat
    BY <1>1, <1>2, <1>7
  <2>2. SUFFICES ASSUME NEW q \in all PROVE q[1] = o /\ c[1].at <= q[2] /\ q[2] \in Nat
    OBVIOUS
  <2>3. PICK k \in 1..m : q = <<o, (n - m) + k>>
    BY <1>4
  <2> QED
    BY <2>1, <2>3
<1>9. HasFirst(one) /\ HasFirst(all)
  <2>1. HasFirst(one)
    <3>1. c[1].at \in Nat /\ o \in Nat
      BY <1>1, <1>7, <1>8
    <3>2. PICK p : p = <<o, c[1].at>>
      OBVIOUS
    <3>3. one = {p} /\ p[2] \in Nat
      BY <1>5, <3>1, <3>2
    <3> QED
      BY <3>3 DEF HasFirst
  <2>2. HasFirst(all)
    BY <1>7, <1>8 DEF HasFirst
  <2> QED
    BY <2>1, <2>2
<1>10. \A p \in given, q \in one \cup all : Options!Before(p, q)
  <2>1. SUFFICES ASSUME NEW p \in given, NEW q \in one \cup all PROVE Options!Before(p, q)
    OBVIOUS
  <2>2. q[1] = o /\ c[1].at <= q[2] /\ q[2] \in Nat /\ c[1].at \in Nat
    BY <1>1, <1>2, <1>5, <1>7, <1>8
  <2>3. p[1] \in Nat /\ p[2] \in Nat
    BY <1>1 DEF Places
  <2>4. p[1] < o \/ (p[1] = o /\ p[2] < c[1].at)
    BY DEF Scanned, Cursor, Options!Before
  <2> QED
    BY <2>2, <2>3, <2>4 DEF Options!Before
<1>11. Options!Parts(a) = {<<o, k>> : k \in 1..n}
  BY <1>2 DEF Options!Parts
<1>12. Passed(a, given \cup all)
  <2>1. SUFFICES ASSUME NEW k \in 1..n PROVE <<o, k>> \in given \cup all
    BY <1>11 DEF Passed
  <2>2. CASE k <= n - m
    <3>1. k \in 1..(n - m)
      BY <1>1, <1>2, <2>2
    <3> QED
      BY <3>1 DEF Scanned, InCluster
  <2>3. CASE ~(k <= n - m)
    <3>1. k \in Nat /\ m \in Nat /\ n \in Nat /\ k <= n
      BY <1>1, <1>2
    <3>2. k - (n - m) \in 1..m /\ (n - m) + (k - (n - m)) = k
      <4> HIDE DEF m, n
      <4> QED
        BY <2>3, <3>1
    <3> QED
      BY <1>4, <3>2
  <2> QED
    BY <2>2, <2>3
<1>13. m = 1 => all = one
  BY <1>4, <1>5, <1>7
<1> QED
  BY <1>1, <1>3, <1>5, <1>6, <1>9, <1>10, <1>12, <1>13 DEF Ahead, AreLeft

\* One letter of a cluster has been given out, and there are more.
LEMMA LetterTaken ==
    ASSUME NEW args, NEW s, NEW given, Scanned(args, s, given), s.nextchar # <<>>,
           Len(s.nextchar) # 1, NEW t, t = [s EXCEPT !.nextchar = Tail(@)],
           NEW parts, parts = {<<s.optind, s.nextchar[1].at>>}
    PROVE  Scanned(args, t, given \cup parts)
<1> DEFINE c == s.nextchar
           o == s.optind
           m == Len(s.nextchar)
           n == Len(args[s.optind].letters)
<1>1. /\ c \in Seq(Letter) /\ m \in Nat \ {0} /\ o \in Nat \ {0} /\ o <= Len(args)
      /\ c[1] \in Letter /\ parts \in SUBSET Places /\ \A p \in given : Options!Before(p, Cursor(s))
      /\ \A q \in parts : q[1] = o
  <2>1. PICK one, all : one = Options!PartsOfLetters(<<Head(s.nextchar)>>)
                          /\ all = Options!PartsOfLetters(s.nextchar)
    OBVIOUS
  <2>2. /\ c \in Seq(Letter) /\ m \in Nat \ {0} /\ o \in Nat \ {0} /\ o <= Len(args)
        /\ c[1] \in Letter /\ parts \in SUBSET Places /\ \A q \in parts : q[1] = o
    <3>1. AreLeft(args, s, given, one, all)
      BY <2>1, LettersLeft
    <3> QED
      BY <3>1 DEF AreLeft
  <2> QED
    BY <2>2 DEF Scanned
<1>2. /\ args \in Seq(Argument) /\ s \in Globals /\ s.first <= s.last
      /\ given \subseteq Places /\ s.last <= s.optind /\ Len(args) \in Nat
      /\ s.first \in Nat \ {0} /\ s.last \in Nat \ {0}
  BY LenProperties DEF Scanned, Kept, Globals
<1>3. /\ Tail(c) \in Seq(Letter) /\ Len(Tail(c)) = m - 1 /\ Tail(c) # <<>>
      /\ \A k \in 1..(m - 1) : Tail(c)[k] = c[k + 1]
  <2>1. Tail(c) \in Seq(Letter) /\ Len(Tail(c)) = m - 1
        /\ \A k \in 1..(m - 1) : Tail(c)[k] = c[k + 1]
    BY <1>1, HeadTailProperties
  <2>2. Tail(c) # <<>>
    <3>1. Len(<<>>) = 0 /\ m # 1
      BY EmptySeq
    <3>2. m - 1 # 0
      BY <1>1, <3>1
    <3> QED
      BY <2>1, <3>1, <3>2
  <2> QED
    BY <2>1, <2>2
<1>4. /\ t \in Globals /\ t.first = s.first /\ t.last = s.last /\ t.optind = o
      /\ t.nextchar = Tail(c)
  BY <1>2, <1>3 DEF Globals
<1>5. Kept(args, t) /\ given \cup parts \subseteq Places
  BY <1>1, <1>2, <1>4 DEF Kept
<1>6. InCluster(args, s, given)
  BY DEF Scanned
<1>7. m <= n /\ n \in Nat
  <2>1. args[o] \in Argument
    BY <1>1, <1>2, ElementOfSeq
  <2> QED
    BY <1>6, <2>1, LenProperties DEF InCluster, Argument
<1>8. \A k \in 1..m : c[k].id = o /\ c[k].at = n - m + k
  BY <1>6 DEF InCluster
<1>9. c[1].at = n - m + 1 /\ c[2].at = n - m + 2 /\ Tail(c)[1] = c[2] /\ m >= 2
  <2>1. m >= 2
    <3>1. m # 1
      OBVIOUS
    <3> HIDE DEF m
    <3> QED
      BY <1>1, <3>1
  <2>2. 1 \in 1..m /\ 2 \in 1..m /\ 1 \in 1..(m - 1) /\ 1 + 1 = 2
    BY <1>1, <2>1
  <2> QED
    BY <1>3, <1>8, <2>1, <2>2
<1>10. InCluster(args, t, given \cup parts)
  <2>1. \A k \in 1..(m - 1) : Tail(c)[k].id = o /\ Tail(c)[k].at = n - (m - 1) + k
    <3>1. SUFFICES ASSUME NEW k \in 1..(m - 1)
                   PROVE  Tail(c)[k].id = o /\ Tail(c)[k].at = n - (m - 1) + k
      OBVIOUS
    <3>2. k + 1 \in 1..m /\ n - m + (k + 1) = n - (m - 1) + k
      <4> HIDE DEF m, n
      <4> QED
        BY <1>1, <1>7, SMTT(30)
    <3> QED
      BY <1>3, <1>8, <3>2
  <2>2. \A k \in 1..(n - (m - 1)) : <<o, k>> \in given \cup parts
    <3>1. SUFFICES ASSUME NEW k \in 1..(n - (m - 1)) PROVE <<o, k>> \in given \cup parts
      OBVIOUS
    <3>2. k \in 1..(n - m) \/ k = n - m + 1
      <4> HIDE DEF m, n
      <4> QED
        BY <1>1, <1>7
    <3> QED
      BY <1>6, <1>9, <3>2 DEF InCluster
  <2>3. m - 1 <= n
    <3> HIDE DEF m, n
    <3> QED
      BY <1>1, <1>7
  <2> QED
    BY <1>3, <1>4, <1>6, <2>1, <2>2, <2>3, ZenonT(60) DEF InCluster
<1>11. PICK x, y : x = n - m + 1 /\ y = n - m + 2
  OBVIOUS
<1>12. \A p \in given \cup parts : Options!Before(p, Cursor(t))
  <2>1. Cursor(s) = <<o, x>> /\ Cursor(t) = <<o, y>> /\ parts = {<<o, x>>}
    BY <1>3, <1>4, <1>9, <1>11 DEF Cursor
  <2>2. x \in Int /\ y \in Int /\ x < y
    <3> HIDE DEF m, n
    <3> QED
      BY <1>1, <1>7, <1>11
  <2>3. \A p \in given : p[1] \in Nat /\ p[2] \in Nat
    BY <1>2 DEF Places
  <2> HIDE DEF o
  <2>4. ASSUME NEW p \in given PROVE Options!Before(p, Cursor(t))
    BY <1>1, <2>1, <2>2, <2>3 DEF Options!Before
  <2>5. Options!Before(<<o, x>>, Cursor(t))
    BY <2>1, <2>2 DEF Options!Before
  <2> QED
    BY <2>1, <2>4, <2>5
<1>13. \A k \in t.first..(t.last - 1) :
         args[k].id < t.optind /\ \A p \in given \cup parts : p[1] # args[k].id
  <2>1. SUFFICES ASSUME NEW k \in s.first..(s.last - 1)
                 PROVE  args[k].id < o /\ \A p \in given \cup parts : p[1] # args[k].id
    BY <1>4
  <2>2. k \in 1..Len(args)
    BY <1>1, <1>2
  <2>3. args[k].id \in Nat
    <3>1. args[k] \in Argument
      BY <1>2, <2>2, ElementOfSeq
    <3> QED
      BY <3>1 DEF Argument
  <2>4. args[k].id < o /\ \A p \in given : p[1] # args[k].id
    BY DEF Scanned
  <2> QED
    BY <1>1, <2>3, <2>4
<1>14. /\ t.last <= t.optind /\ t.optind <= Len(args) + 1
       /\ \A k \in t.optind..Len(args) : args[k].id = k
       /\ \A j, k \in t.first..(t.last - 1) : j < k => args[j].id < args[k].id
       /\ \A k \in 1..(t.first - 1) : Passed(args[k], given \cup parts)
       /\ \A k \in t.last..(t.optind - 1) : Passed(args[k], given \cup parts)
  BY <1>4 DEF Scanned, Passed
<1> QED
  BY <1>5, <1>10, <1>12, <1>13, <1>14 DEF Scanned

\* An option has been found: the parts of it come after all that was given out.
FoundNext(given, found) ==
    /\ ~found.ended /\ found.parts \in SUBSET Places
    /\ Scanned(found.args, found.s, given \cup found.parts)
    /\ Ahead(given, found.parts)

\* So it is when it takes the next argument too.
LEMMA NextTaken ==
    ASSUME NEW args, NEW s, NEW given, NEW parts \in SUBSET Places,
           Scanned(args, s, given \cup parts), s.nextchar = <<>>, Ahead(given, parts),
           \A p \in parts : p[1] < s.optind
    PROVE  FoundNext(given, Options!WithNext(args, s, parts))
<1>1. CASE s.optind > Len(args)
  <2>1. PICK found : found = Options!WithNext(args, s, parts)
    OBVIOUS
  <2>2. found.args = args /\ found.s = s /\ found.ended = FALSE /\ found.parts = parts
    BY <1>1, <2>1 DEF Options!WithNext, Options!Found
  <2> QED
    BY <2>1, <2>2 DEF FoundNext
<1>2. CASE ~(s.optind > Len(args))
  <2>1. PICK found : found = Options!WithNext(args, s, parts)
    OBVIOUS
  <2>2. PICK more : more = Options!Parts(args[s.optind])
    OBVIOUS
  <2>3. PICK t : t = [s EXCEPT !.optind = @ + 1]
    OBVIOUS
  <2>4. found.args = args /\ found.s = t /\ found.ended = FALSE /\ found.parts = parts \cup more
    BY <1>2, <2>1, <2>2, <2>3 DEF Options!WithNext, Options!Found
  <2>5. /\ args \in Seq(Argument) /\ Len(args) \in Nat /\ s.optind \in Nat \ {0} /\ s \in Globals
        /\ s.optind <= Len(args) /\ given \in SUBSET Places
        /\ \A k \in s.optind..Len(args) : args[k].id = k
    BY <1>2, LenProperties DEF Scanned, Kept, Globals
  <2>6. args[s.optind] \in Argument /\ args[s.optind].id = s.optind
    BY <2>5, ElementOfSeq
  <2>7. more \in SUBSET Places /\ HasFirst(more) /\ \A p \in more : p[1] = s.optind
    BY <2>2, <2>6, PartsOf
  <2>8. t = [s EXCEPT !.optind = @ + 1, !.nextchar = <<>>]
    BY <2>3, <2>5 DEF Globals
  <2>9. Passed(args[s.optind], (given \cup parts) \cup more)
    BY <2>2 DEF Passed
  <2>10. Scanned(args, t, (given \cup parts) \cup more)
    BY <2>5, <2>7, <2>8, <2>9, ArgumentTaken
  <2>11. (given \cup parts) \cup more = given \cup found.parts
    BY <2>4
  <2>12. \A p \in Places : p[1] \in Nat /\ p[2] \in Nat
    BY DEF Places
  <2>13. HasFirst(parts \cup more)
    <3>1. PICK p \in parts : \A q \in parts : p[1] < q[1] \/ (p[1] = q[1] /\ p[2] <= q[2])
      BY DEF Ahead, HasFirst
    <3>2. \A q \in more : p[1] < q[1]
      BY <2>7
    <3> QED
      BY <3>1, <3>2 DEF HasFirst
  <2>14. ASSUME NEW p \in given, NEW q \in more PROVE Options!Before(p, q)
    <3>1. Cursor(s) = <<s.optind, 0>>
      BY DEF Cursor
    <3>2. Options!Before(p, Cursor(s))
      BY DEF Scanned
    <3> QED
      BY <2>5, <2>7, <2>12, <3>1, <3>2 DEF Options!Before
  <2>15. Ahead(given, parts \cup more)
    BY <2>13, <2>14 DEF Ahead
  <2> QED
    BY <2>1, <2>4, <2>7, <2>10, <2>11, <2>15 DEF FoundNext
<1> QED
  BY <1>1, <1>2

\* The next letter of a cluster is found.
LEMMA ShortOptionFound ==
    ASSUME NEW args, NEW s, NEW given, Scanned(args, s, given), s.nextchar # <<>>
    PROVE  FoundNext(given, Options!ShortOption(args, s))
<1>1. PICK one, all, found, c :
        /\ one = Options!PartsOfLetters(<<Head(s.nextchar)>>) /\ c = s.nextchar
        /\ all = Options!PartsOfLetters(s.nextchar) /\ found = Options!ShortOption(args, s)
  OBVIOUS
<1>2. PICK behind, middle, whole :
        /\ behind = [s EXCEPT !.optind = @ + 1, !.nextchar = <<>>]
        /\ middle = [s EXCEPT !.nextchar = Tail(@)]
        /\ whole = [s EXCEPT !.nextchar = <<>>, !.optind = @ + 1]
  OBVIOUS
<1>3. /\ c \in Seq(Letter) /\ Len(c) \in Nat \ {0}
      /\ s.optind \in Nat \ {0} /\ s.optind <= Len(args)
      /\ one = {<<s.optind, c[1].at>>}
      /\ one \in SUBSET Places /\ all \in SUBSET Places
      /\ \A p \in one \cup all : p[1] = s.optind
      /\ Ahead(given, one) /\ Ahead(given, all)
      /\ Passed(args[s.optind], given \cup all)
      /\ Len(c) = 1 => Passed(args[s.optind], given \cup one)
  <2>1. AreLeft(args, s, given, one, all)
    BY <1>1, LettersLeft
  <2> QED
    BY <1>1, <2>1 DEF AreLeft
<1>4. s \in Globals
  BY DEF Scanned, Kept
<1>5. Len(c) = 1 => Scanned(args, behind, given \cup one)
  BY <1>2, <1>3, ArgumentTaken
<1>6. Scanned(args, whole, given \cup all)
  <2>1. whole = [s EXCEPT !.optind = @ + 1, !.nextchar = <<>>]
    BY <1>2, <1>4 DEF Globals
  <2> QED
    BY <1>3, <2>1, ArgumentTaken
<1>7. Len(c) # 1 => Scanned(args, middle, given \cup one)
  BY <1>1, <1>2, <1>3, LetterTaken
<1>8. CASE Head(c).letter = "f" /\ Len(c) # 1
  <2>1. found.args = args /\ found.s = whole /\ found.ended = FALSE /\ found.parts = all
    BY <1>1, <1>2, <1>8 DEF Options!ShortOption, Options!Found
  <2> QED
    BY <1>1, <1>3, <1>6, <2>1 DEF FoundNext
<1>9. CASE Head(c).letter # "f" /\ Len(c) # 1
  <2>1. [s EXCEPT !.nextchar = Tail(@), !.optind = @] = middle
    BY <1>2, <1>4 DEF Globals
  <2>2. found.args = args /\ found.s = middle /\ found.ended = FALSE /\ found.parts = one
    BY <1>1, <1>9, <2>1 DEF Options!ShortOption, Options!Found
  <2> QED
    BY <1>1, <1>3, <1>7, <1>9, <2>2 DEF FoundNext
<1>10. CASE Len(c) = 1
  <2>1. Tail(c) = <<>>
    <3>1. c # <<>>
      BY <1>1
    <3>2. Tail(c) \in Seq(Letter) /\ Len(Tail(c)) = 0
      BY <1>3, <1>10, <3>1, HeadTailProperties
    <3> QED
      BY <3>2, EmptySeq
  <2>2. [s EXCEPT !.nextchar = Tail(@), !.optind = @ + 1] = behind
    BY <1>1, <1>2, <1>4, <2>1 DEF Globals
  <2>3. CASE Head(c).letter # "f"
    <3>1. found.args = args /\ found.s = behind /\ found.ended = FALSE /\ found.parts = one
      BY <1>1, <1>10, <2>2, <2>3 DEF Options!ShortOption, Options!Found
    <3> QED
      BY <1>1, <1>3, <1>5, <1>10, <3>1 DEF FoundNext
  <2>4. CASE Head(c).letter = "f"
    <3>1. found = Options!WithNext(args, behind, one)
      BY <1>1, <1>10, <2>2, <2>4 DEF Options!ShortOption
    <3>2. behind.nextchar = <<>> /\ behind.optind = s.optind + 1
      BY <1>2, <1>4 DEF Globals
    <3>3. \A p \in one : p[1] < behind.optind
      BY <1>3, <3>2
    <3> QED
      BY <1>1, <1>3, <1>5, <1>10, <3>1, <3>2, <3>3, NextTaken
  <2> QED
    BY <2>3, <2>4
<1> QED
  BY <1>8, <1>9, <1>10

\* The letters of a cluster are what is left of it when none has been found.
LEMMA LettersOf ==
    ASSUME NEW a \in Argument
    PROVE  /\ Options!Letters(a) \in Seq(Letter) /\ Len(Options!Letters(a)) = Len(a.letters)
           /\ Len(a.letters) \in Nat
           /\ \A k \in 1..Len(a.letters) :
                Options!Letters(a)[k].id = a.id /\ Options!Letters(a)[k].at = k
           /\ a.kind = "cluster" => Options!Letters(a) # <<>>
<1> DEFINE n == Len(a.letters)
<1>1. a.id \in Nat \ {0} /\ a.letters \in Seq(STRING) /\ n \in Nat /\ DOMAIN a.letters = 1..n
  BY LenProperties DEF Argument
<1>2. \A k \in 1..n : a.letters[k] \in STRING
  BY <1>1, ElementOfSeq
<1>3. Options!Letters(a) = [k \in 1..n |-> [id |-> a.id, at |-> k, letter |-> a.letters[k]]]
  BY <1>1 DEF Options!Letters
<1>4. Options!Letters(a) \in [1..n -> Letter]
  BY <1>1, <1>2, <1>3 DEF Letter
<1>5. Options!Letters(a) \in Seq(Letter)
  <2> HIDE DEF n
  <2> QED
    BY <1>1, <1>4, SeqDef
<1>6. Len(Options!Letters(a)) = n
  <2>1. DOMAIN Options!Letters(a) = 1..Len(Options!Letters(a)) /\ Len(Options!Letters(a)) \in Nat
    BY <1>5, LenProperties
  <2>2. DOMAIN Options!Letters(a) = 1..n
    BY <1>4
  <2>3. PICK x : x = Len(Options!Letters(a))
    OBVIOUS
  <2>4. x \in Nat /\ 1..x = 1..n
    BY <2>1, <2>2, <2>3
  <2> HIDE DEF n
  <2>5. n <= x
    <3>1. n # 0 => n \in 1..n
      BY <1>1
    <3>2. n # 0 => n \in 1..x
      BY <2>4, <3>1
    <3> QED
      BY <1>1, <2>4, <3>2
  <2>6. x <= n
    <3>1. x # 0 => x \in 1..x
      BY <2>4
    <3>2. x # 0 => x \in 1..n
      BY <2>4, <3>1
    <3> QED
      BY <1>1, <2>4, <3>2
  <2> QED
    BY <1>1, <2>3, <2>4, <2>5, <2>6
<1>7. a.kind = "cluster" => Options!Letters(a) # <<>>
  <2>1. a.kind = "cluster" => n # 0
    BY <1>1, EmptySeq DEF Argument
  <2> QED
    BY <1>6, <2>1, EmptySeq
<1> QED
  BY <1>1, <1>3, <1>5, <1>6, <1>7

\* The option that it has gone on to is found.
LEMMA OptionFound ==
    ASSUME NEW args, NEW s, NEW given, Scanned(args, s, given), s.nextchar = <<>>,
           s.optind <= Len(args)
    PROVE  FoundNext(given, Options!Option(args, s, args[s.optind]))
<1> DEFINE a == args[s.optind]
           o == s.optind
<1>1. PICK found : found = Options!Option(args, s, a)
  OBVIOUS
<1>2. /\ args \in Seq(Argument) /\ Len(args) \in Nat /\ o \in Nat \ {0} /\ s \in Globals
      /\ o \in 1..Len(args) /\ given \in SUBSET Places
      /\ \A k \in o..Len(args) : args[k].id = k
      /\ \A p \in given : Options!Before(p, Cursor(s))
  BY LenProperties DEF Scanned, Kept, Globals
<1>3. a \in Argument /\ a.id = o
  BY <1>2, ElementOfSeq
<1>4. Options!Parts(a) \in SUBSET Places /\ HasFirst(Options!Parts(a))
      /\ \A p \in Options!Parts(a) : p[1] = o
  BY <1>3, PartsOf
<1>5. Cursor(s) = <<o, 0>>
  BY DEF Cursor
<1>6. Ahead(given, Options!Parts(a))
  <2>1. ASSUME NEW p \in given, NEW q \in Options!Parts(a) PROVE Options!Before(p, q)
    <3>1. p[1] \in Nat /\ p[2] \in Nat
      BY <1>2 DEF Places
    <3> QED
      BY <1>2, <1>4, <1>5, <3>1 DEF Options!Before
  <2> QED
    BY <1>4, <2>1 DEF Ahead
<1>7. PICK t : t = [s EXCEPT !.optind = @ + 1]
  OBVIOUS
<1>8. t = [s EXCEPT !.optind = @ + 1, !.nextchar = <<>>] /\ t.nextchar = <<>>
      /\ t.optind = o + 1
  BY <1>2, <1>7 DEF Globals
<1>9. Scanned(args, t, given \cup Options!Parts(a))
  BY <1>2, <1>4, <1>8, ArgumentTaken DEF Passed
<1>10. CASE a.kind = "cluster"
  <2>1. PICK c, r : c = Options!Letters(a) /\ r = [s EXCEPT !.nextchar = c]
    OBVIOUS
  <2>2. /\ c \in Seq(Letter) /\ Len(c) = Len(a.letters) /\ Len(a.letters) \in Nat
        /\ c # <<>> /\ \A k \in 1..Len(a.letters) : c[k].id = o /\ c[k].at = k
    BY <1>3, <1>10, <2>1, LettersOf
  <2>3. r \in Globals /\ r.first = s.first /\ r.last = s.last /\ r.optind = o /\ r.nextchar = c
    BY <1>2, <2>1, <2>2 DEF Globals
  <2>4. InCluster(args, r, given)
    <3>1. \A k \in 1..Len(c) : c[k].id = o /\ c[k].at = Len(a.letters) - Len(c) + k
      <4>1. Len(c) - Len(c) = 0 /\ \A k \in 1..Len(c) : 0 + k = k
        BY <2>2
      <4> QED
        BY <2>2, <4>1
    <3>2. \A k \in 1..(Len(a.letters) - Len(c)) : <<o, k>> \in given
      BY <2>2
    <3> QED
      <4>1. r.optind <= Len(args) /\ args[r.optind].kind = "cluster"
            /\ Len(r.nextchar) <= Len(args[r.optind].letters)
        BY <1>2, <1>10, <2>2, <2>3
      <4> QED
        BY <2>3, <3>1, <3>2, <4>1 DEF InCluster
  <2>5. \A p \in given : Options!Before(p, Cursor(r))
    <3>1. Cursor(r) = <<o, 1>>
      <4>1. 1 \in 1..Len(a.letters)
        BY <2>2, EmptySeq
      <4> QED
        BY <2>2, <2>3, <4>1 DEF Cursor
    <3>2. \A p \in given : p[1] \in Nat /\ p[2] \in Nat
      BY <1>2 DEF Places
    <3> QED
      BY <1>2, <1>5, <3>1, <3>2 DEF Options!Before
  <2>6. Scanned(args, r, given)
    <3>1. Kept(args, r)
      BY <2>3 DEF Scanned, Kept
    <3> QED
      BY <2>3, <2>4, <2>5, <3>1 DEF Scanned
  <2>7. found = Options!ShortOption(args, r)
    BY <1>1, <1>10, <2>1 DEF Options!Option
  <2> QED
    BY <1>1, <2>2, <2>3, <2>6, <2>7, ShortOptionFound
<1>11. CASE a.kind = "long arg"
  <2>1. found = Options!WithNext(args, t, Options!Parts(a))
    BY <1>1, <1>7, <1>11 DEF Options!Option
  <2>2. \A p \in Options!Parts(a) : p[1] < t.optind
    BY <1>2, <1>4, <1>8
  <2> QED
    BY <1>1, <1>4, <1>6, <1>8, <1>9, <2>1, <2>2, NextTaken
<1>12. CASE a.kind \notin {"cluster", "long arg"}
  <2>1. found = Options!Found(args, t, Options!Parts(a))
    BY <1>1, <1>7, <1>12 DEF Options!Option
  <2>2. found.args = args /\ found.s = t /\ found.ended = FALSE /\ found.parts = Options!Parts(a)
    BY <2>1 DEF Options!Found
  <2> QED
    BY <1>1, <1>4, <1>6, <1>9, <2>2 DEF FoundNext
<1> QED
  BY <1>10, <1>11, <1>12

\* The arguments set aside go behind the options found since.
LEMMA ScannedAside ==
    ASSUME NEW args, NEW s, NEW given, Scanned(args, s, given), s.nextchar = <<>>,
           NEW aside, IsAside(args, s, aside),
           NEW t, t = [aside.s EXCEPT !.last = s.optind]
    PROVE  Scanned(aside.args, t, given)
<1> DEFINE f == s.first
           l == s.last
           o == s.optind
           n == Len(args)
           moved == aside.args
<1>1. /\ args \in Seq(Argument) /\ s \in Globals /\ given \subseteq Places
      /\ n \in Nat /\ f \in Nat \ {0} /\ l \in Nat \ {0} /\ o \in Nat \ {0}
      /\ f <= l /\ l <= o /\ o <= n + 1
  BY LenProperties DEF Scanned, Kept, Globals
<1>2. /\ moved \in Seq(Argument) /\ Len(moved) = n /\ aside.s \in Globals
      /\ aside.s.optind = o /\ aside.s.nextchar = <<>> /\ aside.s.first = f + (o - l)
  BY DEF IsAside
<1>3. /\ \A k \in 1..n : k < f \/ k >= o => moved[k] = args[k]
      /\ \A k \in 1..n : k >= f /\ k < f + (o - l) => moved[k] = args[k + (l - f)]
      /\ \A k \in 1..n : k >= f + (o - l) /\ k < o => moved[k] = args[k - (o - l)]
  BY DEF IsAside
<1>4. /\ t \in Globals /\ t.first = f + (o - l) /\ t.last = o /\ t.optind = o
      /\ t.nextchar = <<>>
  BY <1>1, <1>2 DEF Globals
<1>5. Kept(moved, t)
  <2>1. f + (o - l) <= o
    <3> HIDE DEF f, l, o
    <3> QED
      BY <1>1
  <2> QED
    BY <1>2, <1>4, <2>1 DEF Kept
<1>6. \A k \in t.optind..Len(moved) : moved[k].id = k
  <2>1. SUFFICES ASSUME NEW k \in o..n PROVE moved[k].id = k
    BY <1>2, <1>4
  <2>2. k \in 1..n /\ k >= o
    BY <1>1
  <2>3. args[k].id = k
    BY DEF Scanned
  <2> QED
    BY <1>3, <2>2, <2>3
<1>7. \A k \in t.first..(t.last - 1) :
         k - (o - l) \in f..(l - 1) /\ moved[k] = args[k - (o - l)]
  <2>1. SUFFICES ASSUME NEW k \in (f + (o - l))..(o - 1)
                 PROVE  k - (o - l) \in f..(l - 1) /\ moved[k] = args[k - (o - l)]
    BY <1>4
  <2>2. k - (o - l) \in f..(l - 1) /\ k \in 1..n /\ k >= f + (o - l) /\ k < o
    <3> HIDE DEF f, l, o, n
    <3> QED
      BY <1>1
  <2> QED
    BY <1>3, <2>2
<1>8. \A k \in t.first..(t.last - 1) :
         moved[k].id < t.optind /\ \A p \in given : p[1] # moved[k].id
  <2>1. SUFFICES ASSUME NEW k \in t.first..(t.last - 1)
                 PROVE  moved[k].id < o /\ \A p \in given : p[1] # moved[k].id
    BY <1>4
  <2>2. k - (o - l) \in f..(l - 1) /\ moved[k] = args[k - (o - l)]
    BY <1>7
  <2> QED
    BY <2>2 DEF Scanned
<1>9. \A j, k \in t.first..(t.last - 1) : j < k => moved[j].id < moved[k].id
  <2>1. SUFFICES ASSUME NEW j \in t.first..(t.last - 1), NEW k \in t.first..(t.last - 1), j < k
                 PROVE  moved[j].id < moved[k].id
    OBVIOUS
  <2>2. /\ k - (o - l) \in f..(l - 1) /\ moved[k] = args[k - (o - l)]
        /\ j - (o - l) \in f..(l - 1) /\ moved[j] = args[j - (o - l)]
    BY <1>7
  <2>3. j - (o - l) < k - (o - l)
    <3>1. j \in Int /\ k \in Int
      BY <1>4
    <3> HIDE DEF o, l
    <3> QED
      BY <1>1, <2>1, <3>1
  <2> QED
    BY <2>2, <2>3 DEF Scanned
<1>10. \A k \in 1..(t.first - 1) : Passed(moved[k], given)
  <2>1. SUFFICES ASSUME NEW k \in 1..((f + (o - l)) - 1) PROVE Passed(moved[k], given)
    <3>1. t.first = f + (o - l)
      BY <1>4
    <3> HIDE DEF f, l, o
    <3> QED
      BY <3>1
  <2>2. CASE k < f
    <3>1. k \in 1..(f - 1) /\ k \in 1..n
      <4> HIDE DEF f, l, o, n
      <4> QED
        BY <1>1, <2>2
    <3>2. moved[k] = args[k]
      BY <1>3, <2>2, <3>1
    <3> QED
      BY <3>1, <3>2 DEF Scanned
  <2>3. CASE ~(k < f)
    <3>1. k + (l - f) \in l..(o - 1) /\ k \in 1..n /\ k >= f /\ k < f + (o - l)
      <4> HIDE DEF f, l, o, n
      <4> QED
        BY <1>1, <2>3
    <3>2. moved[k] = args[k + (l - f)]
      BY <1>3, <3>1
    <3> QED
      BY <3>1, <3>2 DEF Scanned
  <2> QED
    BY <2>2, <2>3
<1>11. \A k \in t.last..(t.optind - 1) : Passed(moved[k], given)
  BY <1>1, <1>4
<1>12. \A p \in given : Options!Before(p, Cursor(t))
  <2>1. Cursor(t) = Cursor(s)
    BY <1>4 DEF Cursor
  <2> QED
    BY <2>1 DEF Scanned
<1>13. t.last <= t.optind /\ t.optind <= Len(moved) + 1
  BY <1>1, <1>2, <1>4
<1> QED
  BY <1>1, <1>4, <1>5, <1>6, <1>8, <1>9, <1>10, <1>11, <1>12, <1>13 DEF Scanned

\* The plain arguments up to the next option are set aside with the others.
LEMMA PlainSkipped ==
    ASSUME NEW args, NEW s, NEW given, Scanned(args, s, given), s.nextchar = <<>>,
           s.last = s.optind, NEW next, IsNext(args, s.optind, next),
           NEW t, t = [s EXCEPT !.optind = next, !.last = next]
    PROVE  Scanned(args, t, given)
<1> DEFINE f == s.first
           o == s.optind
           n == Len(args)
<1>1. /\ args \in Seq(Argument) /\ s \in Globals /\ given \subseteq Places
      /\ n \in Nat /\ f \in Nat \ {0} /\ o \in Nat \ {0} /\ f <= o /\ o <= n + 1
  BY LenProperties DEF Scanned, Kept, Globals
<1>2. next \in o..(n + 1) /\ next \in Nat \ {0}
  BY <1>1 DEF IsNext
<1>3. /\ t \in Globals /\ t.first = f /\ t.last = next /\ t.optind = next
      /\ t.nextchar = <<>>
  BY <1>1, <1>2 DEF Globals
<1>4. Kept(args, t)
  BY <1>1, <1>2, <1>3 DEF Kept
<1>5. \A p \in given : p[1] \in Nat /\ p[1] < o
  <2>1. SUFFICES ASSUME NEW p \in given PROVE p[1] \in Nat /\ p[1] < o
    OBVIOUS
  <2>2. p[1] \in Nat /\ p[2] \in Nat
    BY <1>1 DEF Places
  <2>3. Cursor(s) = <<o, 0>>
    BY DEF Cursor
  <2>4. Options!Before(p, Cursor(s))
    BY DEF Scanned
  <2> QED
    BY <1>1, <2>2, <2>3, <2>4 DEF Options!Before
<1>6. \A k \in o..n : args[k].id = k
  BY DEF Scanned
<1>7. \A k \in f..(o - 1) : args[k].id < o /\ \A p \in given : p[1] # args[k].id
  BY DEF Scanned
<1>8. \A k \in f..(o - 1) : args[k].id \in Nat
  <2>1. SUFFICES ASSUME NEW k \in f..(o - 1) PROVE args[k].id \in Nat
    OBVIOUS
  <2>2. k \in 1..n
    BY <1>1
  <2>3. args[k] \in Argument
    BY <1>1, <2>2, ElementOfSeq
  <2> QED
    BY <2>3 DEF Argument
<1>9. \A k \in f..(next - 1) :
         args[k].id \in Nat /\ args[k].id < next /\ \A p \in given : p[1] # args[k].id
  <2>1. SUFFICES ASSUME NEW k \in f..(next - 1)
                 PROVE  /\ args[k].id \in Nat /\ args[k].id < next
                        /\ \A p \in given : p[1] # args[k].id
    OBVIOUS
  <2>2. CASE k < o
    <3>1. k \in f..(o - 1)
      BY <1>1, <1>2, <2>2
    <3> QED
      BY <1>1, <1>2, <1>7, <1>8, <3>1
  <2>3. CASE ~(k < o)
    <3>1. k \in o..n
      BY <1>1, <1>2, <2>3
    <3>2. args[k].id = k /\ k \in Nat
      BY <1>1, <1>6, <3>1
    <3> QED
      BY <1>1, <1>2, <1>5, <2>3, <3>2
  <2> QED
    BY <2>2, <2>3
<1>10. \A j, k \in f..(next - 1) : j < k => args[j].id < args[k].id
  <2>1. SUFFICES ASSUME NEW j \in f..(next - 1), NEW k \in f..(next - 1), j < k
                 PROVE  args[j].id < args[k].id
    OBVIOUS
  <2>2. CASE k < o
    <3>1. k \in f..(o - 1) /\ j \in f..(o - 1)
      BY <1>1, <1>2, <2>1, <2>2
    <3>2. s.last = o
      OBVIOUS
    <3> QED
      BY <2>1, <3>1, <3>2 DEF Scanned
  <2>3. CASE ~(k < o)
    <3>1. k \in o..n
      BY <1>1, <1>2, <2>3
    <3>2. args[k].id = k /\ k \in Nat
      BY <1>1, <1>6, <3>1
    <3>3. CASE j < o
      <4>1. j \in f..(o - 1)
        BY <1>1, <1>2, <3>3
      <4> QED
        BY <1>1, <1>7, <1>8, <2>3, <3>2, <4>1
    <3>4. CASE ~(j < o)
      <4>1. j \in o..n
        BY <1>1, <1>2, <3>4
      <4> QED
        BY <1>6, <2>1, <3>2, <4>1
    <3> QED
      BY <3>3, <3>4
  <2> QED
    BY <2>2, <2>3
<1>11. \A p \in given : Options!Before(p, Cursor(t))
  BY <1>1, <1>2, <1>3, <1>5 DEF Options!Before, Cursor
<1>12. \A k \in t.optind..Len(args) : args[k].id = k
  BY <1>1, <1>2, <1>3, <1>6
<1>13. \A k \in t.last..(t.optind - 1) : Passed(args[k], given)
  BY <1>2, <1>3
<1>14. \A k \in 1..(t.first - 1) : Passed(args[k], given)
  BY <1>3 DEF Scanned
<1>15. t.last <= t.optind /\ t.optind <= Len(args) + 1
  BY <1>1, <1>2, <1>3
<1>16. \A k \in t.first..(t.last - 1) :
         args[k].id < t.optind /\ \A p \in given : p[1] # args[k].id
  BY <1>3, <1>9
<1>17. \A j, k \in t.first..(t.last - 1) : j < k => args[j].id < args[k].id
  BY <1>3, <1>10
<1> QED
  BY <1>1, <1>3, <1>4, <1>11, <1>12, <1>13, <1>14, <1>15, <1>16, <1>17 DEF Scanned

\* At the end, what is set aside is what is left.
LEMMA EndReached ==
    ASSUME NEW args, NEW s, NEW given, Scanned(args, s, given), s.last = s.optind,
           s.optind = Len(args) + 1,
           NEW t, t = [s EXCEPT !.optind = s.first]
    PROVE  Rest(args, t, given)
<1>1. /\ args \in Seq(Argument) /\ s \in Globals /\ given \subseteq Places
      /\ Len(args) \in Nat /\ s.first \in Nat \ {0} /\ s.first <= s.last
  BY LenProperties DEF Scanned, Kept, Globals
<1>2. t \in Globals /\ t.optind = s.first
  BY <1>1 DEF Globals
<1>3. s.last - 1 = Len(args)
  BY <1>1
<1>4. t.optind <= Len(args) + 1
  BY <1>1, <1>2
<1>5. \A j, k \in t.optind..Len(args) : j < k => args[j].id < args[k].id
  BY <1>2, <1>3 DEF Scanned
<1>6. \A k \in t.optind..Len(args), p \in given : p[1] # args[k].id
  BY <1>2, <1>3 DEF Scanned
<1>7. \A k \in 1..(t.optind - 1) : args[k].kind = "--" \/ Passed(args[k], given)
  BY <1>2 DEF Scanned
<1> QED
  BY <1>1, <1>2, <1>4, <1>5, <1>6, <1>7 DEF Rest

\* Behind the terminator everything is left; it goes before what was set aside.
LEMMA TerminatorReached ==
    ASSUME NEW args, NEW s, NEW given, Scanned(args, s, given), s.nextchar = <<>>,
           s.last = s.optind, s.optind <= Len(args), args[s.optind].kind = "--",
           NEW r, r = [s EXCEPT !.optind = @ + 1],
           NEW aside, IsAside(args, r, aside),
           NEW t, t \in Globals, t.optind = s.first + 1
    PROVE  Rest(aside.args, t, given)
<1> DEFINE f == s.first
           o == s.optind
           n == Len(args)
           moved == aside.args
<1>1. /\ args \in Seq(Argument) /\ s \in Globals /\ given \subseteq Places
      /\ n \in Nat /\ f \in Nat \ {0} /\ o \in Nat \ {0} /\ f <= o /\ o <= n
  BY LenProperties DEF Scanned, Kept, Globals
<1>2. r.first = f /\ r.last = o /\ r.optind = o + 1 /\ (o + 1) - o = 1
  BY <1>1 DEF Globals
<1>3. /\ moved \in Seq(Argument) /\ Len(moved) = n
      /\ \A k \in 1..n : k < f \/ k >= o + 1 => moved[k] = args[k]
      /\ \A k \in 1..n : k >= f /\ k < f + 1 => moved[k] = args[k + (o - f)]
      /\ \A k \in 1..n : k >= f + 1 /\ k < o + 1 => moved[k] = args[k - 1]
  BY <1>2 DEF IsAside
<1>4. \A k \in (f + 1)..o : k - 1 \in f..(o - 1) /\ moved[k] = args[k - 1]
  <2>1. SUFFICES ASSUME NEW k \in (f + 1)..o
                 PROVE  k - 1 \in f..(o - 1) /\ moved[k] = args[k - 1]
    OBVIOUS
  <2>2. k \in 1..n /\ k >= f + 1 /\ k < o + 1 /\ k - 1 \in f..(o - 1)
    <3> HIDE DEF f, o, n
    <3> QED
      BY <1>1
  <2> QED
    BY <1>3, <2>2
<1>5. \A k \in (o + 1)..n : moved[k] = args[k] /\ args[k].id = k
  <2>1. SUFFICES ASSUME NEW k \in (o + 1)..n PROVE moved[k] = args[k] /\ args[k].id = k
    OBVIOUS
  <2>2. k \in 1..n /\ k >= o + 1 /\ k \in o..n
    BY <1>1
  <2> QED
    BY <1>3, <2>2 DEF Scanned
<1>6. \A p \in given : p[1] \in Nat /\ p[1] < o
  <2>1. SUFFICES ASSUME NEW p \in given PROVE p[1] \in Nat /\ p[1] < o
    OBVIOUS
  <2>2. p[1] \in Nat /\ p[2] \in Nat
    BY <1>1 DEF Places
  <2>3. Cursor(s) = <<o, 0>>
    BY DEF Cursor
  <2>4. Options!Before(p, Cursor(s))
    BY DEF Scanned
  <2> QED
    BY <1>1, <2>2, <2>3, <2>4 DEF Options!Before
<1>7. /\ \A k \in f..(o - 1) : args[k].id < o /\ \A p \in given : p[1] # args[k].id
      /\ \A j, k \in f..(o - 1) : j < k => args[j].id < args[k].id
  BY DEF Scanned
<1>8. \A k \in (f + 1)..n, p \in given : p[1] # moved[k].id
  <2>1. SUFFICES ASSUME NEW k \in (f + 1)..n, NEW p \in given PROVE p[1] # moved[k].id
    OBVIOUS
  <2>2. CASE k <= o
    <3>1. k \in (f + 1)..o
      BY <1>1, <2>2
    <3> QED
      BY <1>4, <1>7, <3>1
  <2>3. CASE ~(k <= o)
    <3>1. k \in (o + 1)..n
      BY <1>1, <2>3
    <3> QED
      BY <1>1, <1>5, <1>6, <2>3, <3>1
  <2> QED
    BY <2>2, <2>3
<1>9. \A j, k \in (f + 1)..n : j < k => moved[j].id < moved[k].id
  <2>1. SUFFICES ASSUME NEW j \in (f + 1)..n, NEW k \in (f + 1)..n, j < k
                 PROVE  moved[j].id < moved[k].id
    OBVIOUS
  <2>2. CASE k <= o
    <3>1. k \in (f + 1)..o /\ j \in (f + 1)..o /\ j - 1 < k - 1
      BY <1>1, <2>1, <2>2
    <3>2. /\ k - 1 \in f..(o - 1) /\ moved[k] = args[k - 1]
          /\ j - 1 \in f..(o - 1) /\ moved[j] = args[j - 1]
      BY <1>4, <3>1
    <3> QED
      BY <1>7, <3>1, <3>2
  <2>3. CASE ~(k <= o)
    <3>1. k \in (o + 1)..n /\ k \in Nat
      BY <1>1, <2>3
    <3>2. moved[k].id = k
      BY <1>5, <3>1
    <3>3. CASE j <= o
      <4>1. j \in (f + 1)..o
        BY <1>1, <3>3
      <4>2. j - 1 \in f..(o - 1) /\ moved[j] = args[j - 1] /\ j - 1 \in 1..n
        BY <1>1, <1>4, <4>1, SMTT(30)
      <4>3. args[j - 1].id < o /\ args[j - 1] \in Argument
        BY <1>1, <1>7, <4>2, ElementOfSeq
      <4>4. args[j - 1].id \in Nat
        BY <4>3 DEF Argument
      <4> QED
        BY <1>1, <2>3, <3>1, <3>2, <4>2, <4>3, <4>4
    <3>4. CASE ~(j <= o)
      <4>1. j \in (o + 1)..n
        BY <1>1, <3>4
      <4> QED
        BY <1>5, <2>1, <3>2, <4>1
    <3> QED
      BY <3>3, <3>4
  <2> QED
    BY <2>2, <2>3
<1>10. \A k \in 1..f : moved[k].kind = "--" \/ Passed(moved[k], given)
  <2>1. SUFFICES ASSUME NEW k \in 1..f PROVE moved[k].kind = "--" \/ Passed(moved[k], given)
    OBVIOUS
  <2>2. CASE k = f
    <3>1. f \in 1..n /\ f >= f /\ f < f + 1 /\ f + (o - f) = o
      BY <1>1
    <3> QED
      BY <1>3, <2>2, <3>1
  <2>3. CASE k # f
    <3>1. k \in 1..n /\ k < f /\ k \in 1..(f - 1)
      BY <1>1, <2>3
    <3> QED
      BY <1>3, <3>1 DEF Scanned
  <2> QED
    BY <2>2, <2>3
<1>11. t.optind = f + 1 /\ (f + 1) - 1 = f /\ f + 1 <= n + 1
  BY <1>1
<1> QED
  BY <1>1, <1>3, <1>8, <1>9, <1>10, <1>11 DEF Rest

\* What getopt_long finds, an option or the end of them.
GoesOn(given, found) ==
    IF found.ended THEN Rest(found.args, found.s, given) ELSE FoundNext(given, found)

\* At the end, or before an option.
LEMMA OptionOrEndFound ==
    ASSUME NEW given, NEW at, at = [args |-> at.args, s |-> at.s], at.s \in Globals,
           \/ /\ Scanned(at.args, at.s, given) /\ at.s.nextchar = <<>>
              /\ at.s.last = at.s.optind
           \/ /\ at.s.optind > Len(at.args) /\ at.s.last = at.s.optind
              /\ \A t \in Globals : t.optind = at.s.first => Rest(at.args, t, given)
    PROVE  GoesOn(given, Options!OptionOrEnd(at))
<1>1. CASE at.s.optind <= Len(at.args) /\ Len(at.args) \in Nat /\ at.s.optind \in Nat
  <2>1. Scanned(at.args, at.s, given) /\ at.s.nextchar = <<>>
    BY <1>1
  <2>2. FoundNext(given, Options!Option(at.args, at.s, at.args[at.s.optind]))
    BY <1>1, <2>1, OptionFound
  <2>3. Options!OptionOrEnd(at) = Options!Option(at.args, at.s, at.args[at.s.optind])
    BY <1>1 DEF Options!OptionOrEnd
  <2>4. PICK found : found = Options!OptionOrEnd(at)
    OBVIOUS
  <2> QED
    BY <2>2, <2>3, <2>4 DEF GoesOn, FoundNext
<1>2. CASE ~(at.s.optind <= Len(at.args))
  <2>1. PICK found, t : /\ found = Options!OptionOrEnd(at)
                        /\ t = [at.s EXCEPT !.optind = at.s.first]
    OBVIOUS
  <2>2. t \in Globals /\ t.optind = at.s.first
    BY <2>1 DEF Globals
  <2>3. at.s.first = at.s.last => at.s = t
    BY <2>1 DEF Globals
  <2>4. found.ended = TRUE /\ found.args = at.args /\ found.s = t
    BY <1>2, <2>1, <2>3 DEF Options!OptionOrEnd
  <2>5. Rest(at.args, t, given)
    <3>1. CASE Scanned(at.args, at.s, given)
      <4>1. at.s.optind = Len(at.args) + 1
        BY <1>2, <3>1, LenProperties DEF Scanned, Kept, Globals
      <4> QED
        BY <2>1, <3>1, <4>1, EndReached
    <3> QED
      BY <2>2, <3>1
  <2> QED
    BY <2>1, <2>4, <2>5 DEF GoesOn
<1>3. (Len(at.args) \in Nat /\ at.s.optind \in Nat) \/ ~(at.s.optind <= Len(at.args))
  <2>1. CASE Scanned(at.args, at.s, given)
    BY <2>1, LenProperties DEF Scanned, Kept, Globals
  <2>2. CASE /\ at.s.optind > Len(at.args)
             /\ \A t \in Globals : t.optind = at.s.first => Rest(at.args, t, given)
    <3>1. PICK t : t = [at.s EXCEPT !.optind = at.s.first]
      OBVIOUS
    <3>2. t \in Globals /\ t.optind = at.s.first
      BY <3>1 DEF Globals
    <3>3. at.args \in Seq(Argument)
      BY <2>2, <3>2 DEF Rest
    <3> QED
      BY <3>3, LenProperties DEF Globals
  <2> QED
    BY <2>1, <2>2
<1> QED
  BY <1>1, <1>2, <1>3

\* Between two arguments, the next call goes on.
LEMMA GoesOnWithNext ==
    ASSUME NEW args, NEW s, NEW given, Scanned(args, s, given), s.nextchar = <<>>
    PROVE  GoesOn(given, Options!OptionOrEnd(Options!Advanced(Options!SetAside(args, s))))
<1>1. PICK aside, at : /\ aside = Options!SetAside(args, s) /\ at = Options!Advanced(aside)
  OBVIOUS
<1>2. /\ args \in Seq(Argument) /\ s \in Globals /\ Len(args) \in Nat
      /\ s.first <= s.last /\ s.last <= s.optind /\ s.optind <= Len(args) + 1
      /\ s.optind \in Nat \ {0}
  BY LenProperties DEF Scanned, Kept, Globals
<1>3. IsAside(args, s, aside)
  BY <1>1, <1>2, SetsAside
<1>4. /\ aside = [args |-> aside.args, s |-> aside.s] /\ aside.args \in Seq(Argument)
      /\ Len(aside.args) = Len(args) /\ aside.s \in Globals /\ aside.s.optind = s.optind
      /\ aside.s.nextchar = <<>>
  BY <1>3 DEF IsAside
<1>5. PICK t, next : /\ t = [aside.s EXCEPT !.last = s.optind]
                     /\ next = Options!NextElement(aside.args, s.optind)
  OBVIOUS
<1>6. Scanned(aside.args, t, given)
  BY <1>3, <1>5, ScannedAside
<1>7. t.optind = s.optind /\ t.last = s.optind /\ t.nextchar = <<>> /\ t \in Globals
  BY <1>2, <1>4, <1>5 DEF Globals
<1>8. IsNext(aside.args, s.optind, next)
  BY <1>2, <1>4, <1>5, FindsNext
<1>9. next \in Nat \ {0} /\ next <= Len(aside.args) + 1
  BY <1>2, <1>4, <1>8 DEF IsNext
<1>10. PICK u : u = [t EXCEPT !.optind = next, !.last = next]
  OBVIOUS
<1>11. Scanned(aside.args, u, given)
  BY <1>6, <1>7, <1>8, <1>10, PlainSkipped
<1>12. /\ u \in Globals /\ u.optind = next /\ u.last = next /\ u.nextchar = <<>>
       /\ u = [aside.s EXCEPT !.optind = next, !.last = next]
  BY <1>4, <1>5, <1>7, <1>9, <1>10, ZenonT(60) DEF Globals
<1>13. CASE next > Len(aside.args) \/ aside.args[next].kind # "--"
  <2>1. at = [aside EXCEPT !.s.optind = next, !.s.last = next]
    BY <1>1, <1>4, <1>5, <1>13 DEF Options!Advanced
  <2>2. at = [args |-> aside.args, s |-> u]
    BY <1>4, <1>12, <2>1
  <2>3. at.args = aside.args /\ at.s = u
    BY <2>2
  <2> QED
    BY <1>1, <1>11, <1>12, <2>2, <2>3, OptionOrEndFound
<1>14. CASE ~(next > Len(aside.args) \/ aside.args[next].kind # "--")
  <2>1. PICK r, done : /\ r = [aside.s EXCEPT !.optind = next + 1, !.last = next]
                       /\ done = Options!SetAside(aside.args, r)
    OBVIOUS
  <2>2. r = [u EXCEPT !.optind = @ + 1]
    BY <1>4, <1>12, <2>1 DEF Globals
  <2>3. /\ r \in Globals /\ r.first = u.first /\ r.last = next /\ r.optind = next + 1
        /\ r.nextchar = <<>>
    <3>1. next + 1 \in Nat \ {0}
      BY <1>9
    <3> QED
      BY <1>12, <2>2, <3>1 DEF Globals
  <2>4. u.first <= next /\ next <= Len(aside.args) /\ u.first \in Nat \ {0}
    BY <1>2, <1>4, <1>9, <1>11, <1>12, <1>14, SMTT(30) DEF Scanned, Kept, Globals
  <2>5. IsAside(aside.args, r, done)
    <3>1. r.first <= r.last /\ r.last <= r.optind /\ r.optind <= Len(aside.args) + 1
      BY <1>2, <1>4, <1>9, <2>3, <2>4
    <3> QED
      BY <1>4, <2>1, <2>3, <3>1, SetsAside
  <2>6. \A v \in Globals : v.optind = u.first + 1 => Rest(done.args, v, given)
    <3>1. u.optind <= Len(aside.args) /\ aside.args[u.optind].kind = "--" /\ u.last = u.optind
      BY <1>12, <1>14, <2>4
    <3> QED
      BY <1>11, <1>12, <2>2, <2>5, <3>1, TerminatorReached
  <2>7. at = Options!Terminator(aside.args, r)
    BY <1>1, <1>4, <1>5, <1>14, <2>1 DEF Options!Advanced
  <2>8. PICK end : end = Len(aside.args) + 1
    OBVIOUS
  <2>9. end \in Nat \ {0} /\ Len(done.args) = Len(aside.args)
    BY <1>2, <1>4, <2>5, <2>8 DEF IsAside
  <2>10. /\ at = [args |-> at.args, s |-> at.s] /\ at.args = done.args /\ at.s \in Globals
         /\ at.s.optind = end /\ at.s.last = end /\ at.s.first = u.first + 1
    <3>1. CASE r.first # r.last
      <4>1. at = [done EXCEPT !.s.last = Len(done.args) + 1, !.s.optind = Len(done.args) + 1]
        BY <2>1, <2>7, <3>1 DEF Options!Terminator, Options!Terminated
      <4>2. done = [args |-> done.args, s |-> done.s] /\ done.s \in Globals
            /\ done.s.first = u.first + ((next + 1) - next)
        BY <2>3, <2>5 DEF IsAside
      <4>3. at = [args |-> done.args, s |-> [done.s EXCEPT !.last = end, !.optind = end]]
        BY <2>8, <2>9, <4>1, <4>2
      <4>4. u.first + ((next + 1) - next) = u.first + 1
        BY <1>9, <2>4
      <4>5. PICK v : v = [done.s EXCEPT !.last = end, !.optind = end]
        OBVIOUS
      <4>6. v \in Globals /\ v.optind = end /\ v.last = end /\ v.first = u.first + 1
        BY <2>9, <4>2, <4>4, <4>5 DEF Globals
      <4> QED
        BY <4>3, <4>5, <4>6
    <3>2. CASE r.first = r.last
      <4>1. PICK w : w = [r EXCEPT !.first = r.optind]
        OBVIOUS
      <4>2. w \in Globals /\ w.first = u.first + 1
        BY <2>3, <3>2, <4>1 DEF Globals
      <4>3. PICK v : v = [w EXCEPT !.last = end, !.optind = end]
        OBVIOUS
      <4>4. v \in Globals /\ v.optind = end /\ v.last = end /\ v.first = u.first + 1
        BY <2>9, <4>2, <4>3 DEF Globals
      <4>5. at = Options!Terminated([args |-> aside.args, s |-> w])
        BY <2>7, <3>2, <4>1 DEF Options!Terminator
      <4>6. at = [args |-> aside.args, s |-> v]
        BY <2>8, <4>3, <4>5 DEF Options!Terminated
      <4>7. done.args = aside.args
        BY <2>1, <3>2 DEF Options!SetAside
      <4> QED
        BY <4>4, <4>6, <4>7
    <3> QED
      BY <3>1, <3>2
  <2>11. at.s.optind > Len(at.args)
    BY <1>2, <1>4, <2>8, <2>9, <2>10
  <2>12. \A v \in Globals : v.optind = at.s.first => Rest(at.args, v, given)
    BY <2>6, <2>10
  <2> QED
    BY <1>1, <2>10, <2>11, <2>12, OptionOrEndFound
<1> QED
  BY <1>1, <1>13, <1>14

\* A call in a parse that began outside of a cluster.
LEMMA GetoptFinds ==
    ASSUME NEW args, NEW s, NEW given,
           Scanned(args, s, given) \/ (Begins(args, s) /\ given = {})
    PROVE  GoesOn(given, Options!GetoptLong(args, s))
<1>1. PICK u : u = [s EXCEPT !.first = Options!AtMost(@, s.optind),
                             !.last = Options!AtMost(@, s.optind)]
  OBVIOUS
<1>2. CASE s.nextchar # <<>>
  <2>1. Scanned(args, s, given)
    BY <1>2 DEF Begins
  <2>2. Options!GetoptLong(args, s) = Options!ShortOption(args, s)
    BY <1>2 DEF Options!GetoptLong
  <2>3. FoundNext(given, Options!ShortOption(args, s))
    BY <1>2, <2>1, ShortOptionFound
  <2>4. PICK found : found = Options!GetoptLong(args, s)
    OBVIOUS
  <2> QED
    BY <2>2, <2>3, <2>4 DEF GoesOn, FoundNext
<1>3. CASE s.nextchar = <<>>
  <2>1. Options!GetoptLong(args, s) =
          Options!OptionOrEnd(Options!Advanced(Options!SetAside(args, u)))
    BY <1>1, <1>3 DEF Options!GetoptLong
  <2>2. Scanned(args, u, given) /\ u.nextchar = <<>>
    <3>1. CASE Scanned(args, s, given)
      <4>1. s \in Globals /\ s.first <= s.last /\ s.last <= s.optind
            /\ s.first \in Nat /\ s.last \in Nat /\ s.optind \in Nat
        BY <3>1 DEF Scanned, Kept, Globals
      <4>2. Options!AtMost(s.first, s.optind) = s.first
            /\ Options!AtMost(s.last, s.optind) = s.last
        BY <4>1 DEF Options!AtMost
      <4>3. u = s
        BY <1>1, <4>1, <4>2 DEF Globals
      <4> QED
        BY <1>3, <3>1, <4>3
    <3>2. CASE Begins(args, s) /\ given = {}
      <4>1. /\ args \in Seq(Argument) /\ s \in Globals /\ s.optind = 1 /\ Len(args) \in Nat
            /\ DOMAIN args = 1..Len(args)
        BY <3>2, LenProperties DEF Begins
      <4>2. Options!AtMost(s.first, s.optind) = 1 /\ Options!AtMost(s.last, s.optind) = 1
        BY <4>1 DEF Options!AtMost, Globals
      <4>3. /\ u \in Globals /\ u.first = 1 /\ u.last = 1 /\ u.optind = 1 /\ u.nextchar = <<>>
        BY <1>1, <1>3, <4>1, <4>2 DEF Globals
      <4>4. \A k \in 1..Len(args) : args[k].id = k
        BY <3>2, <4>1 DEF Begins
      <4> QED
        BY <3>2, <4>1, <4>3, <4>4 DEF Scanned, Kept
    <3> QED
      BY <3>1, <3>2
  <2> QED
    BY <2>1, <2>2, GoesOnWithNext
<1> QED
  BY <1>2, <1>3

\* What any call leaves, in any parse.
IsFound(found) ==
    /\ Kept(found.args, found.s) /\ found.parts \in SUBSET Places /\ found.ended \in BOOLEAN

\* The letters of nextchar have places.
LEMMA PlacesOfLetters ==
    ASSUME NEW c \in Seq(Letter)
    PROVE  Options!PartsOfLetters(c) \in SUBSET Places
<1>1. \A k \in DOMAIN c : c[k].id \in Nat /\ c[k].at \in Nat
  <2>1. SUFFICES ASSUME NEW k \in DOMAIN c PROVE c[k].id \in Nat /\ c[k].at \in Nat
    OBVIOUS
  <2>2. c[k] \in Letter
    BY LenProperties, ElementOfSeq
  <2> QED
    BY <2>2 DEF Letter
<1> QED
  BY <1>1 DEF Options!PartsOfLetters, Places

\* An option that takes the next argument leaves what others do.
LEMMA NextKept ==
    ASSUME NEW args, NEW s, NEW parts \in SUBSET Places, Kept(args, s)
    PROVE  IsFound(Options!WithNext(args, s, parts))
<1>1. PICK found : found = Options!WithNext(args, s, parts)
  OBVIOUS
<1>2. args \in Seq(Argument) /\ s \in Globals /\ Len(args) \in Nat /\ s.optind \in Nat \ {0}
  BY LenProperties DEF Kept, Globals
<1>3. FALSE \in BOOLEAN
  OBVIOUS
<1>4. CASE s.optind > Len(args)
  <2>1. found.args = args /\ found.s = s /\ found.ended = FALSE /\ found.parts = parts
    BY <1>1, <1>4 DEF Options!WithNext, Options!Found
  <2> QED
    BY <1>1, <1>3, <2>1 DEF IsFound
<1>5. CASE ~(s.optind > Len(args))
  <2>1. PICK t, more : t = [s EXCEPT !.optind = @ + 1] /\ more = Options!Parts(args[s.optind])
    OBVIOUS
  <2>2. found.args = args /\ found.s = t /\ found.ended = FALSE /\ found.parts = parts \cup more
    BY <1>1, <1>5, <2>1 DEF Options!WithNext, Options!Found
  <2>3. Kept(args, t)
    <3>1. s.optind + 1 \in Nat \ {0}
      BY <1>2
    <3>2. t \in Globals /\ t.first = s.first /\ t.last = s.last
      BY <1>2, <2>1, <3>1 DEF Globals
    <3> QED
      BY <3>2 DEF Kept
  <2>4. args[s.optind] \in Argument
    BY <1>2, <1>5, ElementOfSeq
  <2>5. more \in SUBSET Places
    BY <2>1, <2>4, PartsOf
  <2> QED
    BY <1>1, <1>3, <2>2, <2>3, <2>5 DEF IsFound
<1> QED
  BY <1>4, <1>5

\* So does a letter of a cluster.
LEMMA ShortOptionKept ==
    ASSUME NEW args, NEW s, Kept(args, s), s.nextchar # <<>>
    PROVE  IsFound(Options!ShortOption(args, s))
<1>1. PICK one, all, found, c :
        /\ one = Options!PartsOfLetters(<<Head(s.nextchar)>>) /\ c = s.nextchar
        /\ all = Options!PartsOfLetters(s.nextchar) /\ found = Options!ShortOption(args, s)
  OBVIOUS
<1>2. /\ s \in Globals /\ c \in Seq(Letter) /\ s.optind \in Nat \ {0}
      /\ s.optind + 1 \in Nat \ {0}
  BY <1>1 DEF Kept, Globals
<1>3. Head(c) \in Letter /\ Tail(c) \in Seq(Letter) /\ <<>> \in Seq(Letter)
  BY <1>1, <1>2, HeadTailProperties, EmptySeq
<1>4. one \in SUBSET Places /\ all \in SUBSET Places
  <2>1. <<Head(c)>> \in Seq(Letter)
    BY <1>3
  <2> QED
    BY <1>1, <1>2, <2>1, PlacesOfLetters
<1>5. PICK after, whole :
        /\ after = [s EXCEPT !.nextchar = Tail(@),
                             !.optind = IF Len(c) = 1 THEN @ + 1 ELSE @]
        /\ whole = [s EXCEPT !.nextchar = <<>>, !.optind = @ + 1]
  OBVIOUS
<1>6. PICK next : next = IF Len(c) = 1 THEN s.optind + 1 ELSE s.optind
  OBVIOUS
<1>7. next \in Nat \ {0}
  BY <1>2, <1>6
<1>8. after = [s EXCEPT !.nextchar = Tail(c), !.optind = next]
  BY <1>1, <1>2, <1>5, <1>6 DEF Globals
<1>9. Kept(args, after)
  <2>1. after \in Globals /\ after.first = s.first /\ after.last = s.last
    BY <1>2, <1>3, <1>7, <1>8 DEF Globals
  <2> QED
    BY <2>1 DEF Kept
<1>10. Kept(args, whole)
  <2>1. whole \in Globals /\ whole.first = s.first /\ whole.last = s.last
    BY <1>2, <1>3, <1>5 DEF Globals
  <2> QED
    BY <2>1 DEF Kept
<1>11. FALSE \in BOOLEAN
  OBVIOUS
<1>12. CASE Head(c).letter # "f"
  <2>1. found.args = args /\ found.s = after /\ found.ended = FALSE /\ found.parts = one
    BY <1>1, <1>5, <1>12 DEF Options!ShortOption, Options!Found
  <2> QED
    BY <1>1, <1>4, <1>9, <1>11, <2>1 DEF IsFound
<1>13. CASE Head(c).letter = "f" /\ Len(c) = 1
  <2>1. found = Options!WithNext(args, after, one)
    BY <1>1, <1>5, <1>13 DEF Options!ShortOption
  <2> QED
    BY <1>1, <1>4, <1>9, <2>1, NextKept
<1>14. CASE Head(c).letter = "f" /\ Len(c) # 1
  <2>1. found.args = args /\ found.s = whole /\ found.ended = FALSE /\ found.parts = all
    BY <1>1, <1>5, <1>14 DEF Options!ShortOption, Options!Found
  <2> QED
    BY <1>1, <1>4, <1>10, <1>11, <2>1 DEF IsFound
<1> QED
  BY <1>12, <1>13, <1>14

\* So does an option, or the end.
LEMMA OptionOrEndKept ==
    ASSUME NEW at, Kept(at.args, at.s)
    PROVE  IsFound(Options!OptionOrEnd(at))
<1> DEFINE args == at.args
           s == at.s
           a == args[s.optind]
<1>1. PICK found : found = Options!OptionOrEnd(at)
  OBVIOUS
<1>2. args \in Seq(Argument) /\ s \in Globals /\ Len(args) \in Nat /\ s.optind \in Nat \ {0}
      /\ s.first \in Nat \ {0} /\ s.optind + 1 \in Nat \ {0}
  BY LenProperties DEF Kept, Globals
<1>3. TRUE \in BOOLEAN /\ FALSE \in BOOLEAN /\ {} \in SUBSET Places
  OBVIOUS
<1>4. CASE ~(s.optind <= Len(args))
  <2>1. PICK t : t = IF s.first = s.last THEN s ELSE [s EXCEPT !.optind = s.first]
    OBVIOUS
  <2>2. found.ended = TRUE /\ found.args = args /\ found.s = t /\ found.parts = {}
    BY <1>1, <1>4, <2>1 DEF Options!OptionOrEnd
  <2>3. t \in Globals /\ t.first = s.first /\ t.last = s.last
    BY <1>2, <2>1 DEF Globals
  <2> QED
    BY <1>1, <1>3, <2>2, <2>3 DEF IsFound, Kept
<1>5. CASE s.optind <= Len(args)
  <2>1. a \in Argument
    BY <1>2, <1>5, ElementOfSeq
  <2>2. Options!Parts(a) \in SUBSET Places
    BY <2>1, PartsOf
  <2>3. found = Options!Option(args, s, a)
    BY <1>1, <1>5 DEF Options!OptionOrEnd
  <2>4. PICK t, r : /\ t = [s EXCEPT !.optind = @ + 1]
                    /\ r = [s EXCEPT !.nextchar = Options!Letters(a)]
    OBVIOUS
  <2>5. Kept(args, t)
    <3>1. t \in Globals /\ t.first = s.first /\ t.last = s.last
      BY <1>2, <2>4 DEF Globals
    <3> QED
      BY <3>1 DEF Kept
  <2>6. CASE a.kind = "cluster"
    <3>1. Options!Letters(a) \in Seq(Letter) /\ Options!Letters(a) # <<>>
      BY <2>1, <2>6, LettersOf
    <3>2. r \in Globals /\ r.first = s.first /\ r.last = s.last /\ r.nextchar # <<>>
      BY <1>2, <2>4, <3>1 DEF Globals
    <3>3. Kept(args, r)
      BY <3>2 DEF Kept
    <3>4. found = Options!ShortOption(args, r)
      BY <2>3, <2>4, <2>6 DEF Options!Option
    <3> QED
      BY <1>1, <3>2, <3>3, <3>4, ShortOptionKept
  <2>7. CASE a.kind = "long arg"
    <3>1. found = Options!WithNext(args, t, Options!Parts(a))
      BY <2>3, <2>4, <2>7 DEF Options!Option
    <3> QED
      BY <1>1, <2>2, <2>5, <3>1, NextKept
  <2>8. CASE a.kind \notin {"cluster", "long arg"}
    <3>1. found = Options!Found(args, t, Options!Parts(a))
      BY <2>3, <2>4, <2>8 DEF Options!Option
    <3>2. /\ found.args = args /\ found.s = t /\ found.ended = FALSE
          /\ found.parts = Options!Parts(a)
      BY <3>1 DEF Options!Found
    <3> QED
      BY <1>1, <1>3, <2>2, <2>5, <3>2 DEF IsFound
  <2> QED
    BY <2>6, <2>7, <2>8
<1> QED
  BY <1>4, <1>5

\* A call leaves its globals fit for the next, whatever it found them like.
LEMMA GetoptKept ==
    ASSUME NEW args, NEW s, Kept(args, s), s.nextchar # <<>> \/ s.optind <= Len(args) + 1
    PROVE  IsFound(Options!GetoptLong(args, s))
<1>1. PICK u, aside, at :
        /\ u = [s EXCEPT !.first = Options!AtMost(@, s.optind),
                         !.last = Options!AtMost(@, s.optind)]
        /\ aside = Options!SetAside(args, u) /\ at = Options!Advanced(aside)
  OBVIOUS
<1>2. CASE s.nextchar # <<>>
  <2>1. Options!GetoptLong(args, s) = Options!ShortOption(args, s)
    BY <1>2 DEF Options!GetoptLong
  <2> QED
    BY <1>2, <2>1, ShortOptionKept
<1>3. CASE s.nextchar = <<>>
  <2>1. Options!GetoptLong(args, s) = Options!OptionOrEnd(at)
    BY <1>1, <1>3 DEF Options!GetoptLong
  <2>2. /\ args \in Seq(Argument) /\ s \in Globals /\ Len(args) \in Nat /\ s.first <= s.last
        /\ s.first \in Nat \ {0} /\ s.last \in Nat \ {0} /\ s.optind \in Nat \ {0}
        /\ s.optind <= Len(args) + 1
    BY <1>3, LenProperties DEF Kept, Globals
  <2>3. PICK f, l, o : /\ f = Options!AtMost(s.first, s.optind)
                       /\ l = Options!AtMost(s.last, s.optind) /\ o = s.optind
    OBVIOUS
  <2>4. f \in Nat \ {0} /\ l \in Nat \ {0} /\ f <= l /\ l <= o /\ o \in Nat \ {0}
    BY <2>2, <2>3 DEF Options!AtMost
  <2>5. /\ u \in Globals /\ u.first = f /\ u.last = l /\ u.optind = o
    BY <1>1, <2>2, <2>3, <2>4 DEF Globals
  <2>6. IsAside(args, u, aside)
    BY <1>1, <2>2, <2>3, <2>4, <2>5, SetsAside
  <2>7. /\ aside = [args |-> aside.args, s |-> aside.s] /\ aside.args \in Seq(Argument)
        /\ Len(aside.args) = Len(args) /\ aside.s \in Globals /\ aside.s.optind = o
        /\ aside.s.first = f + (o - l)
    BY <2>5, <2>6 DEF IsAside
  <2>8. aside.s.first <= o /\ aside.s.first \in Nat \ {0}
    BY <2>4, <2>7
  <2>9. PICK next : next = Options!NextElement(aside.args, aside.s.optind)
    OBVIOUS
  <2>10. IsNext(aside.args, o, next)
    BY <2>2, <2>3, <2>4, <2>7, <2>9, FindsNext
  <2>11. next \in Nat \ {0} /\ o <= next /\ next <= Len(aside.args) + 1 /\ next + 1 \in Nat \ {0}
    BY <2>2, <2>4, <2>7, <2>10 DEF IsNext
  <2>12. Kept(at.args, at.s)
    <3>1. CASE next > Len(aside.args) \/ aside.args[next].kind # "--"
      <4>1. at = [aside EXCEPT !.s.optind = next, !.s.last = next]
        BY <1>1, <2>9, <3>1 DEF Options!Advanced
      <4>2. PICK v : v = [aside.s EXCEPT !.optind = next, !.last = next]
        OBVIOUS
      <4>3. at.args = aside.args /\ at.s = v
        BY <2>7, <4>1, <4>2
      <4>4. v \in Globals /\ v.first = aside.s.first /\ v.last = next
        BY <2>7, <2>11, <4>2 DEF Globals
      <4>5. v.first <= v.last
        BY <2>4, <2>8, <2>11, <4>4
      <4> QED
        BY <2>7, <4>3, <4>4, <4>5 DEF Kept
    <3>2. CASE ~(next > Len(aside.args) \/ aside.args[next].kind # "--")
      <4>1. PICK r, done, n : /\ r = [aside.s EXCEPT !.optind = next + 1, !.last = next]
                              /\ done = Options!SetAside(aside.args, r)
                              /\ n = Len(aside.args) + 1
        OBVIOUS
      <4>2. at = Options!Terminator(aside.args, r)
        BY <1>1, <2>9, <3>2, <4>1 DEF Options!Advanced
      <4>3. r \in Globals /\ r.first = aside.s.first /\ r.last = next /\ r.optind = next + 1
        BY <2>7, <2>11, <4>1 DEF Globals
      <4>4. /\ r.first <= r.last /\ r.last <= r.optind /\ r.optind <= Len(aside.args) + 1
            /\ n \in Nat \ {0} /\ next + 1 <= n
        BY <2>2, <2>4, <2>7, <2>8, <2>11, <3>2, <4>1, <4>3, SMTT(30)
      <4>5. IsAside(aside.args, r, done)
        BY <2>7, <4>1, <4>3, <4>4, SetsAside
      <4>6. CASE r.first # r.last
        <5>1. at = [done EXCEPT !.s.last = Len(done.args) + 1, !.s.optind = Len(done.args) + 1]
          BY <4>1, <4>2, <4>6 DEF Options!Terminator, Options!Terminated
        <5>2. /\ done = [args |-> done.args, s |-> done.s] /\ done.s \in Globals
              /\ done.args \in Seq(Argument) /\ Len(done.args) = Len(aside.args)
              /\ done.s.first = r.first + (r.optind - r.last)
          BY <4>5 DEF IsAside
        <5>3. PICK v : v = [done.s EXCEPT !.last = n, !.optind = n]
          OBVIOUS
        <5>4. at.args = done.args /\ at.s = v
          BY <4>1, <5>1, <5>2, <5>3
        <5>5. v \in Globals /\ v.first = done.s.first /\ v.last = n
          BY <4>4, <5>2, <5>3 DEF Globals
        <5>6. v.first <= v.last
          BY <2>4, <2>8, <2>11, <4>3, <4>4, <5>2, <5>5
        <5> QED
          BY <5>2, <5>4, <5>5, <5>6 DEF Kept
      <4>7. CASE r.first = r.last
        <5>1. PICK w, v : /\ w = [r EXCEPT !.first = r.optind]
                          /\ v = [w EXCEPT !.last = n, !.optind = n]
          OBVIOUS
        <5>2. w \in Globals /\ w.first = next + 1
          BY <2>11, <4>3, <5>1 DEF Globals
        <5>3. v \in Globals /\ v.first = next + 1 /\ v.last = n
          BY <4>4, <5>1, <5>2 DEF Globals
        <5>4. at = Options!Terminated([args |-> aside.args, s |-> w])
          BY <4>2, <4>7, <5>1 DEF Options!Terminator
        <5>5. at.args = aside.args /\ at.s = v
          BY <4>1, <5>1, <5>4 DEF Options!Terminated
        <5> QED
          BY <2>7, <4>4, <5>3, <5>5 DEF Kept
      <4> QED
        BY <4>6, <4>7
    <3> QED
      BY <3>1, <3>2
  <2> QED
    BY <2>1, <2>12, OptionOrEndKept
<1> QED
  BY <1>2, <1>3

\* The parts given out after one more delivery.
LEMMA GivenMore ==
    ASSUME NEW delivered \in Seq(Delivery), NEW x \in Delivery
    PROVE  /\ Append(delivered, x) \in Seq(Delivery)
           /\ GivenOut(Append(delivered, x)) = GivenOut(delivered) \cup x.parts
           /\ GivenOut(delivered) \in SUBSET Places
<1> DEFINE more == Append(delivered, x)
           n == Len(delivered)
<1>1. /\ more \in Seq(Delivery) /\ Len(more) = n + 1 /\ more[n + 1] = x
      /\ \A i \in 1..n : more[i] = delivered[i]
  BY AppendProperties
<1>2. n \in Nat /\ DOMAIN delivered = 1..n /\ DOMAIN more = 1..(n + 1)
      /\ \A i \in 1..n : delivered[i] \in Delivery
  BY <1>1, LenProperties, ElementOfSeq
<1> HIDE DEF more, n
<1>3. GivenOut(more) = GivenOut(delivered) \cup x.parts
  <2>1. ASSUME NEW p \in GivenOut(more) PROVE p \in GivenOut(delivered) \cup x.parts
    <3>1. PICK i \in 1..(n + 1) : p \in more[i].parts
      BY <1>2 DEF GivenOut
    <3>2. i \in 1..n \/ i = n + 1
      BY <1>2
    <3> QED
      BY <1>1, <1>2, <3>1, <3>2 DEF GivenOut
  <2>2. ASSUME NEW p \in GivenOut(delivered) PROVE p \in GivenOut(more)
    <3>1. PICK i \in 1..n : p \in delivered[i].parts
      BY <1>2 DEF GivenOut
    <3>2. i \in 1..(n + 1)
      BY <1>2
    <3> QED
      BY <1>1, <1>2, <3>1, <3>2 DEF GivenOut
  <2>3. ASSUME NEW p \in x.parts PROVE p \in GivenOut(more)
    <3>1. n + 1 \in 1..(n + 1)
      BY <1>2
    <3> QED
      BY <1>1, <1>2, <3>1 DEF GivenOut
  <2> QED
    BY <2>1, <2>2, <2>3
<1>4. GivenOut(delivered) \in SUBSET Places
  BY <1>2 DEF GivenOut, Delivery
<1> QED
  BY <1>1, <1>3, <1>4 DEF more

\* One more delivery, of parts that are new, behind those of its sort.
LEMMA InOrderMore ==
    ASSUME NEW delivered \in Seq(Delivery), NEW x \in Delivery, InOrder(delivered),
           HasFirst(x.parts), GivenOut(delivered) \cap x.parts = {},
           \A i \in DOMAIN delivered : delivered[i].isNonOption = x.isNonOption =>
             \A p \in delivered[i].parts, q \in x.parts : Options!Before(p, q)
    PROVE  InOrder(Append(delivered, x))
<1> DEFINE more == Append(delivered, x)
           n == Len(delivered)
<1>1. /\ more \in Seq(Delivery) /\ Len(more) = n + 1 /\ more[n + 1] = x
      /\ \A i \in 1..n : more[i] = delivered[i]
  BY AppendProperties
<1>2. n \in Nat /\ DOMAIN delivered = 1..n /\ DOMAIN more = 1..(n + 1)
  BY <1>1, LenProperties
<1> HIDE DEF more, n
<1>3. ASSUME NEW i \in 1..(n + 1) PROVE HasFirst(more[i].parts)
  <2>1. i \in 1..n \/ i = n + 1
    BY <1>2
  <2> QED
    BY <1>1, <1>2, <2>1 DEF InOrder
<1>4. ASSUME NEW i \in 1..(n + 1), NEW j \in 1..(n + 1), i < j
      PROVE  /\ more[i].parts \cap more[j].parts = {}
             /\ more[i].isNonOption = more[j].isNonOption =>
                  \A p \in more[i].parts, q \in more[j].parts : Options!Before(p, q)
  <2>1. i \in 1..n /\ (j \in 1..n \/ j = n + 1)
    BY <1>2, <1>4
  <2>2. CASE j \in 1..n
    BY <1>1, <1>2, <1>4, <2>1, <2>2 DEF InOrder
  <2>3. CASE j = n + 1
    <3>1. delivered[i].parts \subseteq GivenOut(delivered)
      BY <1>2, <2>1 DEF GivenOut
    <3> QED
      BY <1>1, <1>2, <2>1, <2>3, <3>1
  <2> QED
    BY <2>1, <2>2, <2>3
<1>5. InOrder(more)
  BY <1>2, <1>3, <1>4 DEF InOrder
<1> QED
  BY <1>5 DEF more

\* The arguments of a call are arguments, each with its place.
LEMMA VectorsAreArguments ==
    ASSUME NEW args \in Options!ArgVectors
    PROVE  args \in Seq(Argument) /\ \A k \in DOMAIN args : args[k].id = k
<1>1. PICK n \in 0..MaxArgs : \E f \in [1..n -> Options!Arguments] :
        args = [i \in 1..n |-> [id |-> i, kind |-> f[i].kind, letters |-> f[i].letters]]
  BY DEF Options!ArgVectors
<1>2. PICK f \in [1..n -> Options!Arguments] :
        args = [i \in 1..n |-> [id |-> i, kind |-> f[i].kind, letters |-> f[i].letters]]
  BY <1>1
<1>3. n \in Nat
  BY <1>1
<1>4. <<>> \in Seq(STRING)
  BY EmptySeq
<1>5. \A a \in Options!Arguments :
        a.kind \in Kinds /\ a.letters \in Seq(STRING) /\ (a.kind = "cluster" => a.letters # <<>>)
  <2>1. ASSUME NEW a \in Options!Plain
        PROVE  a.kind \in Kinds /\ a.letters = <<>> /\ a.kind # "cluster"
    <3>1. PICK k \in {"plain", "--", "long", "long arg"} : a = [kind |-> k, letters |-> <<>>]
      BY DEF Options!Plain
    <3>2. a.kind = k /\ a.letters = <<>>
      BY <3>1
    <3> QED
      BY <3>2 DEF Kinds
  <2>2. ASSUME NEW a \in {[kind |-> "cluster", letters |-> c] : c \in Clusters}
        PROVE  a.kind \in Kinds /\ a.letters \in Seq(STRING) /\ a.letters # <<>>
    <3>1. PICK c \in Clusters : a = [kind |-> "cluster", letters |-> c]
      OBVIOUS
    <3>2. a.kind = "cluster" /\ a.letters = c
      BY <3>1
    <3>3. c \in Seq(STRING) /\ c # <<>>
      BY LibraryAssumption
    <3> QED
      BY <3>2, <3>3 DEF Kinds
  <2> QED
    BY <1>4, <2>1, <2>2 DEF Options!Arguments
<1>6. \A i \in 1..n : args[i] \in Argument /\ args[i].id = i
  <2>1. SUFFICES ASSUME NEW i \in 1..n PROVE args[i] \in Argument /\ args[i].id = i
    OBVIOUS
  <2>2. f[i] \in Options!Arguments
    BY <1>2
  <2>3. args[i] = [id |-> i, kind |-> f[i].kind, letters |-> f[i].letters]
    BY <1>2
  <2> QED
    BY <1>3, <1>5, <2>2, <2>3 DEF Argument
<1>7. args \in [1..n -> Argument]
  BY <1>2, <1>6
<1> QED
  BY <1>2, <1>3, <1>6, <1>7, SeqDef

\* Nothing is parsed at first.
LEMMA OptionsBegin == Options!Init => OptionsInv
<1> SUFFICES ASSUME Options!Init PROVE OptionsInv
  OBVIOUS
<1>1. value = <<>> /\ last \in [optind : {1, 2}, nextchar : {<<>>}, first : {1}, last : {1}]
      /\ third = [phase |-> "none", clean |-> TRUE, saved |-> last.optind, delivered |-> <<>>]
  BY DEF Options!Init
<1>2. <<>> \in Seq(Argument) /\ <<>> \in Seq(Letter) /\ <<>> \in Seq(Delivery)
  BY EmptySeq
<1>3. last \in Globals /\ last.first <= last.last /\ last.optind \in Nat \ {0}
  <2>1. last.first = 1 /\ last.last = 1 /\ last.optind \in {1, 2} /\ last.nextchar = <<>>
    BY <1>1
  <2>2. last.optind \in Nat \ {0} /\ last.first <= last.last /\ 1 \in Nat \ {0}
    BY <2>1
  <2>3. last = [optind |-> last.optind, nextchar |-> <<>>, first |-> 1, last |-> 1]
    BY <1>1, <2>1
  <2>4. last.optind \in Nat \ {0} /\ <<>> \in Seq(Letter) /\ 1 \in Nat \ {0}
    BY <1>2, <2>2
  <2>5. last \in Globals
    <3> DEFINE o == last.optind
    <3>1. o \in Nat \ {0} /\ last = [optind |-> o, nextchar |-> <<>>, first |-> 1, last |-> 1]
      BY <2>3, <2>4
    <3> HIDE DEF o
    <3> QED
      BY <2>4, <3>1 DEF Globals
  <2> QED
    BY <2>2, <2>5
<1>4. Kept(value, last)
  BY <1>1, <1>2, <1>3 DEF Kept
<1>5. third.phase = "none" /\ third.delivered = <<>>
  BY <1>1
<1>6. InOrder(<<>>)
  BY DEF InOrder
<1>7. CleanInv
  BY <1>5, <1>6 DEF CleanInv
<1> QED
  BY <1>1, <1>2, <1>3, <1>4, <1>5, <1>7 DEF OptionsInv

\* parse_args starts.
LEMMA ParseArgsKeeps ==
    ASSUME OptionsInv, NEW args \in Options!ArgVectors, Options!ParseArgs(args)
    PROVE  OptionsInv'
<1>1. /\ value' = args /\ last' = [last EXCEPT !.optind = 1]
      /\ third' = [phase |-> "options", clean |-> last.nextchar = <<>>,
                   saved |-> last.optind, delivered |-> <<>>]
  BY DEF Options!ParseArgs
<1>2. args \in Seq(Argument) /\ \A k \in DOMAIN args : args[k].id = k
  BY VectorsAreArguments
<1>3. last \in Globals /\ last.first <= last.last
  BY DEF OptionsInv, Kept
<1>4. /\ last' \in Globals /\ last'.first = last.first /\ last'.last = last.last
      /\ last'.optind = 1 /\ last'.nextchar = last.nextchar
  BY <1>1, <1>3 DEF Globals
<1>5. Kept(value', last')
  BY <1>1, <1>2, <1>3, <1>4 DEF Kept
<1>6. PICK clean \in BOOLEAN : clean = (last.nextchar = <<>>)
  OBVIOUS
<1>7. third' = [phase |-> "options", clean |-> clean, saved |-> last.optind, delivered |-> <<>>]
  BY <1>1, <1>6
<1>8. <<>> \in Seq(Delivery) /\ last.optind \in Nat \ {0}
  BY <1>3, EmptySeq DEF Globals
<1>9. third'.phase = "options" /\ third'.delivered = <<>> /\ third'.clean = clean
  BY <1>7
<1>10. third' \in [phase : {"none", "options", "stopped", "rest", "finished"}, clean : BOOLEAN,
                   saved : Nat \ {0}, delivered : Seq(Delivery)]
  BY <1>7, <1>8
<1>11. clean => Begins(value', last')
  BY <1>1, <1>2, <1>4, <1>6 DEF Begins
<1>12. InOrder(<<>>) /\ DOMAIN <<>> = {}
  BY DEF InOrder
<1>13. third'.clean => CleanInv'
  BY <1>9, <1>11, <1>12 DEF CleanInv
<1> QED
  BY <1>5, <1>9, <1>10, <1>13 DEF OptionsInv

\* An option is delivered, or there is none left.
LEMMA NextOptionKeeps ==
    ASSUME OptionsInv, Options!NextOption
    PROVE  OptionsInv'
<1>1. PICK found :
        /\ found = Options!GetoptLong(value, last) /\ value' = found.args
        /\ \/ found.ended /\ third' = [third EXCEPT !.phase = "rest"] /\ last' = found.s
           \/ /\ ~found.ended
              /\ third' = [third EXCEPT !.delivered = Options!Deliver(found.parts, FALSE)]
              /\ last' = found.s
           \/ /\ ~found.ended
              /\ third' = [third EXCEPT !.phase = "stopped",
                                        !.delivered = Options!Deliver(found.parts, FALSE)]
              /\ last' = Options!Restored(found.s)
  BY DEF Options!NextOption
<1>2. third.phase = "options" /\ (last.nextchar # <<>> \/ last.optind <= Len(value) + 1)
  BY DEF Options!NextOption
<1>3. /\ Kept(value, last)
      /\ third \in [phase : {"none", "options", "stopped", "rest", "finished"}, clean : BOOLEAN,
                    saved : Nat \ {0}, delivered : Seq(Delivery)]
  BY DEF OptionsInv
<1>4. IsFound(found)
  BY <1>1, <1>2, <1>3, GetoptKept
<1>5. /\ found.args \in Seq(Argument) /\ found.s \in Globals /\ found.s.first <= found.s.last
      /\ found.parts \in SUBSET Places
  BY <1>4 DEF IsFound, Kept
<1>6. last' \in Globals /\ last'.first = found.s.first /\ last'.last = found.s.last
  <2>1. CASE last' = found.s
    BY <1>5, <2>1
  <2>2. CASE last' = Options!Restored(found.s)
    BY <1>3, <1>5, <2>2 DEF Options!Restored, Globals
  <2> QED
    BY <1>1, <2>1, <2>2
<1>7. Kept(value', last')
  BY <1>1, <1>5, <1>6 DEF Kept
<1>8. PICK x, given : /\ x = [parts |-> found.parts, isNonOption |-> FALSE]
                      /\ given = GivenOut(third.delivered)
  OBVIOUS
<1>9. x \in Delivery /\ x.parts = found.parts /\ x.isNonOption = FALSE
  BY <1>5, <1>8 DEF Delivery
<1>10. Options!Deliver(found.parts, FALSE) = Append(third.delivered, x)
  BY <1>8 DEF Options!Deliver
<1>11. PICK more : more = Append(third.delivered, x)
  OBVIOUS
<1>12. third.delivered \in Seq(Delivery)
  BY <1>3
<1>13. more \in Seq(Delivery) /\ GivenOut(more) = given \cup found.parts /\ given \in SUBSET Places
  BY <1>8, <1>9, <1>11, <1>12, GivenMore
<1>14. third.clean => /\ InOrder(third.delivered)
                      /\ \A i \in DOMAIN third.delivered : ~third.delivered[i].isNonOption
                      /\ GoesOn(given, found)
  <2>1. SUFFICES ASSUME third.clean
                 PROVE  /\ InOrder(third.delivered)
                        /\ \A i \in DOMAIN third.delivered : ~third.delivered[i].isNonOption
                        /\ GoesOn(given, found)
    OBVIOUS
  <2>2. CleanInv
    BY <2>1 DEF OptionsInv
  <2>3. Scanned(value, last, given) \/ (Begins(value, last) /\ given = {})
    <3>1. GivenOut(<<>>) = {}
      BY DEF GivenOut
    <3> QED
      BY <1>2, <1>8, <2>2, <3>1 DEF CleanInv
  <2>4. GoesOn(given, found)
    BY <1>1, <2>3, GetoptFinds
  <2> QED
    BY <1>2, <2>2, <2>4 DEF CleanInv
<1>15. CASE found.ended /\ third' = [third EXCEPT !.phase = "rest"] /\ last' = found.s
  <2>1. /\ third'.phase = "rest" /\ third'.clean = third.clean
        /\ third'.delivered = third.delivered
        /\ third' \in [phase : {"none", "options", "stopped", "rest", "finished"},
                       clean : BOOLEAN, saved : Nat \ {0}, delivered : Seq(Delivery)]
    BY <1>3, <1>15
  <2>2. third.clean => Rest(value', last', given)
    BY <1>1, <1>14, <1>15 DEF GoesOn
  <2>3. third'.clean => CleanInv'
    BY <1>8, <1>14, <2>1, <2>2 DEF CleanInv
  <2> QED
    BY <1>7, <2>1, <2>3 DEF OptionsInv
<1>16. CASE ~found.ended /\ last' \in {found.s, Options!Restored(found.s)}
            /\ \/ third' = [third EXCEPT !.delivered = more] /\ last' = found.s
               \/ third' = [third EXCEPT !.phase = "stopped", !.delivered = more]
  <2>1. /\ third'.clean = third.clean /\ third'.delivered = more
        /\ third'.phase \in {"options", "stopped"}
        /\ third'.phase = "options" => last' = found.s
        /\ third' \in [phase : {"none", "options", "stopped", "rest", "finished"},
                       clean : BOOLEAN, saved : Nat \ {0}, delivered : Seq(Delivery)]
    BY <1>2, <1>3, <1>13, <1>16
  <2>2. ASSUME third.clean
        PROVE  /\ InOrder(more) /\ Scanned(found.args, found.s, GivenOut(more))
               /\ \A i \in DOMAIN more : ~more[i].isNonOption
    <3>1. FoundNext(given, found)
      BY <1>14, <1>16, <2>2 DEF GoesOn
    <3>2. Scanned(found.args, found.s, GivenOut(more)) /\ Ahead(given, found.parts)
      BY <1>13, <3>1 DEF FoundNext
    <3>3. \A p \in given, q \in found.parts : Options!Before(p, q)
      BY <3>2 DEF Ahead
    <3>4. given \cap found.parts = {}
      <4>1. \A p \in Places : ~Options!Before(p, p)
        BY DEF Places, Options!Before
      <4> QED
        BY <1>5, <3>3, <4>1
    <3>5. \A i \in DOMAIN third.delivered : third.delivered[i].parts \subseteq given
      BY <1>8 DEF GivenOut
    <3>6. InOrder(more)
      <4>1. HasFirst(x.parts)
        BY <1>9, <3>2 DEF Ahead
      <4>2. \A i \in DOMAIN third.delivered :
              \A p \in third.delivered[i].parts, q \in x.parts : Options!Before(p, q)
        BY <1>9, <3>3, <3>5
      <4> QED
        BY <1>8, <1>9, <1>11, <1>12, <1>14, <2>2, <3>4, <4>1, <4>2, InOrderMore
    <3>7. \A i \in DOMAIN more : ~more[i].isNonOption
      <4>1. /\ Len(more) = Len(third.delivered) + 1 /\ more[Len(third.delivered) + 1] = x
            /\ \A i \in 1..Len(third.delivered) : more[i] = third.delivered[i]
        BY <1>9, <1>11, <1>12, AppendProperties
      <4>2. /\ DOMAIN more = 1..(Len(third.delivered) + 1) /\ Len(third.delivered) \in Nat
            /\ DOMAIN third.delivered = 1..Len(third.delivered)
        BY <1>12, <1>13, <4>1, LenProperties
      <4> QED
        BY <1>9, <1>14, <2>2, <4>1, <4>2
    <3> QED
      BY <3>2, <3>6, <3>7
  <2>3. third'.clean => CleanInv'
    BY <1>1, <2>1, <2>2 DEF CleanInv
  <2> QED
    BY <1>7, <2>1, <2>3 DEF OptionsInv
<1> QED
  BY <1>1, <1>10, <1>11, <1>15, <1>16

\* An argument that is none of the options is delivered.
LEMMA NextNonOptionKeeps ==
    ASSUME OptionsInv, Options!NextNonOption
    PROVE  OptionsInv'
<1> DEFINE o == last.optind
           n == Len(value)
<1>1. /\ third.phase = "rest" /\ o <= n /\ value' = value
      /\ last' = [last EXCEPT !.optind = @ + 1]
      /\ third' = [third EXCEPT !.delivered = Options!Deliver(Options!Parts(value[o]), TRUE)]
  BY DEF Options!NextNonOption
<1>2. /\ value \in Seq(Argument) /\ n \in Nat /\ last \in Globals /\ last.first <= last.last
      /\ o \in Nat \ {0}
      /\ third \in [phase : {"none", "options", "stopped", "rest", "finished"}, clean : BOOLEAN,
                    saved : Nat \ {0}, delivered : Seq(Delivery)]
  BY LenProperties DEF OptionsInv, Kept, Globals
<1>3. value[o] \in Argument
  BY <1>1, <1>2, ElementOfSeq
<1>4. PICK parts : parts = Options!Parts(value[o])
  OBVIOUS
<1>5. parts \in SUBSET Places /\ HasFirst(parts) /\ \A p \in parts : p[1] = value[o].id
  BY <1>3, <1>4, PartsOf
<1>6. /\ last' \in Globals /\ last'.first = last.first /\ last'.last = last.last
      /\ last'.optind = o + 1
  <2>1. o + 1 \in Nat \ {0}
    BY <1>2
  <2> QED
    BY <1>1, <1>2, <2>1 DEF Globals
<1>7. Kept(value', last')
  BY <1>1, <1>2, <1>6 DEF Kept
<1>8. PICK x, given, more : /\ x = [parts |-> parts, isNonOption |-> TRUE]
                            /\ given = GivenOut(third.delivered)
                            /\ more = Append(third.delivered, x)
  OBVIOUS
<1>9. x \in Delivery /\ x.parts = parts /\ x.isNonOption = TRUE
  BY <1>5, <1>8 DEF Delivery
<1>10. third' = [third EXCEPT !.delivered = more]
  BY <1>1, <1>4, <1>8 DEF Options!Deliver
<1>11. third.delivered \in Seq(Delivery)
  BY <1>2
<1>12. more \in Seq(Delivery) /\ GivenOut(more) = given \cup parts /\ given \in SUBSET Places
  BY <1>8, <1>9, <1>11, GivenMore
<1>13. /\ third'.clean = third.clean /\ third'.phase = "rest" /\ third'.delivered = more
       /\ third' \in [phase : {"none", "options", "stopped", "rest", "finished"},
                      clean : BOOLEAN, saved : Nat \ {0}, delivered : Seq(Delivery)]
  BY <1>1, <1>2, <1>10, <1>12
<1>14. /\ Len(more) = Len(third.delivered) + 1 /\ more[Len(third.delivered) + 1] = x
       /\ \A i \in 1..Len(third.delivered) : more[i] = third.delivered[i]
  BY <1>8, <1>9, <1>11, AppendProperties
<1>15. /\ DOMAIN more = 1..(Len(third.delivered) + 1) /\ Len(third.delivered) \in Nat
       /\ DOMAIN third.delivered = 1..Len(third.delivered)
  BY <1>11, <1>12, <1>14, LenProperties
<1>16. ASSUME third.clean PROVE CleanInv'
  <2>1. CleanInv
    BY <1>16 DEF OptionsInv
  <2>2. Rest(value, last, given)
    BY <1>1, <1>8, <2>1 DEF CleanInv
  <2>3. /\ \A j, k \in o..n : j < k => value[j].id < value[k].id
        /\ \A k \in o..n, p \in given : p[1] # value[k].id
        /\ \A k \in 1..(o - 1) : value[k].kind = "--" \/ Passed(value[k], given)
    BY <2>2 DEF Rest
  <2>4. \A i \in DOMAIN third.delivered, k \in o..n :
          third.delivered[i].isNonOption =>
            \A p \in third.delivered[i].parts : p[1] < value[k].id
    BY <1>1, <2>1 DEF CleanInv
  <2>5. o \in o..n
    BY <1>1, <1>2
  <2>6. given \cap parts = {}
    BY <1>5, <2>3, <2>5
  <2>7. \A i \in DOMAIN third.delivered : third.delivered[i].isNonOption = TRUE =>
          \A p \in third.delivered[i].parts, q \in parts : Options!Before(p, q)
    BY <1>5, <2>4, <2>5 DEF Options!Before
  <2>8. InOrder(more)
    <3>1. InOrder(third.delivered)
      BY <2>1 DEF CleanInv
    <3> QED
      BY <1>5, <1>8, <1>9, <1>11, <2>6, <2>7, <3>1, InOrderMore
  <2>9. \A k \in (o + 1)..n : k \in o..n /\ o < k
    BY <1>2
  <2>10. Rest(value, last', given \cup parts)
    <3>1. last'.optind <= n + 1
      BY <1>1, <1>2, <1>6
    <3>2. \A j, k \in (o + 1)..n : j < k => value[j].id < value[k].id
      BY <2>3, <2>9
    <3>3. \A k \in (o + 1)..n, p \in given \cup parts : p[1] # value[k].id
      <4>1. SUFFICES ASSUME NEW k \in (o + 1)..n, NEW p \in parts PROVE p[1] # value[k].id
        BY <2>3, <2>9
      <4>2. value[o].id < value[k].id
        BY <2>3, <2>5, <2>9
      <4>3. value[o].id \in Nat
        BY <1>3 DEF Argument
      <4> QED
        BY <1>5, <4>2, <4>3
    <3>4. \A k \in 1..o : value[k].kind = "--" \/ Passed(value[k], given \cup parts)
      <4>1. SUFFICES ASSUME NEW k \in 1..o
                     PROVE  value[k].kind = "--" \/ Passed(value[k], given \cup parts)
        OBVIOUS
      <4>2. k = o \/ k \in 1..(o - 1)
        BY <1>2
      <4> QED
        BY <1>4, <2>3, <4>2 DEF Passed
    <3>5. (o + 1) - 1 = o /\ given \cup parts \subseteq Places
      BY <1>2, <1>5, <1>12
    <3> QED
      BY <1>2, <1>6, <3>1, <3>2, <3>3, <3>4, <3>5 DEF Rest
  <2>11. \A i \in DOMAIN more, k \in (o + 1)..n :
           more[i].isNonOption => \A p \in more[i].parts : p[1] < value[k].id
    <3>1. SUFFICES ASSUME NEW i \in DOMAIN more, NEW k \in (o + 1)..n, more[i].isNonOption,
                          NEW p \in more[i].parts
                   PROVE  p[1] < value[k].id
      OBVIOUS
    <3>2. k \in o..n /\ value[o].id < value[k].id
      BY <2>3, <2>5, <2>9
    <3>3. i \in 1..Len(third.delivered) \/ i = Len(third.delivered) + 1
      BY <1>15
    <3>4. CASE i \in 1..Len(third.delivered)
      <4>1. more[i] = third.delivered[i] /\ i \in DOMAIN third.delivered
        BY <1>14, <1>15, <3>4
      <4> QED
        BY <2>4, <3>1, <3>2, <4>1
    <3>5. CASE i = Len(third.delivered) + 1
      <4>1. p[1] = value[o].id
        BY <1>5, <1>9, <1>14, <3>5
      <4> QED
        BY <3>2, <4>1
    <3> QED
      BY <3>3, <3>4, <3>5
  <2> HIDE DEF o, n
  <2>12. Rest(value', last', GivenOut(more))
    BY <1>1, <1>12, <2>10
  <2>13. last'.optind = o + 1 /\ Len(value') = n
    BY <1>1, <1>6 DEF n
  <2> QED
    BY <1>13, <1>1, <2>8, <2>11, <2>12, <2>13 DEF CleanInv
<1> QED
  BY <1>7, <1>13, <1>16 DEF OptionsInv

\* parse_args returns.
LEMMA ReturnKeeps ==
    ASSUME OptionsInv, Options!Return
    PROVE  OptionsInv'
<1>1. /\ third.phase = "rest" /\ last.optind > Len(value) /\ value' = value
      /\ last' = [last EXCEPT !.optind = third.saved]
      /\ third' = [third EXCEPT !.phase = "finished"]
  BY DEF Options!Return, Options!Restored
<1>2. /\ value \in Seq(Argument) /\ Len(value) \in Nat /\ DOMAIN value = 1..Len(value)
      /\ last \in Globals /\ last.first <= last.last /\ last.optind \in Nat \ {0}
      /\ third \in [phase : {"none", "options", "stopped", "rest", "finished"}, clean : BOOLEAN,
                    saved : Nat \ {0}, delivered : Seq(Delivery)]
  BY LenProperties DEF OptionsInv, Kept, Globals
<1>3. /\ last' \in Globals /\ last'.first = last.first /\ last'.last = last.last
      /\ last'.optind = third.saved
  BY <1>1, <1>2 DEF Globals
<1>4. Kept(value', last')
  BY <1>1, <1>2, <1>3 DEF Kept
<1>5. /\ third'.clean = third.clean /\ third'.phase = "finished"
      /\ third'.delivered = third.delivered /\ third'.saved = third.saved
      /\ third' \in [phase : {"none", "options", "stopped", "rest", "finished"},
                     clean : BOOLEAN, saved : Nat \ {0}, delivered : Seq(Delivery)]
  BY <1>1, <1>2
<1>6. ASSUME third.clean PROVE CleanInv'
  <2>1. CleanInv
    BY <1>6 DEF OptionsInv
  <2>2. Rest(value, last, GivenOut(third.delivered))
    BY <1>1, <2>1 DEF CleanInv
  <2>3. \A k \in DOMAIN value :
          value[k].kind = "--" \/ Passed(value[k], GivenOut(third.delivered))
    <3>1. \A k \in 1..Len(value) : k \in 1..(last.optind - 1)
      BY <1>1, <1>2
    <3> QED
      BY <1>2, <2>2, <3>1 DEF Rest
  <2> QED
    BY <1>1, <1>3, <1>5, <2>1, <2>3 DEF CleanInv
<1> QED
  BY <1>4, <1>5, <1>6 DEF OptionsInv

\* Every step of the parser keeps it.
LEMMA OptionsKeep ==
    ASSUME OptionsInv, Options!Next \/ UNCHANGED allOf
    PROVE  OptionsInv'
<1>1. CASE UNCHANGED allOf
  BY <1>1 DEF allOf, OptionsInv, CleanInv
<1>2. CASE Options!Forget
  <2>1. /\ value' = <<>> /\ last' = last
        /\ third' = [third EXCEPT !.phase = "none", !.delivered = <<>>]
    BY <1>2 DEF Options!Forget
  <2>2. /\ last \in Globals /\ last.first <= last.last
        /\ third \in [phase : {"none", "options", "stopped", "rest", "finished"},
                      clean : BOOLEAN, saved : Nat \ {0}, delivered : Seq(Delivery)]
    BY DEF OptionsInv, Kept
  <2>3. <<>> \in Seq(Argument) /\ <<>> \in Seq(Delivery)
    BY EmptySeq
  <2>4. /\ third'.phase = "none" /\ third'.delivered = <<>>
        /\ third' \in [phase : {"none", "options", "stopped", "rest", "finished"},
                       clean : BOOLEAN, saved : Nat \ {0}, delivered : Seq(Delivery)]
    BY <2>1, <2>2, <2>3
  <2>5. Kept(value', last')
    BY <2>1, <2>2, <2>3 DEF Kept
  <2>6. CleanInv'
    <3>1. InOrder(<<>>)
      BY DEF InOrder
    <3> QED
      BY <2>4, <3>1 DEF CleanInv
  <2> QED
    BY <2>4, <2>5, <2>6 DEF OptionsInv
<1> QED
  BY <1>1, <1>2, ParseArgsKeeps, NextOptionKeeps, NextNonOptionKeeps, ReturnKeeps
     DEF Options!Next

\* The first part of a delivery is one of it.
LEMMA FirstIsIn ==
    ASSUME NEW parts, HasFirst(parts)
    PROVE  Options!First(parts) \in parts
BY DEF HasFirst, Options!First

\* What the invariant says of the deliveries is what is promised of them.
LEMMA OptionsAreRight == OptionsInv => Options!EachArgumentOnce
<1> SUFFICES ASSUME OptionsInv, third.clean PROVE Options!EachArgumentOnce
  BY DEF Options!EachArgumentOnce
<1>1. CleanInv
  BY DEF OptionsInv
<1>2. InOrder(third.delivered)
  BY <1>1 DEF CleanInv
<1>3. \A i, j \in DOMAIN third.delivered : i < j =>
        /\ Options!Delivered(i) \cap Options!Delivered(j) = {}
        /\ third.delivered[i].isNonOption = third.delivered[j].isNonOption =>
             Options!Before(Options!First(Options!Delivered(i)),
                            Options!First(Options!Delivered(j)))
  <2>1. SUFFICES ASSUME NEW i \in DOMAIN third.delivered, NEW j \in DOMAIN third.delivered, i < j
                 PROVE  /\ Options!Delivered(i) \cap Options!Delivered(j) = {}
                        /\ third.delivered[i].isNonOption = third.delivered[j].isNonOption =>
                             Options!Before(Options!First(Options!Delivered(i)),
                                            Options!First(Options!Delivered(j)))
    OBVIOUS
  <2>2. /\ Options!First(third.delivered[i].parts) \in third.delivered[i].parts
        /\ Options!First(third.delivered[j].parts) \in third.delivered[j].parts
    BY <1>2, FirstIsIn DEF InOrder
  <2> QED
    BY <1>2, <2>1, <2>2 DEF InOrder, Options!Delivered
<1>4. third.phase = "finished" =>
        /\ last.optind = third.saved
        /\ \A k \in DOMAIN value : value[k].kind # "--" =>
             Options!Parts(value[k]) \subseteq
               UNION {Options!Delivered(i) : i \in DOMAIN third.delivered}
  <2>1. GivenOut(third.delivered) = UNION {Options!Delivered(i) : i \in DOMAIN third.delivered}
    BY DEF GivenOut, Options!Delivered
  <2> QED
    BY <1>1, <2>1 DEF CleanInv, Passed
<1> QED
  BY <1>3, <1>4 DEF Options!EachArgumentOnce

\* THEOREM: in every behaviour of parse_args that begins outside of a cluster,
\* every argument, and every letter of a cluster, is delivered exactly once, the
\* options and the others each in their order, whatever getopt_long remembers
\* of earlier parses, for any arguments and options.
THEOREM EveryArgumentOnce == LibrarySpec => []EachArgumentOnce
<1> DEFINE Inv == component = "getopt" => OptionsInv
<1>1. LibraryInit => Inv
  BY OnePartBegins, OptionsBegin
<1>2. Inv /\ [LibraryNext]_<<component, vars, third>> => Inv'
  BY OnePartRuns, OptionsKeep
<1>3. Inv => EachArgumentOnce
  BY OptionsAreRight DEF EachArgumentOnce
<1> QED
  BY <1>1, <1>2, <1>3, PTL DEF LibrarySpec

=============================================================================
