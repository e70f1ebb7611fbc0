----------------------------- MODULE MCLibrary -----------------------------
(* For TLC: what one caller can do with each small part of the library.    *)
(* The parts share no state, so a behaviour is one of one part, named by   *)
(* "component": the arithmetic of MCNumbers, or one of the parts below,    *)
(* whose variables are then value, last and third.                         *)
EXTENDS MCNumbers, Sequences

CONSTANTS Things, Variables, Nothing, Invalid, Clusters, MaxArgs, MaxYields,
          MaxTime, Interval, Blocks, MaxSize, MaxThrown
VARIABLE third

\* What the parts below need of their constants: that nothing is no thing,
\* that intervals and bounds are numbers, an interval a positive one (with one
\* of 0 every get updates, and a value is as old as the call that it serves),
\* and that a cluster has a letter (to getopt_long, "-" alone is no option).
ASSUME LibraryAssumption ==
    /\ Nothing \notin Things \cup Variables \cup Blocks
    /\ Invalid \notin Things \cup {Nothing}
    /\ Interval \in Nat \ {0} /\ MaxTime \in Nat
    /\ MaxYields \in Nat /\ MaxSize \in Nat /\ MaxThrown \in Nat /\ MaxArgs \in Nat
    /\ \A c \in Clusters : c \in Seq(STRING) /\ c # <<>>

Options == INSTANCE Getopt WITH argv <- value, scanner <- last, parse <- third
Coroutines == INSTANCE Generator WITH
    Frames <- Things, Generators <- Variables, None <- Nothing,
    frames <- value, holds <- last, loop <- third
Owners == INSTANCE UniqueObject WITH
    Objects <- Things, Unbuilt <- Nothing, owned <- value, program <- last, deletions <- third
Caches == INSTANCE CachedVariable WITH
    Threads <- Things, clock <- value, cache <- last, calls <- third
Memory == INSTANCE Buffer WITH
    Buffers <- Variables, Null <- Nothing, buffers <- value, heap <- last, reserved <- third
Scopes == INSTANCE ScopeExit WITH
    Functions <- Things, Guards <- Variables, None <- Nothing,
    guards <- value, runs <- last, uncaught <- third
Results == INSTANCE Expected WITH held <- value, told <- last, heard <- third

\* Options alone, two together, and one with its argument attached.
SampleClusters == {<<"v">>, <<"v", "f">>, <<"f", "x">>}

Numbers == {"uint128", "bits", "floats", "remaps"}

LibraryInit ==
    \/ NumbersInit /\ third = 0
    \/ component = "getopt" /\ Options!Init
    \/ component = "generator" /\ Coroutines!Init
    \/ component = "unique_object" /\ Owners!Init
    \/ component = "cached_variable" /\ Caches!Init
    \/ component = "buffer" /\ Memory!Init
    \/ component = "scope_exit" /\ Scopes!Init
    \/ component = "expected" /\ Results!Init

NumbersStep == component \in Numbers /\ NumbersNext /\ UNCHANGED third
OptionsNext == component = "getopt" /\ Options!Next
CoroutinesNext == component = "generator" /\ Coroutines!Next
OwnersNext == component = "unique_object" /\ Owners!Next
CachesNext == component = "cached_variable" /\ Caches!Next
MemoryNext == component = "buffer" /\ Memory!Next
ScopesNext == component = "scope_exit" /\ Scopes!Next
ResultsNext == component = "expected" /\ Results!Next

LibraryNext ==
    \/ NumbersStep
    \/ /\ \/ OptionsNext \/ CoroutinesNext \/ OwnersNext \/ CachesNext \/ MemoryNext
          \/ ScopesNext \/ ResultsNext
       /\ UNCHANGED component

LibrarySpec == LibraryInit /\ [][LibraryNext]_<<component, vars, third>>
-----------------------------------------------------------------------------
\* getopt: each element of argv is delivered once.
EachArgumentOnce == component = "getopt" => Options!EachArgumentOnce

\* generator: a loop sees every value of its coroutine, once and in order.
EveryValueOnce == component = "generator" => Coroutines!EveryValueOnce

\* What a variable owns is released once, by whom it belongs to: frames of
\* generators, objects, blocks of memory, and the calls that guards owe.
ReleasedOnce ==
    /\ component = "generator" => Coroutines!ReleasedOnce
    /\ component = "unique_object" => Owners!ReleasedOnce
    /\ component = "buffer" => Memory!ReleasedOnce
    /\ component = "scope_exit" => Scopes!ReleasedOnce

\* expected: a call that throws loses nothing but what it was emplacing over.
HoldsWhatItWasGiven == component = "expected" => Results!HoldsWhatItWasGiven

\* cached_variable: get never returns a value that was stale before the call.
NeverStale ==
    [][component = "cached_variable" => Caches!FreshStep]_<<component, vars, third>>
=============================================================================
