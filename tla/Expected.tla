------------------------------ MODULE Expected ------------------------------
(***************************************************************************)
(* mh::expected (error/expected.hpp): a value or an error, in one          *)
(* std::variant.  Copying a value or an error may throw, moving one may    *)
(* not, and neither may be the expected's own contents, which emplace      *)
(* destroys before it reads them.                                          *)
(*                                                                         *)
(* A variant that failed to construct its new contents may be left with no *)
(* contents (valueless): has_error() is true of it and error() throws.     *)
(***************************************************************************)
EXTENDS Integers

CONSTANTS
    Variables,  \* the expecteds
    Things,     \* what values and errors there are
    Nothing     \* what is left of a thing that was moved

VARIABLES
    held,       \* m_State of each variable: which of the two, and the thing
    told,       \* what the calls that returned should have made of it
    heard       \* which call gave what of which variable to a function

vars == <<held, told, heard>>

Sides == {"value", "error"}
Unbuilt == <<"unbuilt", Nothing>>
Valueless == <<"valueless", Nothing>>
Unknown == <<"unknown", Nothing>>
Unheard == <<"no call", Nothing, Nothing>>

Init ==
    /\ held = [v \in Variables |-> Unbuilt]
    /\ told = held
    /\ heard = Unheard

Built(v) == held[v] # Unbuilt
HasValue(v) == held[v][1] = "value"
HasError(v) == ~HasValue(v)
Has(v, side) == IF side = "value" THEN HasValue(v) ELSE HasError(v)

\* error() and value() return a thing, or throw.
Readable(v, side) == held[v][1] = side

Becomes(v, contents, meant) ==
    /\ held' = [held EXCEPT ![v] = contents]
    /\ told' = [told EXCEPT ![v] = meant]
    /\ heard' = Unheard

\* operator== with a value or an error.
IsEqual(v, side, thing) ==
    /\ Has(v, side)
    /\ held[v] = <<side, thing>>

\* operator<=> with either: an expected that is the other one comes first.
\* Things are compared for equality only.
Compare(v, side, thing) ==
    IF ~Has(v, side) THEN "less"
    ELSE IF ~Readable(v, side) THEN "throws"
    ELSE IF held[v] = <<side, thing>> THEN "equal" ELSE "unequal"
-----------------------------------------------------------------------------
\* The constructors from a value or an error; one that throws makes nothing.
Construct(v, side, thing) ==
    /\ ~Built(v)
    /\ Becomes(v, <<side, thing>>, <<side, thing>>)

CopyConstruct(v, other) ==
    /\ ~Built(v) /\ Built(other)
    /\ Becomes(v, held[other], told[other])

\* Moved contents, of held or of told.
Left(contents) == <<contents[1], Nothing>>

Moved(v, other) ==
    /\ held' = [held EXCEPT ![v] = held[other], ![other] = Left(held[other])]
    /\ told' = [told EXCEPT ![v] = told[other], ![other] = Left(told[other])]
    /\ heard' = Unheard

MoveConstruct(v, other) ==
    /\ ~Built(v) /\ Built(other)
    /\ Moved(v, other)

Destroy(v) == Built(v) /\ Becomes(v, Unbuilt, Unbuilt)

\* Mutant: the contents are replaced in place.
CopyAssignInPlace(v, other) ==
    /\ Built(v) /\ Built(other)
    /\ \/ Becomes(v, held[other], told[other])
       \/ Becomes(v, Valueless, told[v])

\* From another expected.  The variant copies first, and takes the copy if that
\* did not throw; to the same alternative it assigns, and copies of
\* values that throw when they are assigned leave what was there.
CopyAssign(v, other) ==
    /\ Built(v) /\ Built(other)
    /\ \/ Becomes(v, held[other], told[other])
       \/ Becomes(v, held[v], told[v])

MoveAssign(v, other) ==
    /\ Built(v) /\ Built(other) /\ v # other
    /\ Moved(v, other)

\* From a value or an error, and emplace itself.  If its constructor throws,
\* the variant is valueless, or as it was where the type allows for that.
Emplace(v, side, thing) ==
    /\ Built(v)
    /\ \/ Becomes(v, <<side, thing>>, <<side, thing>>)
       \/ Becomes(v, Valueless, Unknown)
       \/ Becomes(v, held[v], Unknown)
-----------------------------------------------------------------------------
\* map with a function that returns a value makes a new expected: from what the
\* function returns, or from the error.  The function may throw.
MapToValue(v, other, thing) ==
    /\ ~Built(v) /\ HasValue(other)
    /\ \/ /\ held' = [held EXCEPT ![v] = <<"value", thing>>]
          /\ told' = [told EXCEPT ![v] = <<"value", thing>>]
       \/ UNCHANGED <<held, told>>
    /\ heard' = <<"map", other, held[other]>>

\* error() throws if other is valueless.
MapError(v, other) ==
    /\ ~Built(v) /\ Built(other) /\ HasError(other)
    /\ IF Readable(other, "error")
       THEN Becomes(v, held[other], told[other])
       ELSE heard' = Unheard /\ UNCHANGED <<held, told>>

\* map with a function that returns nothing; or_else.
CallMap(v) ==
    /\ Built(v)
    /\ heard' = IF HasValue(v) THEN <<"map", v, held[v]>> ELSE Unheard
    /\ UNCHANGED <<held, told>>

OrElse(v) ==
    /\ Built(v)
    /\ heard' = IF HasError(v) /\ Readable(v, "error") THEN <<"or_else", v, held[v]>> ELSE Unheard
    /\ UNCHANGED <<held, told>>

Next ==
    \E v \in Variables :
        \/ Destroy(v) \/ CallMap(v) \/ OrElse(v)
        \/ \E side \in Sides, thing \in Things : Construct(v, side, thing) \/ Emplace(v, side, thing)
        \/ \E other \in Variables :
             \/ CopyConstruct(v, other) \/ MoveConstruct(v, other)
             \/ CopyAssign(v, other) \/ MoveAssign(v, other)
             \/ \E thing \in Things : MapToValue(v, other, thing)
             \/ MapError(v, other)

Spec == Init /\ [][Next]_vars
-----------------------------------------------------------------------------
\* Whichever calls threw, an expected holds what the last call that returned
\* made of it, unless emplacing something into it (or into the one that it was
\* copied from) threw since.  The comparisons say so: it is equal to that value
\* or error and to no other.  And a function hears the value, or the error, that
\* was given.
HoldsWhatItWasGiven ==
    /\ \A v \in Variables : told[v] # Unknown =>
         /\ held[v] = told[v]
         /\ \A side \in Sides, thing \in Things :
              LET equal == told[v] = <<side, thing>>
              IN  /\ IsEqual(v, side, thing) <=> equal
                  /\ Built(v) => (Compare(v, side, thing) = "equal" <=> equal)
                  /\ Built(v) => Compare(v, side, thing) # "throws"
    /\ heard # Unheard =>
         /\ heard[3][1] = (IF heard[1] = "map" THEN "value" ELSE "error")
         /\ told[heard[2]] \in {heard[3], Unknown}
=============================================================================
