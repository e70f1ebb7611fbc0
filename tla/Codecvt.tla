------------------------------ MODULE Codecvt ------------------------------
(***************************************************************************)
(* mh::change_encoding (text/codecvt.inl): conversions between UTF-8,      *)
(* UTF-16 and UTF-32 by the code's own decoders and encoders, and from and *)
(* to the locale's multibyte characters ("mb", here UTF-8) and wchar_t     *)
(* ("wide") by the C library.                                              *)
(*                                                                         *)
(* A text goes through the conversions of a path, one round of a           *)
(* conversion's loop per step.  What each round appended stays apart in    *)
(* "chunks".  Conversions between wide and UTF go through mb, as in the    *)
(* code.                                                                   *)
(***************************************************************************)
EXTENDS Integers, Sequences, SequencesExt, FiniteSetsExt

CONSTANTS
    Paths,      \* sequences of encodings, each converted to the next
    Units(_),   \* sample units of an encoding, for the texts
    MaxUnits    \* bound of the length of a text

Encodings == {"u8", "u16", "u32", "mb", "wide"}

ASSUME CodecvtAssumption ==
    /\ MaxUnits \in Nat
    /\ \A e \in Encodings : Units(e) \subseteq Nat
    /\ \A p \in Paths :
          /\ p \in Seq(Encodings) /\ Len(p) >= 2
          /\ \A i \in 1..Len(p) - 1 :
                /\ p[i] /= p[i + 1]
                /\ "wide" \in {p[i], p[i + 1]} => "mb" \in {p[i], p[i + 1]}

VARIABLES
    path,       \* the encodings the text goes through
    text,       \* the text, in the first of them
    leg,        \* the conversion in progress, from path[leg] to path[leg + 1]
    input, it,  \* its input, and the next unit to read
    chunks,     \* what its rounds have appended
    pending,    \* mbstate_t of c16rtomb: a high surrogate that waits, or 0
    status      \* "running", "done", or the exception that was thrown

vars == <<path, text, leg, input, it, chunks, pending, status>>

-----------------------------------------------------------------------------
(* The decoders: a code point and where the next one begins.               *)

Between(x, a, b) == a <= x /\ x <= b

Lead(b) ==
    CASE b >= 240             -> [bits |-> b % 8,   more |-> 3]
      [] Between(b, 224, 239) -> [bits |-> b % 16,  more |-> 2]
      [] Between(b, 192, 223) -> [bits |-> b % 32,  more |-> 1]
      [] b < 192              -> [bits |-> b % 128, more |-> 0]

\* The weight of bits with k continuation bytes behind them: 2^(6k).
Place(k) == CASE k = 0 -> 1 [] k = 1 -> 64 [] k = 2 -> 4096 [] k = 3 -> 262144

\* Mutant: the end of the input is not looked at.
DecodeU8Beyond(s, i) ==
    LET lead == Lead(s[i])
    IN  [code |-> lead.bits * Place(lead.more), next |-> i + 1 + lead.more]

(* convert_to_u32 of UTF-8: fewer continuation bytes at the end of input.  *)
DecodeU8(s, i) ==
    LET lead == Lead(s[i])
        got  == Min({lead.more, Len(s) - i})
        Bits(k) == IF k <= got THEN (s[i + k] % 64) * Place(lead.more - k) ELSE 0
    IN  [code |-> (lead.bits * Place(lead.more)) + Bits(1) + Bits(2) + Bits(3),
         next |-> i + 1 + got]

HighSurrogate(u) == u \div 1024 = 54        \* (u & 0xFC00) == 0xD800

DecodeU16(s, i) ==
    IF ~HighSurrogate(s[i]) THEN [code |-> s[i], next |-> i + 1]
    ELSE IF i = Len(s) THEN [code |-> 65536 + ((s[i] % 1024) * 1024), next |-> i + 1]
    ELSE [code |-> 65536 + ((s[i] % 1024) * 1024) + (s[i + 1] % 1024),
          next |-> i + 2]

Decode(from, s, i) ==
    CASE from = "u8"  -> DecodeU8(s, i)
      [] from = "u16" -> DecodeU16(s, i)
      [] from = "u32" -> [code |-> s[i], next |-> i + 1]

(* The encoders.  convert_to_u8 returns -1 beyond the last code point, and *)
(* append then throws.                                                     *)
Trail(c, k) == 128 + ((c \div Place(k)) % 64)

EncodeU8(c) ==
    CASE c <= 127                    -> <<c>>
      [] Between(c, 128, 2047)       -> <<192 + (c \div 64), Trail(c, 0)>>
      [] Between(c, 2048, 65535)     -> <<224 + (c \div 4096), Trail(c, 1), Trail(c, 0)>>
      [] Between(c, 65536, 1114111)  ->
            <<240 + (c \div 262144), Trail(c, 2), Trail(c, 1), Trail(c, 0)>>
      [] c > 1114111                 -> <<>>

\* Mutant: no surrogates.
EncodeU16Plain(c) == <<c % 65536>>
EncodeU16(c) ==
    IF c > 65535 \/ HighSurrogate(c)
    THEN <<55296 + (((c - 65536) \div 1024) % 1024), 56320 + (c % 1024)>>
    ELSE <<c % 65536>>

Encode(to, c) ==
    CASE to = "u8"  -> EncodeU8(c)
      [] to = "u16" -> EncodeU16(c)
      [] to = "u32" -> <<c>>

-----------------------------------------------------------------------------
(* The C library in a UTF-8 locale.                                        *)

(* The well-formed byte sequences of the Unicode standard, as ranges.      *)
WellFormedTable ==
    {<<0..127>>, <<194..223, 128..191>>,
     <<{224}, 160..191, 128..191>>, <<225..236, 128..191, 128..191>>,
     <<{237}, 128..159, 128..191>>, <<238..239, 128..191, 128..191>>,
     <<{240}, 144..191, 128..191, 128..191>>,
     <<241..243, 128..191, 128..191, 128..191>>,
     <<{244}, 128..143, 128..191, 128..191>>}

Fits(b, row) == Len(b) <= Len(row) /\ \A i \in 1..Len(b) : b[i] \in row[i]
WellFormed(b) == \E row \in WellFormedTable : Len(b) = Len(row) /\ Fits(b, row)

(* The number that the bits of a well-formed sequence are.                 *)
ValueOf(b) ==
    CASE Len(b) = 1 -> b[1]
      [] Len(b) = 2 -> ((b[1] % 32) * 64) + (b[2] % 64)
      [] Len(b) = 3 -> ((b[1] % 16) * 4096) + ((b[2] % 64) * 64) + (b[3] % 64)
      [] Len(b) = 4 -> ((b[1] % 8) * 262144) + ((b[2] % 64) * 4096)
                       + ((b[3] % 64) * 64) + (b[4] % 64)

Scalar(c) == Between(c, 0, 55295) \/ Between(c, 57344, 1114111)

(* mbrtoc32, mbrtowc: how many bytes form a character, 0 if they are not   *)
(* enough, -1 if they cannot.                                              *)
MbLength(s, i) ==
    LET fitting == {n \in 1..Min({4, Len(s) - i + 1}) : WellFormed(SubSeq(s, i, i + n - 1))}
    IN  IF fitting /= {} THEN Min(fitting)
        ELSE IF \E row \in WellFormedTable : Fits(SubSeq(s, i, Len(s)), row) THEN 0
        ELSE -1

(* c32rtomb, wcrtomb: nothing if there is no such character.               *)
ToMb(c) == IF Scalar(c) THEN EncodeU8(c) ELSE <<>>

-----------------------------------------------------------------------------
(* The loops of change_encoding_impl.                                      *)

From == path[leg]
To == path[leg + 1]
Reading(from, to) ==
    status = "running" /\ it <= Len(input) /\ From \in from /\ To \in to
Utf == {"u8", "u16", "u32"}

Keep == UNCHANGED <<path, text, leg, input>>

(* A round that reads up to next and appends units.                        *)
Appends(units, next) ==
    /\ chunks' = Append(chunks, units) /\ it' = next
    /\ Keep /\ UNCHANGED <<status, pending>>
Throws(what) ==
    /\ status' = what
    /\ Keep /\ UNCHANGED <<it, chunks, pending>>

Init ==
    /\ path \in Paths
    /\ text \in UNION {[1..n -> Units(path[1])] : n \in 0..MaxUnits}
    /\ leg = 1 /\ input = text /\ it = 1 /\ chunks = <<>>
    /\ pending = 0 /\ status = "running"

UtfToUtf ==
    /\ Reading(Utf, Utf)
    /\ LET got   == Decode(From, input, it)
           units == Encode(To, got.code)
       IN  IF units = <<>> THEN Throws("length_error")
           ELSE Appends(units, got.next)

(* From UTF-8 and UTF-32; UTF-32 has one unit per character.               *)
UtfToMb ==
    /\ Reading({"u8", "u32"}, {"mb"})
    /\ LET got == Decode(From, input, it)
       IN  IF ToMb(got.code) = <<>> THEN Throws("invalid_argument")
           ELSE Appends(ToMb(got.code), got.next)

(* From UTF-16, c16rtomb takes one unit and remembers a high surrogate.    *)
U16ToMb ==
    /\ Reading({"u16"}, {"mb"})
    /\ LET u == input[it]
           c == IF pending = 0 THEN u
                ELSE 65536 + ((pending % 1024) * 1024) + (u % 1024)
       IN  IF pending = 0 /\ HighSurrogate(u)
           THEN /\ it' = it + 1 /\ pending' = u
                /\ Keep /\ UNCHANGED <<chunks, status>>
           ELSE IF ToMb(c) = <<>> \/ (pending /= 0 /\ u \div 1024 /= 55)
           THEN Throws("invalid_argument")
           ELSE /\ chunks' = Append(chunks, ToMb(c)) /\ it' = it + 1 /\ pending' = 0
                /\ Keep /\ UNCHANGED status

\* Mutant: a character that is cut off is no error.
MbToAnyCutOff ==
    /\ Reading({"mb"}, Utf \cup {"wide"})
    /\ LET n == MbLength(input, it)
           c == ValueOf(SubSeq(input, it, it + n - 1))
       IN  CASE n = 0  -> UNCHANGED vars
             [] n = -1 -> Throws("runtime_error")
             [] n > 0  -> Appends(IF To = "wide" THEN <<c>> ELSE Encode(To, c), it + n)
MbToAny ==
    /\ Reading({"mb"}, Utf \cup {"wide"})
    /\ LET n == MbLength(input, it)
           c == ValueOf(SubSeq(input, it, it + n - 1))
       IN  CASE n = 0  -> Throws("invalid_argument")
             [] n = -1 -> Throws("runtime_error")
             [] n > 0  -> Appends(IF To = "wide" THEN <<c>> ELSE Encode(To, c), it + n)

(* The input moves on by as many units as bytes were written.              *)
WideToMb ==
    /\ Reading({"wide"}, {"mb"})
    /\ IF ToMb(input[it]) = <<>> THEN Throws("invalid_argument")
       ELSE Appends(ToMb(input[it]), it + Len(ToMb(input[it])))

(* At the end of the input, the next conversion begins.                    *)
Output == FlattenSeq(chunks)
NextLeg ==
    /\ status = "running" /\ it = Len(input) + 1
    /\ IF leg + 1 = Len(path)
       THEN status' = "done" /\ UNCHANGED <<leg, input, it, chunks, pending>>
       ELSE /\ leg' = leg + 1 /\ input' = Output /\ it' = 1
            /\ chunks' = <<>> /\ pending' = 0 /\ UNCHANGED status
    /\ UNCHANGED <<path, text>>

Next == UtfToUtf \/ UtfToMb \/ U16ToMb \/ MbToAny \/ WideToMb \/ NextLeg

(* One thread, which goes on.                                              *)
Spec == Init /\ [][Next]_vars /\ WF_vars(Next)

-----------------------------------------------------------------------------
(* A text of real characters, given as code points.                        *)
RealText == path[1] = "u32" /\ \A i \in DOMAIN text : Scalar(text[i])

(* A unit sequence is the standard's encoding of a code point.             *)
Represents(enc, units, c) ==
    CASE enc \in {"u8", "mb"} -> WellFormed(units) /\ ValueOf(units) = c
      [] enc = "u16" -> \/ units = <<c>> /\ c < 65536
                        \/ /\ Len(units) = 2
                           /\ Between(units[1], 55296, 56319) /\ Between(units[2], 56320, 57343)
                           /\ c = 65536 + ((units[1] - 55296) * 1024) + (units[2] - 56320)
      [] enc \in {"u32", "wide"} -> units = <<c>>

(* Whatever conversions a text goes through, what each has appended so far *)
(* is the characters of the text from the first on, each as the Unicode    *)
(* standard encodes it: no character is split, merged, skipped or          *)
(* lengthened, and none makes a conversion throw.                          *)
Faithful ==
    RealText =>
        /\ Len(chunks) <= Len(text)
        /\ \A i \in DOMAIN chunks : Represents(To, chunks[i], text[i])
        /\ status \in {"running", "done"}
        /\ status = "done" => Len(chunks) = Len(text)

(* What was converted and converted back is what it was (the test's        *)
(* CompareRoundtrip).                                                      *)
RoundTrips == RealText /\ status = "done" /\ To = "u32" => Output = text

(* No conversion reads past the end of its input, whatever the input is.   *)
StaysInside == it <= Len(input) + 1

(* Every conversion comes to its end, whatever the input is.               *)
Ends == <>(status /= "running")
=============================================================================
