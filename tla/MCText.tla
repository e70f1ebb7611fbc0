------------------------------- MODULE MCText -------------------------------
(* Instances of Codecvt, MemStream and IndentingOstream.  They share no     *)
(* state: each behaviour is one of one of them.  The variables of the       *)
(* conversions, or of the streams, stay as they are meanwhile.              *)
EXTENDS MCCodecvt

CONSTANTS Size, Chars, Blank, EofChar, MaxExisting, MinArea,
          Room, MaxBlock, MaxIndent

\* Less than half of a stream's buffer exists, and no put area is empty: with
\* pend = buf + size - existing, and with room counted as pend - pcur - 1, the
\* positions would otherwise leave their areas.
ASSUME StreamAssumption ==
    /\ Size \in Nat /\ MinArea \in Nat \ {0}
    /\ MaxExisting \in Nat /\ 2 * MaxExisting < Size

ASSUME LinesAssumption == Room \in Nat /\ MaxBlock \in Nat /\ MaxIndent \in Nat

\* Wide characters are converted only where a text begins with them, and only
\* if each is one byte long: the loop goes on by bytes (see MCCodecvtWide).
ASSUME WideAssumption ==
    \A p \in Paths :
        /\ \A i \in 2..Len(p) - 1 : p[i] /= "wide"
        /\ Len(p) >= 2 /\ p[1] = "wide" => Units("wide") \subseteq 0..127

VARIABLES component, bytes, pbeg, pcur, pend, gbeg, gcur, gend, told

Stream == INSTANCE MemStream
Lines == INSTANCE IndentingOstream WITH
    Letters <- Chars, Newline <- Blank,
    indent <- pbeg, under <- bytes, rest <- gbeg, owed <- gend
streamVars == <<bytes, pbeg, pcur, pend, gbeg, gcur, gend, told>>

ConversionInit ==
    /\ component = "conversion" /\ Init
    /\ bytes = <<>> /\ told = <<>>
    /\ pbeg = 0 /\ pcur = 0 /\ pend = 0 /\ gbeg = 0 /\ gcur = 0 /\ gend = 0

StreamInit ==
    /\ \/ component = "stream" /\ Stream!Init
       \/ component = "lines" /\ Lines!Init /\ pcur = 0 /\ pend = 0 /\ gcur = 0 /\ told = <<>>
    /\ path = <<>> /\ text = <<>> /\ leg = 1 /\ input = <<>> /\ it = 1
    /\ chunks = <<>> /\ pending = 0 /\ status = "done"

ConversionNext ==
    /\ component = "conversion" /\ Next
    /\ UNCHANGED <<component, streamVars>>

StreamNext ==
    /\ component = "stream" /\ Stream!Next
    /\ UNCHANGED <<component, vars>>

LinesNext ==
    /\ component = "lines" /\ Lines!Next
    /\ UNCHANGED <<component, vars, pcur, pend, gcur, told>>

AllVars == <<component, vars, streamVars>>

(* Conversions are fair; nothing makes a program use its streams.          *)
TextSpec ==
    /\ ConversionInit \/ StreamInit
    /\ [][ConversionNext \/ StreamNext \/ LinesNext]_AllVars
    /\ WF_AllVars(ConversionNext)

-----------------------------------------------------------------------------
(* Converting a text of real characters: Faithful of Codecvt.              *)
ConversionsAreFaithful == component = "conversion" => Faithful

(* The positions that tellp and tellg report are ones seekpos admits.      *)
ToldPositionsAreAdmitted ==
    component = "stream" => Stream!ToldPositionsAreAdmitted

(* A text is indented the same however it is cut into writes.              *)
IndentsEveryLine == component = "lines" => Lines!IndentsEveryLine

(* Every call of the stream does to the buffer and answers what the same    *)
(* call of one file does.                                                   *)
ImplementsFile ==
    /\ component = "stream" => Stream!File!Init
    /\ [][component = "stream" => Stream!File!Next \/ UNCHANGED streamVars]_AllVars
=============================================================================
