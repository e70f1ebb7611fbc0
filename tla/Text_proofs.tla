---------------------------- MODULE Text_proofs ----------------------------
(***************************************************************************)
(* Proofs about the text parts of the library, for any size of buffers,    *)
(* blocks and texts: memstream, which implements one file, codecvt and     *)
(* indenting_ostream.                                                      *)
(***************************************************************************)
EXTENDS MCText, Induction_proofs, SequenceTheorems

\* A step of the text parts is one of the part that runs, or of none.
LEMMA OneTextRuns ==
    ASSUME [ConversionNext \/ StreamNext \/ LinesNext]_AllVars
    PROVE  /\ component' = component
           /\ component = "conversion" => Next \/ UNCHANGED vars
           /\ component = "stream" => Stream!Next \/ UNCHANGED streamVars
           /\ component = "lines" => Lines!Next \/ UNCHANGED streamVars
<1>1. CASE UNCHANGED AllVars
  BY <1>1 DEF AllVars
<1>2. CASE ConversionNext
  BY <1>2 DEF ConversionNext
<1>3. CASE StreamNext
  BY <1>3 DEF StreamNext
<1>4. CASE LinesNext
  BY <1>4 DEF LinesNext
<1> QED
  BY <1>1, <1>2, <1>3, <1>4

\* The part of a behaviour is one of three, and has its own initial states.
LEMMA OneTextBegins ==
    ASSUME ConversionInit \/ StreamInit
    PROVE  /\ component = "conversion" => Init
           /\ component = "stream" => Stream!Init
           /\ component = "lines" => Lines!Init
BY DEF ConversionInit, StreamInit
-----------------------------------------------------------------------------
(* memstream.                                                              *)

\* The positions are inside their areas, the areas inside the buffer, and the
\* put area is never empty.
StreamInv ==
    /\ pbeg \in Nat /\ pcur \in Nat /\ pend \in Nat /\ gcur \in Nat /\ gend \in Nat
    /\ pbeg <= pcur /\ pcur <= pend /\ pbeg < pend /\ pend <= Size
    /\ gbeg = 0 /\ gcur <= gend /\ gend <= Size
    /\ bytes = [i \in 1..Size |-> bytes[i]]

\* A new stream has them there.
LEMMA StreamBegins == Stream!Init => StreamInv
<1> SUFFICES ASSUME NEW existing \in 0..MaxExisting, Stream!Construct(existing),
                    bytes = [i \in 1..Size |-> Blank]
             PROVE  StreamInv
  BY DEF Stream!Init
<1>1. existing \in Nat /\ existing <= Size - existing /\ existing < Size - existing
      /\ Size - existing <= Size /\ Size - existing \in Nat
  BY StreamAssumption
<1>2. bytes = [i \in 1..Size |-> bytes[i]]
  OBVIOUS
<1>3. /\ pbeg = existing /\ pcur = existing /\ pend = Size - existing
      /\ gbeg = 0 /\ gcur = 0 /\ gend = existing
  BY DEF Stream!Construct
<1> QED
  BY <1>1, <1>2, <1>3, StreamAssumption DEF StreamInv

\* The larger of two numbers.
LEMMA LargerOfTwo ==
    ASSUME NEW a \in Int, NEW b \in Int
    PROVE  Stream!Max({a, b}) = IF a > b THEN a ELSE b
<1> DEFINE m == IF a > b THEN a ELSE b
<1>1. m \in {a, b} /\ \A y \in {a, b} : m >= y
  OBVIOUS
<1>2. \A x \in {a, b} : (\A y \in {a, b} : x >= y) => x = m
  OBVIOUS
<1> QED
  BY <1>1, <1>2 DEF Stream!Max

\* And the smaller of them.
LEMMA SmallerOfTwo ==
    ASSUME NEW a \in Int, NEW b \in Int
    PROVE  Stream!Min({a, b}) = IF a < b THEN a ELSE b
<1> DEFINE m == IF a < b THEN a ELSE b
<1>1. m \in {a, b} /\ \A y \in {a, b} : m <= y
  OBVIOUS
<1>2. \A x \in {a, b} : (\A y \in {a, b} : x <= y) => x = m
  OBVIOUS
<1> QED
  BY <1>1, <1>2 DEF Stream!Min

\* A set of small numbers has a least one.
LEMMA LeastOfFew ==
    ASSUME NEW S, S \subseteq 0..3, S # {}
    PROVE  Stream!Min(S) \in S /\ \A y \in S : Stream!Min(S) <= y
<1>1. \E x \in S : \A y \in S : x <= y
  <2>1. CASE 0 \in S
    BY <2>1
  <2>2. CASE 0 \notin S /\ 1 \in S
    BY <2>2
  <2>3. CASE 0 \notin S /\ 1 \notin S /\ 2 \in S
    BY <2>3
  <2>4. CASE 0 \notin S /\ 1 \notin S /\ 2 \notin S
    <3>1. PICK x \in S : x \in 0..3
      OBVIOUS
    <3>2. S \subseteq {3} /\ x = 3
      BY <2>4, <3>1
    <3> QED
      BY <3>2
  <2> QED
    BY <2>1, <2>2, <2>3, <2>4
<1> QED
  BY <1>1 DEF Stream!Min

\* The first n characters of a block are what goes into so much room: none of
\* them ends the block, and the next one does, or there is no room for it.
Goes(s, n, room) ==
    /\ n \in 0..Len(s) /\ n <= room /\ \A i \in 1..n : s[i] # EofChar
    /\ n < Len(s) => n = room \/ s[n + 1] = EofChar

\* What xsputn stores: as much as goes into the put area; but minus one
\* character if the area is full.
LEMMA CountFits ==
    ASSUME StreamInv, NEW s \in Stream!Blocks
    PROVE  /\ Len(s) \in 1..3
           /\ \/ pcur = pend /\ Stream!Count(s) = -1
              \/ pcur < pend /\ Goes(s, Stream!Count(s), pend - pcur - 1)
<1>1. s \in [1..Len(s) -> Chars] /\ Len(s) \in 1..3
  <2>1. PICK n \in 1..3 : s \in [1..n -> Chars]
    BY DEF Stream!Blocks
  <2>2. s \in Seq(Chars) /\ Len(s) = n
    BY <2>1
  <2> QED
    BY <2>1, <2>2
<1>2. pend \in Int /\ pcur \in Int /\ pcur <= pend /\ Len(s) \in Int
  BY <1>1 DEF StreamInv
<1> DEFINE fitting == Stream!Fitting(s)
           stops == {i - 1 : i \in {j \in 1..fitting : s[j] = EofChar}}
<1>3. fitting = IF Len(s) < pend - pcur - 1 THEN Len(s) ELSE pend - pcur - 1
  BY <1>2, SmallerOfTwo DEF Stream!Fitting, Stream!Remaining
<1>4. Stream!Count(s) = Stream!Min({fitting} \cup stops)
  BY DEF Stream!Count
<1> HIDE DEF fitting
<1>5. CASE pcur = pend
  <2>1. fitting = -1
    BY <1>1, <1>2, <1>3, <1>5
  <2>2. {fitting} \cup stops = {-1, -1}
    BY <2>1
  <2>3. Stream!Min({-1, -1}) = -1
    BY SmallerOfTwo
  <2> QED
    BY <1>1, <1>4, <1>5, <2>2, <2>3
<1>6. CASE pcur < pend
  <2> DEFINE room == pend - pcur - 1
             count == Stream!Count(s)
  <2>1. /\ fitting \in 0..Len(s) /\ fitting \in 0..3 /\ room \in Int
        /\ fitting <= room /\ (fitting < Len(s) => fitting = room)
    BY <1>1, <1>2, <1>3, <1>6, SMTT(30)
  <2>2. {fitting} \cup stops \subseteq 0..3
    BY <2>1
  <2>3. count \in {fitting} \cup stops /\ \A y \in {fitting} \cup stops : count <= y
    BY <1>4, <2>2, LeastOfFew
  <2> HIDE DEF count, room
  <2>4. count \in 0..fitting
    BY <2>1, <2>3
  <2>5. ASSUME NEW i \in 1..count PROVE s[i] # EofChar
    <3> SUFFICES ASSUME s[i] = EofChar PROVE FALSE
      OBVIOUS
    <3>1. i \in 1..fitting
      BY <2>1, <2>4
    <3>2. i - 1 \in stops
      BY <3>1
    <3>3. count <= i - 1
      BY <2>3, <3>2
    <3> QED
      BY <2>1, <2>4, <3>3
  <2>6. ASSUME count < Len(s) PROVE count = room \/ s[count + 1] = EofChar
    <3>1. CASE count = fitting
      BY <2>1, <2>6, <3>1
    <3>2. CASE count \in stops
      <4>1. PICK i \in 1..fitting : s[i] = EofChar /\ count = i - 1
        BY <3>2
      <4>2. i = count + 1
        BY <2>1, <4>1
      <4> QED
        BY <4>1, <4>2
    <3> QED
      BY <2>3, <3>1, <3>2
  <2>7. Goes(s, count, room)
    BY <1>1, <2>1, <2>4, <2>5, <2>6 DEF Goes
  <2> QED
    BY <1>1, <1>6, <2>7 DEF count, room
<1> QED
  BY <1>1, <1>2, <1>5, <1>6

\* What a block leaves in the buffer.
LEMMA StoredBytes ==
    ASSUME NEW s, NEW n
    PROVE  Stream!Stored(s, n, pcur) = Stream!File!With(s, n)
BY DEF Stream!Stored, Stream!File!With

\* A block is written as into a file.
LEMMA BlocksAreWritten ==
    ASSUME StreamInv, NEW s \in Stream!Blocks, Stream!XSPutN(s)
    PROVE  StreamInv' /\ (Stream!File!WriteBlock(s) \/ Stream!File!Refuse(s))
<1> USE DEF StreamInv
<1> DEFINE count == Stream!Count(s)
<1>1. /\ bytes' = Stream!Stored(s, count, pcur) /\ pbeg' = pbeg /\ pcur' = pcur + count
      /\ pend' = pend /\ gbeg' = gbeg /\ gcur' = gcur /\ gend' = Stream!Max({pcur', gend})
      /\ told' = <<"write", s, count>>
  BY DEF Stream!XSPutN, Stream!SetP, Stream!SetG, Stream!UpdateGetAreaSize
<1>2. /\ Len(s) \in 1..3
      /\ \/ pcur = pend /\ count = -1
         \/ pcur < pend /\ Goes(s, count, pend - pcur - 1)
  BY CountFits
<1> HIDE DEF count
<1>3. count \in Int /\ count <= pend - pcur - 1 /\ (count >= 0 \/ (pcur = pend /\ count = -1))
  BY <1>2 DEF Goes, StreamInv
<1>4. pcur' \in pbeg..pend /\ pcur' \in Nat
  BY <1>1, <1>3
<1>5. gend' = Stream!File!Longer(pcur') /\ gend' \in gend..Size
  <2>1. gend' = IF pcur' > gend THEN pcur' ELSE gend
    BY <1>1, <1>4, LargerOfTwo
  <2>2. pcur' <= Size /\ gend <= Size /\ gend \in Nat /\ Size \in Nat
    BY <1>4, StreamAssumption
  <2> QED
    BY <1>4, <2>1, <2>2 DEF Stream!File!Longer
<1>6. bytes' = [i \in 1..Size |-> IF i - pcur \in 1..count THEN s[i - pcur] ELSE bytes[i]]
  BY <1>1 DEF Stream!Stored
<1>7. StreamInv'
  BY <1>1, <1>4, <1>5, <1>6
<1>8. CASE pcur = pend /\ count = -1
  <2>1. bytes' = bytes
    BY <1>6, <1>8
  <2> QED
    BY <1>1, <1>5, <1>7, <1>8, <2>1 DEF Stream!File!Refuse
<1>9. CASE pcur < pend /\ Goes(s, count, pend - pcur - 1)
  <2>1. bytes' = Stream!File!With(s, count)
    BY <1>1, StoredBytes
  <2>2. Stream!File!WriteBlock(s)
    BY <1>1, <1>5, <1>9, <2>1 DEF Stream!File!WriteBlock, Goes
  <2> QED
    BY <1>7, <2>2
<1> QED
  BY <1>2, <1>8, <1>9

\* A character is put as into a file.
LEMMA CharactersArePut ==
    ASSUME StreamInv, NEW c \in Chars, Stream!PutChar(c)
    PROVE  StreamInv' /\ (Stream!File!Put(c) \/ Stream!File!RefusePut(c))
<1> USE DEF StreamInv
<1>1. gbeg' = gbeg /\ gcur' = gcur /\ gend' = gend /\ told' = <<"put", c, pcur < pend>>
  BY DEF Stream!PutChar, Stream!KeepG
<1>2. CASE pcur < pend
  <2>1. bytes' = Stream!Stored(<<c>>, 1, pcur) /\ pbeg' = pbeg /\ pcur' = pcur + 1 /\ pend' = pend
    BY <1>2 DEF Stream!PutChar, Stream!SetP
  <2>2. StreamInv'
    <3>1. pcur' \in Nat /\ pbeg <= pcur' /\ pcur' <= pend
      BY <1>2, <2>1
    <3>2. bytes' = [i \in 1..Size |-> bytes'[i]]
      BY <2>1 DEF Stream!Stored
    <3> QED
      BY <1>1, <2>1, <3>1, <3>2
  <2>3. told' = <<"put", c, TRUE>>
    BY <1>1, <1>2
  <2>4. bytes' = Stream!File!With(<<c>>, 1)
    BY <2>1, StoredBytes
  <2> QED
    BY <1>1, <1>2, <2>1, <2>2, <2>3, <2>4 DEF Stream!File!Put
<1>3. CASE pcur = pend
  <2>1. UNCHANGED <<bytes, pbeg, pcur, pend>>
    BY <1>3 DEF Stream!PutChar, Stream!KeepP
  <2>2. told' = <<"put", c, FALSE>>
    <3>1. (pcur < pend) = FALSE
      BY <1>3
    <3> QED
      BY <1>1, <3>1
  <2> QED
    BY <1>1, <1>3, <2>1, <2>2 DEF Stream!File!RefusePut
<1> QED
  BY <1>2, <1>3

\* A seek of either kind keeps the areas, and moves to the positions asked for.
LEMMA SeeksMove ==
    ASSUME StreamInv, NEW which, NEW getPos, NEW putPos, Stream!SeekTo(which, getPos, putPos)
    PROVE  /\ StreamInv' /\ bytes' = bytes /\ pbeg' = pbeg /\ pend' = pend /\ gend' = gend
           /\ IF "in" \in which THEN getPos \in 0..gend /\ gcur' = getPos ELSE gcur' = gcur
           /\ IF "out" \in which THEN putPos \in 0..(pend - pbeg) /\ pcur' = pbeg + putPos
                                 ELSE pcur' = pcur
<1> USE DEF StreamInv
<1>1. /\ gbeg' = gbeg /\ gend' = gend
      /\ IF "in" \in which THEN getPos \in 0..gend /\ gcur' = getPos ELSE gcur' = gcur
  <2>1. CASE "in" \in which
    <3>1. gend - gbeg = gend /\ \A pos \in 0..gend : gbeg + pos = pos
      OBVIOUS
    <3> QED
      BY <2>1, <3>1 DEF Stream!SeekTo, Stream!GetAt, Stream!SetG
  <2>2. CASE "in" \notin which
    BY <2>2 DEF Stream!SeekTo, Stream!KeepG
  <2> QED
    BY <2>1, <2>2
<1>2. /\ pbeg' = pbeg /\ pend' = pend
      /\ IF "out" \in which THEN putPos \in 0..(pend - pbeg) /\ pcur' = pbeg + putPos
                            ELSE pcur' = pcur
  <2>1. CASE "out" \in which
    BY <2>1 DEF Stream!SeekTo, Stream!PutAt, Stream!SetP
  <2>2. CASE "out" \notin which
    BY <2>2 DEF Stream!SeekTo, Stream!KeepP
  <2> QED
    BY <2>1, <2>2
<1>3. bytes' = bytes
  BY DEF Stream!SeekTo
<1>4. gcur' \in 0..gend
  BY <1>1
<1>5. pcur' \in pbeg..pend
  BY <1>2
<1> QED
  BY <1>1, <1>2, <1>3, <1>4, <1>5

\* A seek from any origin is the file's.
LEMMA SeeksAreSought ==
    ASSUME StreamInv, NEW off \in (-Size)..Size, NEW which \in Stream!Areas
    PROVE  /\ Stream!SeekPos(off, which) => StreamInv' /\ Stream!File!Seek(off, "beg", which)
           /\ Stream!SeekCur(off, which) => StreamInv' /\ Stream!File!Seek(off, "cur", which)
           /\ Stream!SeekEnd(off, which) => StreamInv' /\ Stream!File!Seek(off, "end", which)
<1>1. gbeg = 0 /\ gcur \in Nat /\ gend \in Nat
  BY DEF StreamInv
<1>2. gcur - gbeg + off = gcur + off /\ gend - gbeg - off = gend - off
  BY <1>1, StreamAssumption
<1>3. ASSUME Stream!SeekPos(off, which) PROVE StreamInv' /\ Stream!File!Seek(off, "beg", which)
  <2>1. /\ Stream!SeekTo(which, off, off)
        /\ told' = <<"seek", off, "beg", which, IF "out" \in which THEN off ELSE off>>
    BY <1>3 DEF Stream!SeekPos, Stream!Told
  <2> QED
    BY <2>1, SeeksMove DEF Stream!File!Seek, Stream!File!Position
<1>4. ASSUME Stream!SeekCur(off, which) PROVE StreamInv' /\ Stream!File!Seek(off, "cur", which)
  <2> DEFINE get == gcur + off
             put == pcur - pbeg + off
  <2>1. /\ Stream!SeekTo(which, get, put) /\ off # 0
        /\ told' = <<"seek", off, "cur", which, IF "out" \in which THEN put ELSE get>>
    BY <1>2, <1>4 DEF Stream!SeekCur, Stream!Told
  <2> QED
    BY <2>1, SeeksMove DEF Stream!File!Seek, Stream!File!Position
<1>5. ASSUME Stream!SeekEnd(off, which) PROVE StreamInv' /\ Stream!File!Seek(off, "end", which)
  <2> DEFINE get == gend - off
             put == pend - pbeg - off
  <2>1. /\ Stream!SeekTo(which, get, put)
        /\ told' = <<"seek", off, "end", which, IF "out" \in which THEN put ELSE get>>
    BY <1>2, <1>5 DEF Stream!SeekEnd, Stream!Told
  <2> QED
    BY <2>1, SeeksMove DEF Stream!File!Seek, Stream!File!Position
<1> QED
  BY <1>3, <1>4, <1>5

\* A step that only answers leaves the invariant.
LEMMA AnswersKeep ==
    ASSUME StreamInv, UNCHANGED <<bytes, pbeg, pcur, pend, gbeg, gcur, gend>>
    PROVE  StreamInv'
BY DEF StreamInv

\* Every step keeps the positions there, and is a step of the file.
LEMMA StreamSteps ==
    ASSUME StreamInv, Stream!Next
    PROVE  StreamInv' /\ Stream!File!Next
<1>1. ASSUME NEW n \in MinArea..Size, Stream!SetBuf(n)
      PROVE  StreamInv' /\ n \in 0..Size /\ Stream!File!Reset(n)
  <2>1. /\ pbeg' = 0 /\ pcur' = 0 /\ pend' = n /\ gbeg' = 0 /\ gcur' = 0 /\ gend' = 0
        /\ bytes' = bytes /\ told' = <<"setbuf", n>>
    BY <1>1 DEF Stream!SetBuf, Stream!SetP, Stream!SetG
  <2> QED
    BY <2>1, StreamAssumption DEF Stream!File!Reset, StreamInv
<1>2. ASSUME NEW off \in (-Size)..Size, NEW which \in Stream!Areas,
             Stream!SeekPos(off, which) \/ Stream!SeekCur(off, which) \/ Stream!SeekEnd(off, which)
      PROVE  StreamInv' /\ Stream!File!Next
  <2>1. PICK origin \in Stream!File!Origins : StreamInv' /\ Stream!File!Seek(off, origin, which)
    BY <1>2, SeeksAreSought DEF Stream!File!Origins
  <2>2. which \in Stream!File!Areas
    BY DEF Stream!Areas, Stream!File!Areas
  <2> QED
    BY <2>1, <2>2 DEF Stream!File!Next
<1>3. ASSUME NEW s \in Stream!Blocks, Stream!XSPutN(s)
      PROVE  StreamInv' /\ (Stream!File!WriteBlock(s) \/ Stream!File!Refuse(s))
  BY <1>3, BlocksAreWritten
<1>4. ASSUME NEW c \in Chars, Stream!PutChar(c)
      PROVE  StreamInv' /\ (Stream!File!Put(c) \/ Stream!File!RefusePut(c))
  BY <1>4, CharactersArePut
<1>5. ASSUME Stream!BumpChar
      PROVE  StreamInv' /\ (Stream!File!Read \/ Stream!File!ReadNothing)
  <2>1. UNCHANGED <<bytes, pbeg, pcur, pend, gbeg, gend>>
    BY <1>5 DEF Stream!BumpChar, Stream!SetG, Stream!KeepP, Stream!KeepG
  <2>2. CASE gcur < gend
    <3>1. gcur' = gcur + 1 /\ told' = <<"read", <<bytes[gcur + 1]>>>>
      BY <1>5, <2>2 DEF Stream!BumpChar, Stream!SetG
    <3> QED
      BY <2>1, <2>2, <3>1 DEF Stream!File!Read, StreamInv
  <2>3. CASE ~(gcur < gend)
    <3>1. gcur = gend /\ gcur' = gcur /\ told' = <<"read", <<>>>>
      BY <1>5, <2>3 DEF Stream!BumpChar, Stream!KeepG
    <3> QED
      BY <2>1, <3>1 DEF Stream!File!ReadNothing, StreamInv
  <2> QED
    BY <2>2, <2>3
<1>6. ASSUME NEW which \in Stream!Areas, Stream!TellPos(which)
      PROVE  StreamInv' /\ Stream!File!Next
  <2>1. /\ UNCHANGED <<bytes, pbeg, pcur, pend, gbeg, gcur, gend>>
        /\ told' = <<"seek", 0, "cur", which, IF "in" \in which THEN gcur - gbeg ELSE pcur - pbeg>>
    BY <1>6 DEF Stream!TellPos, Stream!KeepG, Stream!KeepP
  <2>2. gcur - gbeg = gcur
    BY DEF StreamInv
  <2>3. StreamInv' /\ Stream!File!Tell(which)
    BY <2>1, <2>2, AnswersKeep DEF Stream!File!Tell
  <2>4. which \in Stream!File!Areas
    BY DEF Stream!Areas, Stream!File!Areas
  <2> QED
    BY <2>3, <2>4 DEF Stream!File!Next
<1>7. ASSUME Stream!View \/ Stream!ViewFull, UNCHANGED <<bytes, pbeg, pcur, pend, gbeg, gcur, gend>>
      PROVE  StreamInv' /\ Stream!File!View
  <2>1. gbeg + 1 = 1
    BY DEF StreamInv
  <2> QED
    BY <1>7, <2>1, AnswersKeep DEF Stream!View, Stream!ViewFull, Stream!File!View
<1> QED
  BY <1>1, <1>2, <1>3, <1>4, <1>5, <1>6, <1>7 DEF Stream!Next, Stream!File!Next

\* Whatever is written and sought, the positions that tellp and tellg report are
\* ones that the assertions of seekpos admit.
THEOREM ToldPositionsStayAdmitted == TextSpec => []ToldPositionsAreAdmitted
<1> DEFINE Inv == component = "stream" => StreamInv
<1>1. ConversionInit \/ StreamInit => Inv
  BY OneTextBegins, StreamBegins
<1>2. Inv /\ [ConversionNext \/ StreamNext \/ LinesNext]_AllVars => Inv'
  <2> SUFFICES ASSUME Inv, [ConversionNext \/ StreamNext \/ LinesNext]_AllVars,
                      component = "stream"
               PROVE  StreamInv'
    BY OneTextRuns
  <2>1. CASE Stream!Next
    BY <2>1, StreamSteps
  <2>2. CASE UNCHANGED streamVars
    BY <2>2 DEF streamVars, StreamInv
  <2> QED
    BY <2>1, <2>2, OneTextRuns
<1>3. Inv => ToldPositionsAreAdmitted
  <2> SUFFICES ASSUME StreamInv PROVE Stream!ToldPositionsAreAdmitted
    BY DEF ToldPositionsAreAdmitted
  <2> QED
    BY StreamAssumption DEF StreamInv, Stream!ToldPositionsAreAdmitted
<1> QED
  BY <1>1, <1>2, <1>3, PTL DEF TextSpec

\* A memstream is a file in its buffer: it begins as one, and whatever a call of
\* it is given, it stores, moves and answers as the same call of the file does.
THEOREM StreamsImplementFiles == TextSpec => ImplementsFile
<1> DEFINE Inv == component = "stream" => StreamInv
           Step == component = "stream" => Stream!File!Next \/ UNCHANGED streamVars
<1>1. ConversionInit \/ StreamInit => Inv /\ (component = "stream" => Stream!File!Init)
  <2> SUFFICES ASSUME Stream!Init PROVE StreamInv /\ Stream!File!Init
    BY OneTextBegins
  <2>1. StreamInv
    BY StreamBegins
  <2>2. PICK existing \in 0..MaxExisting : Stream!Construct(existing)
    BY DEF Stream!Init
  <2>3. pcur = existing /\ pbeg = existing /\ gend = existing /\ gcur = 0 /\ told = <<"open", existing>>
    BY <2>2 DEF Stream!Construct
  <2>4. bytes \in [1..Size -> {Blank}]
    BY DEF Stream!Init
  <2> QED
    BY <2>1, <2>3, <2>4, StreamAssumption DEF StreamInv, Stream!File!Init
<1>2. Inv /\ [ConversionNext \/ StreamNext \/ LinesNext]_AllVars => Inv' /\ Step
  <2> SUFFICES ASSUME Inv, [ConversionNext \/ StreamNext \/ LinesNext]_AllVars,
                      component = "stream"
               PROVE  StreamInv' /\ (Stream!File!Next \/ UNCHANGED streamVars)
    BY OneTextRuns
  <2>1. CASE Stream!Next
    BY <2>1, StreamSteps
  <2>2. CASE UNCHANGED streamVars
    BY <2>2 DEF streamVars, StreamInv
  <2> QED
    BY <2>1, <2>2, OneTextRuns
<1>3. Inv /\ [ConversionNext \/ StreamNext \/ LinesNext]_AllVars => [Step]_AllVars
  BY <1>2
<1> QED
  BY <1>1, <1>2, <1>3, PTL DEF TextSpec, ImplementsFile
-----------------------------------------------------------------------------
(* indenting_ostream: pbeg is the indentation, bytes the stream under it,  *)
(* gbeg what xsputn has still to write, and gend what should come out.     *)

Characters == Lines!Characters
Texts == Seq(Characters)

\* s is how t begins.
Begins(s, t) == \E x \in Texts : t = s \o x

\* What the prefixes of a text become, by their lengths.
BecomeOf(s, out) ==
    /\ out \in [0..Len(s) -> Texts] /\ out[0] = <<>>
    /\ \A k \in 1..Len(s) : out[k] = out[k - 1] \o Lines!Indented(s[k])

\* Of the text of the last block, s, the first k characters are through, and
\* what they have become is what came out; if the stream has refused it is how
\* that begins.
LinesInv ==
    /\ pbeg \in Lines!Indents
    /\ bytes \in [text : Texts, bad : BOOLEAN] /\ Len(bytes.text) <= Room
    /\ gbeg \in Texts /\ gend \in Texts
    /\ \E before \in Texts, s \in Texts : \E k \in 0..Len(s), out \in [0..Len(s) -> Texts] :
          /\ BecomeOf(s, out)
          /\ gbeg = SubSeq(s, k + 1, Len(s))
          /\ gend = before \o out[Len(s)]
          /\ IF bytes.bad THEN Begins(bytes.text, before \o out[k])
                          ELSE bytes.text = before \o out[k]

\* Characters become texts.
LEMMA IndentedCharacters ==
    ASSUME pbeg \in Lines!Indents
    PROVE  /\ Lines!Indentation \in Texts
           /\ \A c \in Characters : Lines!Indented(c) \in Texts /\ <<c>> \in Texts
<1>1. pbeg.char \in Characters /\ pbeg.count \in Nat
  BY LinesAssumption DEF Lines!Indents, Characters, Lines!Characters
<1>2. Lines!Indentation \in Texts
  <2>1. Lines!Indentation \in [1..pbeg.count -> Characters]
    BY <1>1 DEF Lines!Indentation
  <2> QED
    BY <1>1, <2>1, SeqDef DEF Texts
<1>3. ASSUME NEW c \in Characters PROVE Lines!Indented(c) \in Texts /\ <<c>> \in Texts
  <2>1. <<c>> \in Texts
    BY DEF Texts
  <2>2. <<c>> \o Lines!Indentation \in Texts
    BY <1>2, <2>1, ConcatProperties DEF Texts
  <2> QED
    BY <2>1, <2>2 DEF Lines!Indented
<1> QED
  BY <1>2, <1>3

\* A text becomes what its longest prefix does.
LEMMA TextBecomes ==
    ASSUME NEW s \in Texts, pbeg \in Lines!Indents
    PROVE  \E out : BecomeOf(s, out) /\ Lines!IndentedText(s) = out[Len(s)]
<1> DEFINE n == Len(s)
           Is(g) == g = [k \in 0..n |-> IF k = 0 THEN <<>> ELSE g[k - 1] \o Lines!Indented(s[k])]
           round(k) == [t \in Texts |-> IF k \in 1..n THEN t \o Lines!Indented(s[k]) ELSE t]
           step == [k \in Nat |-> round(k)]
<1>1. n \in Nat /\ \A k \in 1..n : s[k] \in Characters
  BY LenProperties, ElementOfSeq DEF Texts
<1>2. ASSUME NEW k \in Nat PROVE step[k] \in [Texts -> Texts]
  <2> SUFFICES ASSUME NEW t \in Texts, k \in 1..n PROVE t \o Lines!Indented(s[k]) \in Texts
    OBVIOUS
  <2>1. Lines!Indented(s[k]) \in Texts
    BY <1>1, IndentedCharacters
  <2> QED
    BY <2>1, ConcatProperties DEF Texts
<1>3. \E f : Iterates(Texts, <<>>, step, n, f)
  <2>1. <<>> \in Texts
    BY DEF Texts
  <2> HIDE DEF step, n
  <2> QED
    BY <1>1, <1>2, <2>1, Iteration
<1>4. PICK f \in [0..n -> Texts] : f[0] = <<>> /\ \A k \in 1..n : f[k] = step[k][f[k - 1]]
  BY <1>3 DEF Iterates
<1>5. ASSUME NEW k \in 1..n PROVE f[k] = f[k - 1] \o Lines!Indented(s[k])
  <2>1. f[k - 1] \in Texts /\ k \in Nat
    BY <1>1
  <2>2. step[k][f[k - 1]] = f[k - 1] \o Lines!Indented(s[k])
    BY <2>1
  <2> QED
    BY <1>4, <2>2
<1> HIDE DEF step
<1>6. Is(f)
  <2>1. ASSUME NEW k \in 0..n
        PROVE  f[k] = IF k = 0 THEN <<>> ELSE f[k - 1] \o Lines!Indented(s[k])
    <3>1. CASE k = 0
      BY <1>4, <3>1
    <3>2. CASE k # 0
      <4>1. k \in 1..n
        BY <1>1, <3>2
      <4> QED
        BY <1>5, <3>2, <4>1
    <3> QED
      BY <3>1, <3>2
  <2> QED
    BY <2>1
<1> DEFINE out == CHOOSE g : Is(g)
<1>7. out = [k \in 0..n |-> IF k = 0 THEN <<>> ELSE out[k - 1] \o Lines!Indented(s[k])]
  <2> HIDE DEF Is
  <2>1. Is(out)
    BY <1>6
  <2> QED
    BY <2>1 DEF Is
<1>8. Lines!IndentedText(s) = out[n]
  BY DEF Lines!IndentedText
<1> HIDE DEF out
<1> DEFINE S == {k \in Nat : k <= n => out[k] = f[k]}
<1>9. 0 \in S
  BY <1>1, <1>4, <1>7
<1>10. ASSUME NEW k \in Nat, k \in S PROVE k + 1 \in S
  <2> SUFFICES ASSUME k + 1 <= n PROVE out[k + 1] = f[k + 1]
    OBVIOUS
  <2>1. k + 1 \in 0..n /\ k + 1 \in 1..n /\ k + 1 # 0 /\ (k + 1) - 1 = k /\ out[k] = f[k]
    BY <1>1, <1>10
  <2>2. out[k + 1] = out[k] \o Lines!Indented(s[k + 1])
    BY <1>7, <2>1
  <2>3. f[k + 1] = f[k] \o Lines!Indented(s[k + 1])
    BY <1>5, <2>1
  <2> QED
    BY <2>1, <2>2, <2>3
<1> HIDE DEF S
<1>11. Nat \subseteq S
  BY <1>9, <1>10, InductionOnSet
<1>12. out[n] = f[n]
  BY <1>1, <1>11 DEF S
<1> HIDE DEF n
<1>13. BecomeOf(s, f)
  BY <1>4, <1>5 DEF BecomeOf, n
<1> QED
  BY <1>8, <1>12, <1>13 DEF n

\* What is put behind a beginning begins with it.
LEMMA BeginsWith ==
    ASSUME NEW s \in Texts, NEW t \in Texts, NEW u \in Texts
    PROVE  /\ Begins(s, s) /\ Begins(s, s \o t) /\ s \o t \in Texts
           /\ Begins(s, t) => Begins(s, t \o u)
<1>1. s = s \o <<>> /\ <<>> \in Texts
  BY ConcatEmptySeq DEF Texts
<1>2. s \o t \in Texts
  BY ConcatProperties DEF Texts
<1>3. ASSUME NEW x \in Texts, t = s \o x PROVE t \o u = s \o (x \o u) /\ x \o u \in Texts
  <2>1. t \o u = s \o (x \o u)
    BY <1>3, ConcatAssociative DEF Texts
  <2>2. x \o u \in Texts
    BY ConcatProperties DEF Texts
  <2> QED
    BY <2>1, <2>2
<1> QED
  BY <1>1, <1>2, <1>3 DEF Begins

\* To begin with is to have as a prefix.
LEMMA BeginsIsPrefix ==
    ASSUME NEW s \in Texts, NEW t \in Texts, Begins(s, t)
    PROVE  Lines!IsPrefix(s, t)
<1>1. PICK x \in Texts : t = s \o x
  BY DEF Begins
<1>2. Len(s) \in Nat /\ Len(x) \in Nat /\ Len(t) = Len(s) + Len(x)
  BY <1>1, ConcatProperties, LenProperties DEF Texts
<1>3. SubSeq(s, 1, Len(s)) = SubSeq(t, 1, Len(s))
  <2>1. CASE Len(s) = 0
    BY <2>1, SubSeqEmpty
  <2>2. CASE Len(s) # 0
    <3>1. 1 \in 1..Len(s) /\ Len(s) \in 1..Len(s)
      BY <1>2, <2>2
    <3> QED
      BY <1>1, <3>1, SubSeqOfConcat1 DEF Texts
  <2> QED
    BY <2>1, <2>2
<1> QED
  BY <1>2, <1>3 DEF Lines!IsPrefix

\* The stream under it takes a text, or how it begins and no more afterwards.
LEMMA WrittenBegins ==
    ASSUME bytes \in [text : Texts, bad : BOOLEAN], Len(bytes.text) <= Room, NEW x \in Texts
    PROVE  LET w == Lines!Written(x)
           IN  /\ w \in [text : Texts, bad : BOOLEAN] /\ Len(w.text) <= Room
               /\ bytes.bad => w = bytes
               /\ ~bytes.bad => IF w.bad THEN Begins(w.text, bytes.text \o x)
                                         ELSE w.text = bytes.text \o x
<1> DEFINE t == bytes.text
           left == Room - Len(t)
           fitting == Lines!Min({Len(x), left})
<1>1. t \in Texts /\ Len(t) \in Nat /\ Len(x) \in Nat /\ Room \in Nat /\ left \in Nat
  BY LenProperties, LinesAssumption DEF Texts
<1>2. CASE bytes.bad
  BY <1>2 DEF Lines!Written
<1>3. CASE ~bytes.bad
  <2>1. fitting = IF Len(x) < left THEN Len(x) ELSE left
    <3> DEFINE a == Len(x)
    <3> HIDE DEF a, left
    <3>1. Lines!Min({a, left}) = IF a < left THEN a ELSE left
      <4> DEFINE m == IF a < left THEN a ELSE left
      <4>1. m \in {a, left} /\ \A y \in {a, left} : m <= y
        BY <1>1 DEF a
      <4>2. \A z \in {a, left} : (\A y \in {a, left} : z <= y) => z = m
        BY <1>1 DEF a
      <4> QED
        BY <4>1, <4>2 DEF Lines!Min
    <3> QED
      BY <3>1 DEF a
  <2> DEFINE w == Lines!Written(x)
             cut == fitting < Len(x)
  <2>0. w = [text |-> t \o SubSeq(x, 1, fitting), bad |-> cut]
    BY <1>3 DEF Lines!Written
  <2>2. w.text = t \o SubSeq(x, 1, fitting) /\ w.bad = cut /\ cut \in BOOLEAN
        /\ w = [text |-> w.text, bad |-> w.bad]
    <3>1. cut \in BOOLEAN
      OBVIOUS
    <3> HIDE DEF cut, w, fitting
    <3> QED
      BY <2>0, <3>1
  <2> HIDE DEF fitting
  <2> DEFINE y == SubSeq(x, 1, fitting)
  <2>3. fitting \in 0..Len(x) /\ fitting <= left /\ fitting \in Nat
    BY <1>1, <2>1
  <2>4. y \in Texts /\ Len(y) = fitting
    <3>1. \A i \in 1..fitting : x[i] \in Characters
      BY <1>1, <2>3, ElementOfSeq DEF Texts
    <3>2. 1 \in Int /\ fitting \in Int /\ (1 <= fitting => fitting - 1 + 1 = fitting)
          /\ (~(1 <= fitting) => fitting = 0)
      BY <2>3
    <3>3. y \in Seq(Characters) /\ Len(y) = IF 1 <= fitting THEN fitting - 1 + 1 ELSE 0
      BY <3>1, <3>2, SubSeqProperties
    <3> QED
      BY <3>2, <3>3 DEF Texts
  <2>5. t \o y \in Texts /\ Len(t \o y) = Len(t) + Len(y)
    BY <1>1, <2>4, ConcatProperties DEF Texts
  <2>6. Len(t \o y) <= Room
    BY <1>1, <2>3, <2>4, <2>5
  <2>7. CASE fitting < Len(x)
    <3> DEFINE z == SubSeq(x, fitting + 1, Len(x))
    <3>1. y \o z = x /\ z \in Texts
      <4>1. y \o z = SubSeq(x, 1, Len(x))
        <5>1. 1 \in 1..Len(x) + 1 /\ fitting \in 1 - 1..Len(x) /\ Len(x) \in fitting..Len(x)
          BY <1>1, <2>3
        <5> QED
          BY <5>1, ConcatAdjacentSubSeq DEF Texts
      <4>2. z \in Texts
        <5>1. \A i \in fitting + 1..Len(x) : x[i] \in Characters
          BY <1>1, <2>3, ElementOfSeq DEF Texts
        <5>2. fitting + 1 \in Int /\ Len(x) \in Int
          BY <1>1, <2>3
        <5> QED
          BY <5>1, <5>2, SubSeqProperties DEF Texts
      <4> QED
        BY <4>1, <4>2, SubSeqFull DEF Texts
    <3>2. t \o x = (t \o y) \o z
      <4> HIDE DEF t, y, z
      <4>1. (t \o y) \o z = t \o (y \o z)
        <5>1. t \in Seq(Characters) /\ y \in Seq(Characters) /\ z \in Seq(Characters)
          BY <1>1, <2>4, <3>1 DEF Texts
        <5> QED
          BY <5>1, ConcatAssociative
      <4> QED
        BY <3>1, <4>1
    <3>3. Begins(t \o y, t \o x)
      BY <3>1, <3>2 DEF Begins
    <3> HIDE DEF w, y, cut
    <3>4. w.bad /\ w.text = t \o y
      BY <2>2, <2>7 DEF y, cut
    <3> QED
      BY <1>3, <2>2, <2>5, <2>6, <3>3, <3>4 DEF w
  <2>8. CASE ~(fitting < Len(x))
    <3>1. fitting = Len(x)
      BY <1>1, <2>3, <2>8
    <3>2. y = x
      BY <3>1, SubSeqFull DEF Texts
    <3> HIDE DEF w, y, cut
    <3>3. ~w.bad /\ w.text = t \o y
      BY <2>2, <2>8 DEF y, cut
    <3> QED
      BY <1>3, <2>2, <2>5, <2>6, <3>2, <3>3 DEF w
  <2> QED
    BY <2>7, <2>8
<1> QED
  BY <1>2, <1>3

\* A set of natural numbers has a least one.
LEMMA LeastOfSet ==
    ASSUME NEW S, S \subseteq Nat, S # {}
    PROVE  Lines!Min(S) \in S /\ \A y \in S : Lines!Min(S) <= y
<1>1. PICK n \in S : \A m \in S : ~(<<m, n>> \in OpToRel(<, Nat))
  BY NatLessThanWellFounded, WFMin
<1>2. ASSUME NEW m \in S PROVE n <= m
  <2>1. m \in Nat /\ n \in Nat /\ ~(m < n)
    BY <1>1 DEF OpToRel
  <2> QED
    BY <2>1
<1>3. \E x \in S : \A y \in S : x <= y
  BY <1>2
<1> QED
  BY <1>3 DEF Lines!Min

\* One sequence behind another.
Cat(s, t) == s \o t

\* What is needed to know of that, in a form that can be cited without the
\* elements of sequences.
LEMMA CatLaws ==
    ASSUME NEW C
    PROVE  /\ \A s, t \in Seq(C) : Cat(s, t) \in Seq(C)
           /\ \A s, t, u \in Seq(C) : Cat(Cat(s, t), u) = Cat(s, Cat(t, u))
           /\ <<>> \in Seq(C) /\ \A s \in Seq(C) : Cat(s, <<>>) = s /\ Cat(<<>>, s) = s
<1>1. ASSUME NEW s \in Seq(C), NEW t \in Seq(C) PROVE Cat(s, t) \in Seq(C)
  BY ConcatProperties DEF Cat
<1>2. ASSUME NEW s \in Seq(C), NEW t \in Seq(C), NEW u \in Seq(C)
      PROVE  Cat(Cat(s, t), u) = Cat(s, Cat(t, u))
  BY ConcatAssociative, SMTT(30) DEF Cat
<1>3. <<>> \in Seq(C) /\ \A s \in Seq(C) : Cat(s, <<>>) = s /\ Cat(<<>>, s) = s
  BY ConcatEmptySeq, EmptySeq DEF Cat
<1> QED
  BY <1>1, <1>2, <1>3

\* Where a text of the stream is put together from three, it is no matter
\* which two of them come first.
LEMMA ThreeTexts ==
    \A s, t, u \in Texts : Cat(s, Cat(t, u)) = Cat(Cat(s, t), u) /\ Cat(s, t) \in Texts
<1> SUFFICES ASSUME NEW s \in Texts, NEW t \in Texts, NEW u \in Texts
             PROVE  Cat(s, Cat(t, u)) = Cat(Cat(s, t), u) /\ Cat(s, t) \in Texts
  OBVIOUS
<1> QED
  BY CatLaws DEF Texts

\* What a round of xsputn writes of the rest of a block, and what it leaves.
Newlines(rest) == {i \in DOMAIN rest : rest[i] = Blank}
Offset(rest) == IF Newlines(rest) = {} THEN Len(rest) ELSE Lines!Min(Newlines(rest))
LineOf(rest) ==
    SubSeq(rest, 1, Offset(rest)) \o (IF Newlines(rest) = {} THEN <<>> ELSE Lines!Indentation)
LeftOf(rest) == SubSeq(rest, Offset(rest) + 1, Len(rest))

\* A line becomes itself, and the indentation behind its newline.
LEMMA LineBecomes ==
    ASSUME NEW s \in Texts, NEW k \in Nat, k < Len(s), NEW out, BecomeOf(s, out), pbeg \in Lines!Indents
    PROVE  LET rest == SubSeq(s, k + 1, Len(s))
               next == k + Offset(rest)
           IN  /\ next \in 0..Len(s) /\ LineOf(rest) \in Texts
               /\ out[next] = out[k] \o LineOf(rest)
               /\ LeftOf(rest) = SubSeq(s, next + 1, Len(s)) /\ LeftOf(rest) \in Texts
<1> DEFINE n == Len(s)
           rest == SubSeq(s, k + 1, Len(s))
           newlines == Newlines(rest)
           offset == Offset(rest)
           line == SubSeq(rest, 1, offset)
           end == IF newlines = {} THEN <<>> ELSE Lines!Indentation
<1>1. n \in Nat /\ \A i \in 1..n : s[i] \in Characters
  BY LenProperties, ElementOfSeq DEF Texts
<1>2. /\ rest \in Texts /\ Len(rest) = n - k /\ Len(rest) \in Nat \ {0} /\ DOMAIN rest = 1..Len(rest)
      /\ \A i \in 1..Len(rest) : rest[i] = s[k + i] /\ rest[i] \in Characters
  <2>1. \A i \in (k + 1)..n : s[i] \in Characters
    BY <1>1
  <2>2. k + 1 \in Int /\ n \in Int /\ k + 1 <= n /\ (n - (k + 1)) + 1 = n - k
    BY <1>1
  <2>3. rest \in Seq(Characters) /\ Len(rest) = (n - (k + 1)) + 1
        /\ \A i \in 1..(n - (k + 1)) + 1 : rest[i] = s[(k + 1) + i - 1]
    BY <2>1, <2>2, SubSeqProperties
  <2>4. DOMAIN rest = 1..Len(rest)
    BY <2>3, LenProperties
  <2> HIDE DEF rest
  <2>5. rest \in Texts /\ Len(rest) = n - k /\ Len(rest) \in Nat \ {0}
    <3>1. rest \in Texts
      BY <2>3 DEF Texts
    <3>2. Len(rest) = n - k
      BY <2>2, <2>3
    <3>3. n - k \in Nat \ {0}
      <4>1. n \in Int /\ k \in Nat /\ k + 1 <= n
        BY <2>2
      <4> HIDE DEF n
      <4> QED
        BY ONLY <4>1
    <3> QED
      BY <3>1, <3>2, <3>3
  <2>6. ASSUME NEW i \in 1..Len(rest) PROVE rest[i] = s[k + i] /\ rest[i] \in Characters
    <3>1. (k + 1) + i - 1 = k + i /\ k + i \in 1..n /\ i \in 1..(n - (k + 1)) + 1
      BY <1>1, <2>5
    <3> QED
      BY <1>1, <2>3, <3>1
  <2> QED
    BY <2>4, <2>5, <2>6
<1> HIDE DEF rest
<1>0. /\ newlines = {i \in DOMAIN rest : rest[i] = Blank}
      /\ offset = (IF newlines = {} THEN Len(rest) ELSE Lines!Min(newlines))
  BY DEF Newlines, Offset
<1> HIDE DEF newlines, offset
<1>3. /\ out \in [0..n -> Texts]
      /\ \A i \in 1..n : out[i] = out[i - 1] \o Lines!Indented(s[i])
  BY DEF BecomeOf
<1>4. /\ offset \in 1..Len(rest)
      /\ newlines # {} => rest[offset] = Blank
      /\ \A i \in 1..Len(rest) : i < offset \/ newlines = {} => rest[i] # Blank
  <2>1. CASE newlines = {}
    <3>1. offset = Len(rest) /\ offset \in 1..Len(rest)
      BY <1>0, <1>2, <2>1
    <3>2. ASSUME NEW i \in 1..Len(rest) PROVE rest[i] # Blank
      <4>1. i \in DOMAIN rest /\ ~(i \in newlines)
        BY <1>2, <2>1
      <4> QED
        BY <1>0, <4>1
    <3> QED
      BY <2>1, <3>1, <3>2
  <2>2. CASE newlines # {}
    <3>1. newlines \subseteq Nat
      BY <1>0, <1>2
    <3>2. offset \in newlines /\ \A y \in newlines : offset <= y
      BY <1>0, <2>2, <3>1, LeastOfSet
    <3>3. offset \in 1..Len(rest) /\ rest[offset] = Blank
      BY <1>0, <1>2, <3>2
    <3>4. ASSUME NEW i \in 1..Len(rest), i < offset PROVE rest[i] # Blank
      <4>1. ~(offset <= i)
        BY <1>2, <3>3, <3>4
      <4> QED
        BY <1>0, <1>2, <3>2, <4>1
    <3> QED
      BY <2>2, <3>3, <3>4
  <2> QED
    BY <2>1, <2>2
<1> DEFINE Plain(j) == j <= Len(rest) /\ \A i \in 1..j : rest[i] # Blank
           S == {j \in Nat : Plain(j) => out[k + j] = out[k] \o SubSeq(rest, 1, j)}
<1>5. 0 \in S
  <2>1. SubSeq(rest, 1, 0) = <<>>
    BY SubSeqEmpty
  <2>2. out[k] \in Texts /\ k + 0 = k
    BY <1>1, <1>3
  <2>3. out[k] \o <<>> = out[k]
    BY <2>2, ConcatEmptySeq DEF Texts
  <2> QED
    BY <2>1, <2>2, <2>3
\* What comes before a newline becomes itself, by one character more.
<1>6. ASSUME NEW j \in Nat, j + 1 <= Len(rest)
      PROVE  /\ SubSeq(rest, 1, j + 1) = SubSeq(rest, 1, j) \o <<rest[j + 1]>>
             /\ SubSeq(rest, 1, j) \in Texts /\ SubSeq(rest, 1, j + 1) \in Texts
             /\ out[k] \in Texts /\ <<rest[j + 1]>> \in Texts /\ Lines!Indented(rest[j + 1]) \in Texts
             /\ out[k + (j + 1)] = out[k + j] \o Lines!Indented(rest[j + 1])
  <2>1. /\ 1 \in 1..Len(rest) /\ j + 1 \in 1..Len(rest) /\ (j + 1) - 1 = j
        /\ k \in 0..n /\ k + (j + 1) \in 1..n /\ (k + (j + 1)) - 1 = k + j
    BY <1>1, <1>2, <1>6
  <2>2. SubSeq(rest, 1, j + 1) = SubSeq(rest, 1, (j + 1) - 1) \o <<rest[j + 1]>>
    BY <1>2, <2>1, SubSeqRecursiveSecond DEF Texts
  <2>3. rest[j + 1] \in Characters /\ rest[j + 1] = s[k + (j + 1)]
    BY <1>2, <2>1
  <2>4. <<rest[j + 1]>> \in Texts /\ Lines!Indented(rest[j + 1]) \in Texts
    BY <2>3, IndentedCharacters
  <2>5. SubSeq(rest, 1, j) \in Texts
    <3>1. \A i \in 1..j : rest[i] \in Characters
      BY <1>2, <2>1
    <3> QED
      BY <3>1, SubSeqProperties DEF Texts
  <2>6. SubSeq(rest, 1, j + 1) \in Texts
    BY <2>1, <2>2, <2>4, <2>5, ConcatProperties DEF Texts
  <2> QED
    BY <1>3, <2>1, <2>2, <2>3, <2>4, <2>5, <2>6
<1>7. ASSUME NEW j \in Nat, j \in S PROVE j + 1 \in S
  <2> DEFINE Same(i) == out[k + i] = out[k] \o SubSeq(rest, 1, i)
  <2> SUFFICES ASSUME Plain(j + 1) PROVE Same(j + 1)
    <3> HIDE DEF Plain, Same
    <3>1. j + 1 \in Nat
      OBVIOUS
    <3>2. S = {i \in Nat : Plain(i) => Same(i)}
      BY DEF Same
    <3> HIDE DEF S
    <3> QED
      BY <3>1, <3>2
  <2>0. j + 1 <= Len(rest) /\ Plain(j)
    BY <1>2
  <2>1. out[k + j] = out[k] \o SubSeq(rest, 1, j)
    <3> HIDE DEF Plain
    <3> QED
      BY <1>7, <2>0
  <2>2. Lines!Indented(rest[j + 1]) = <<rest[j + 1]>>
    <3>1. j + 1 \in 1..(j + 1) /\ \A i \in 1..(j + 1) : rest[i] # Blank
      OBVIOUS
    <3> QED
      BY <3>1 DEF Lines!Indented
  <2> DEFINE a == out[k]
             b == SubSeq(rest, 1, j)
             c == <<rest[j + 1]>>
  <2>3. a \in Seq(Characters) /\ b \in Seq(Characters) /\ c \in Seq(Characters)
    BY <1>6 DEF Texts
  <2> HIDE DEF a, b, c
  <2>4. (a \o b) \o c = a \o (b \o c)
    BY <2>3, ConcatAssociative, SMTT(30)
  <2> QED
    BY <1>6, <2>0, <2>1, <2>2, <2>4 DEF a, b, c
<1> HIDE DEF S
<1>8. Nat \subseteq S
  BY <1>5, <1>7, InductionOnSet
<1>9. line \in Texts /\ end \in Texts /\ line \o end \in Texts
  <2>1. offset - 1 \in Nat /\ (offset - 1) + 1 = offset /\ offset <= Len(rest)
    BY <1>2, <1>4
  <2>2. line \in Texts
    BY <1>6, <2>1
  <2>3. end \in Texts
    BY IndentedCharacters DEF Texts
  <2> QED
    BY <2>2, <2>3, ConcatProperties DEF Texts
<1>10. out[k + offset] = out[k] \o (line \o end)
  <2>1. CASE newlines = {}
    <3>1. offset \in Nat /\ Plain(offset)
      BY <1>2, <1>4, <2>1
    <3>2. out[k + offset] = out[k] \o line
      BY <1>8, <3>1 DEF S
    <3>3. line \o end = line
      BY <1>9, <2>1, ConcatEmptySeq DEF Texts
    <3> QED
      BY <3>2, <3>3
  <2>2. CASE newlines # {}
    <3> DEFINE j == offset - 1
    <3>1. j \in Nat /\ j + 1 = offset /\ j + 1 <= Len(rest) /\ Plain(j)
      BY <1>2, <1>4
    <3> HIDE DEF j
    <3>2. out[k + j] = out[k] \o SubSeq(rest, 1, j)
      BY <1>8, <3>1 DEF S
    <3> DEFINE a == out[k]
               b == SubSeq(rest, 1, j)
               c == <<rest[j + 1]>>
    <3>3. line = b \o c
      BY <1>6, <3>1
    <3>4. Lines!Indented(rest[j + 1]) = c \o end
      BY <1>4, <2>2, <3>1 DEF Lines!Indented
    <3>5. out[k + offset] = (a \o b) \o (c \o end)
      BY <1>6, <3>1, <3>2, <3>4
    <3>6. a \in Texts /\ b \in Texts /\ c \in Texts /\ end \in Texts
      BY <1>6, <1>9, <3>1 DEF a, b, c
    <3> HIDE DEF a, b, c, end
    <3>7. Cat(Cat(a, b), Cat(c, end)) = Cat(a, Cat(Cat(b, c), end))
      <4>1. a \in Texts /\ b \in Texts /\ c \in Texts /\ end \in Texts
        BY <3>6
      <4>2. Cat(c, end) \in Texts
        BY <4>1, CatLaws DEF Texts
      <4>3. Cat(Cat(a, b), Cat(c, end)) = Cat(a, Cat(b, Cat(c, end)))
        BY <4>1, <4>2, CatLaws DEF Texts
      <4>4. Cat(Cat(b, c), end) = Cat(b, Cat(c, end))
        BY <4>1, CatLaws DEF Texts
      <4> QED
        BY <4>3, <4>4
    <3> QED
      BY <3>3, <3>5, <3>7 DEF a, Cat
  <2> QED
    BY <2>1, <2>2
<1>11. /\ SubSeq(rest, offset + 1, Len(rest)) = SubSeq(s, (k + offset) + 1, n)
       /\ SubSeq(rest, offset + 1, Len(rest)) \in Texts
  <2>1. CASE offset = Len(rest)
    <3>1. SubSeq(rest, offset + 1, Len(rest)) = <<>>
      BY <1>2, <2>1, SubSeqEmpty
    <3>2. SubSeq(s, (k + offset) + 1, n) = <<>>
      <4>1. (k + offset) + 1 \in Int /\ n \in Int /\ n < (k + offset) + 1
        BY <1>1, <1>2, <2>1
      <4> QED
        BY <4>1, SubSeqEmpty
    <3>3. <<>> \in Texts
      BY DEF Texts
    <3> QED
      BY <3>1, <3>2, <3>3
  <2>2. CASE offset # Len(rest)
    <3>0. offset \in Nat /\ offset < n - k /\ offset >= 1 /\ n \in Nat /\ Len(rest) = n - k
      <4>1. offset \in 1..Len(rest) /\ Len(rest) = n - k
        BY <1>2, <1>4
      <4> HIDE DEF n
      <4> QED
        BY <1>1, <2>2, <4>1
    <3>1. /\ k + 1 \in 1..n /\ n \in 1..n /\ offset + 1 \in 1..((n - (k + 1)) + 1)
          /\ Len(rest) \in 1..((n - (k + 1)) + 1)
          /\ (k + 1) + (offset + 1) - 1 = (k + offset) + 1
          /\ (k + 1) + Len(rest) - 1 = n
      BY <3>0
    <3>2. SubSeq(SubSeq(s, k + 1, n), offset + 1, Len(rest))
            = SubSeq(s, (k + 1) + (offset + 1) - 1, (k + 1) + Len(rest) - 1)
      <4> DEFINE a == k + 1
                 c == offset + 1
                 d == Len(rest)
      <4>1. /\ s \in Seq(Characters) /\ a \in 1..Len(s) /\ n \in 1..Len(s)
            /\ c \in 1..(n - a + 1) /\ d \in 1..(n - a + 1)
        BY <3>1 DEF Texts
      <4> HIDE DEF a, c, d
      <4>2. SubSeq(SubSeq(s, a, n), c, d) = SubSeq(s, a + c - 1, a + d - 1)
        BY <4>1, SubSeqOfSubSeq
      <4> QED
        BY <4>2 DEF a, c, d
    <3>3. SubSeq(rest, offset + 1, Len(rest)) \in Texts
      <4>1. \A i \in (offset + 1)..Len(rest) : rest[i] \in Characters
        BY <1>2, <1>4
      <4>2. offset + 1 \in Int /\ Len(rest) \in Int
        BY <1>2, <1>4
      <4> QED
        BY <4>1, <4>2, SubSeqProperties DEF Texts
    <3> QED
      BY <3>1, <3>2, <3>3 DEF rest
  <2> QED
    BY <2>1, <2>2
<1>12. k + offset \in 0..n
  <2>1. offset \in 1..Len(rest) /\ Len(rest) = n - k
    BY <1>2, <1>4
  <2> HIDE DEF n
  <2> QED
    BY <1>1, <2>1
<1>13. LineOf(rest) = line \o end /\ LeftOf(rest) = SubSeq(rest, offset + 1, Len(rest))
  BY DEF LineOf, LeftOf, newlines, offset
<1> QED
  BY <1>9, <1>10, <1>11, <1>12, <1>13 DEF rest, offset

\* A stream that has nothing to write: what should come out did, or its
\* beginning.
AtRest ==
    /\ pbeg \in Lines!Indents
    /\ bytes \in [text : Texts, bad : BOOLEAN] /\ Len(bytes.text) <= Room
    /\ gbeg = <<>> /\ gend \in Texts
    /\ IF bytes.bad THEN Begins(bytes.text, gend) ELSE bytes.text = gend

\* It is in the invariant,
LEMMA RestingStream == AtRest => LinesInv
<1> SUFFICES ASSUME AtRest PROVE LinesInv
  OBVIOUS
<1> DEFINE s == <<>>
           out == [k \in 0..0 |-> <<>>]
<1>1. <<>> \in Texts /\ Len(s) = 0 /\ SubSeq(s, 0 + 1, 0) = <<>>
  BY EmptySeq, SubSeqEmpty DEF Texts
<1>2. BecomeOf(s, out) /\ out[0] = <<>>
  BY <1>1 DEF BecomeOf
<1>3. gend \o <<>> = gend
  BY ConcatEmptySeq DEF AtRest, Texts
<1> HIDE DEF out
<1>4. 0 \in 0..Len(s) /\ s \in Texts /\ gbeg = SubSeq(s, 0 + 1, Len(s)) /\ gend \in Texts
      /\ gend = gend \o out[Len(s)]
  <2>1. gbeg = SubSeq(s, 0 + 1, Len(s))
    BY <1>1 DEF AtRest
  <2>2. gend = gend \o out[Len(s)]
    BY <1>1, <1>2, <1>3
  <2> QED
    BY <1>1, <2>1, <2>2 DEF AtRest
<1> HIDE DEF s
<1>5. IF bytes.bad THEN Begins(bytes.text, gend \o out[0]) ELSE bytes.text = gend \o out[0]
  BY <1>2, <1>3 DEF AtRest
<1>6. \E before \in Texts, t \in Texts : \E k \in 0..Len(t), o \in [0..Len(t) -> Texts] :
          /\ BecomeOf(t, o)
          /\ gbeg = SubSeq(t, k + 1, Len(t))
          /\ gend = before \o o[Len(t)]
          /\ IF bytes.bad THEN Begins(bytes.text, before \o o[k])
                          ELSE bytes.text = before \o o[k]
  BY <1>2, <1>4, <1>5 DEF BecomeOf
<1> QED
  BY <1>1, <1>6 DEF AtRest, LinesInv

\* and the invariant has it where nothing is to be written.
LEMMA StreamRests ==
    ASSUME LinesInv, gbeg = <<>>
    PROVE  AtRest
<1>1. PICK before \in Texts, s \in Texts : \E k \in 0..Len(s), out \in [0..Len(s) -> Texts] :
          /\ BecomeOf(s, out)
          /\ gbeg = SubSeq(s, k + 1, Len(s))
          /\ gend = before \o out[Len(s)]
          /\ IF bytes.bad THEN Begins(bytes.text, before \o out[k])
                          ELSE bytes.text = before \o out[k]
  BY DEF LinesInv
<1>2. PICK k \in 0..Len(s), out \in [0..Len(s) -> Texts] :
          /\ BecomeOf(s, out)
          /\ gbeg = SubSeq(s, k + 1, Len(s))
          /\ gend = before \o out[Len(s)]
          /\ IF bytes.bad THEN Begins(bytes.text, before \o out[k])
                          ELSE bytes.text = before \o out[k]
  BY <1>1
<1>3. k = Len(s)
  <2>1. Len(s) \in Nat /\ \A i \in 1..Len(s) : s[i] \in Characters
    BY LenProperties, ElementOfSeq DEF Texts
  <2>2. ASSUME k < Len(s) PROVE FALSE
    <3>1. \A i \in (k + 1)..Len(s) : s[i] \in Characters
      BY <2>1
    <3>2. k + 1 \in Int /\ Len(s) \in Int /\ k + 1 <= Len(s) /\ (Len(s) - (k + 1)) + 1 # 0
      BY <2>1, <2>2
    <3>3. Len(SubSeq(s, k + 1, Len(s))) = (Len(s) - (k + 1)) + 1
      BY <3>1, <3>2, SubSeqProperties
    <3>4. Len(SubSeq(s, k + 1, Len(s))) = 0
      BY <1>2, EmptySeq
    <3> QED
      BY <3>2, <3>3, <3>4
  <2> QED
    BY <2>1, <2>2
<1> QED
  BY <1>2, <1>3 DEF LinesInv, AtRest

\* A new stream rests.
LEMMA LinesBegin == Lines!Init => LinesInv
<1> SUFFICES ASSUME Lines!Init PROVE AtRest
  BY RestingStream
<1>1. <<>> \in Texts /\ Len(<<>>) = 0 /\ Room \in Nat
  BY EmptySeq, LinesAssumption DEF Texts
<1>2. bytes \in [text : Texts, bad : BOOLEAN] /\ bytes.text = <<>> /\ ~bytes.bad
  BY <1>1 DEF Lines!Init
<1> QED
  BY <1>1, <1>2 DEF Lines!Init, AtRest

\* Every operation keeps it.
LEMMA LinesKeep ==
    ASSUME LinesInv, Lines!Next
    PROVE  LinesInv'
<1>1. /\ pbeg \in Lines!Indents /\ bytes \in [text : Texts, bad : BOOLEAN] /\ Len(bytes.text) <= Room
      /\ bytes.text \in Texts /\ bytes.bad \in BOOLEAN /\ gbeg \in Texts /\ gend \in Texts
  BY DEF LinesInv
<1>2. AtRest' => LinesInv'
  BY RestingStream, PTL
<1>3. CASE Lines!WriteLine
  <2>1. PICK before \in Texts, s \in Texts : \E k \in 0..Len(s), out \in [0..Len(s) -> Texts] :
            /\ BecomeOf(s, out)
            /\ gbeg = SubSeq(s, k + 1, Len(s))
            /\ gend = before \o out[Len(s)]
            /\ IF bytes.bad THEN Begins(bytes.text, before \o out[k])
                            ELSE bytes.text = before \o out[k]
    BY DEF LinesInv
  <2>2. PICK k \in 0..Len(s), out \in [0..Len(s) -> Texts] :
            /\ BecomeOf(s, out)
            /\ gbeg = SubSeq(s, k + 1, Len(s))
            /\ gend = before \o out[Len(s)]
            /\ IF bytes.bad THEN Begins(bytes.text, before \o out[k])
                            ELSE bytes.text = before \o out[k]
    BY <2>1
  <2>3. k \in Nat /\ k < Len(s)
    <3>1. Len(s) \in Nat
      BY LenProperties DEF Texts
    <3>2. ASSUME k = Len(s) PROVE FALSE
      <4>1. SubSeq(s, k + 1, Len(s)) = <<>>
        BY <3>1, <3>2, SubSeqEmpty
      <4> QED
        BY <1>3, <2>2, <4>1 DEF Lines!WriteLine
    <3> QED
      BY <3>1, <3>2
  <2> DEFINE offset == Offset(gbeg)
             x == LineOf(gbeg)
             left == LeftOf(gbeg)
             w == Lines!Written(x)
  <2>4. /\ k + offset \in 0..Len(s) /\ x \in Texts
        /\ out[k + offset] = out[k] \o x
        /\ left = SubSeq(s, (k + offset) + 1, Len(s)) /\ left \in Texts
    BY <1>1, <2>2, <2>3, LineBecomes
  <2>5. bytes' = w /\ gbeg' = left /\ pbeg' = pbeg /\ gend' = gend
    BY <1>3 DEF Lines!WriteLine, LineOf, LeftOf, Offset, Newlines
  <2> HIDE DEF x, left, offset
  <2>6. /\ w \in [text : Texts, bad : BOOLEAN] /\ Len(w.text) <= Room
        /\ bytes.bad => w = bytes
        /\ ~bytes.bad => IF w.bad THEN Begins(w.text, bytes.text \o x)
                                  ELSE w.text = bytes.text \o x
    BY <1>1, <2>4, WrittenBegins
  <2> HIDE DEF w
  <2> DEFINE done == before \o out[k]
             next == before \o out[k + offset]
  <2>7. next = done \o x /\ done \in Texts
    <3>1. out[k] \in Texts
      BY <2>2 DEF BecomeOf
    <3>2. Cat(before, Cat(out[k], x)) = Cat(Cat(before, out[k]), x) /\ Cat(before, out[k]) \in Texts
      <4>1. x \in Texts
        BY <2>4
      <4> QED
        BY <3>1, <4>1, ThreeTexts
    <3> QED
      BY <2>4, <3>2 DEF Cat
  <2>8. IF w.bad THEN Begins(w.text, next) ELSE w.text = next
    <3> HIDE DEF done, next
    <3>1. CASE bytes.bad
      <4>1. Begins(bytes.text, done)
        BY <2>2, <3>1 DEF done
      <4>2. Begins(bytes.text, done \o x)
        BY <1>1, <2>4, <2>7, <4>1, BeginsWith
      <4> QED
        BY <2>6, <2>7, <3>1, <4>2
    <3>2. CASE ~bytes.bad
      <4>1. bytes.text = done
        BY <2>2, <3>2 DEF done
      <4> QED
        BY <2>6, <2>7, <3>2, <4>1
    <3> QED
      BY <3>1, <3>2
  <2>9. BecomeOf(s, out)'
    BY <2>2, <2>5 DEF BecomeOf, Lines!Indented, Lines!Indentation
  <2>10. \E b \in Texts, t \in Texts : \E j \in 0..Len(t), o \in [0..Len(t) -> Texts] :
            /\ BecomeOf(t, o)'
            /\ gbeg' = SubSeq(t, j + 1, Len(t))
            /\ gend' = b \o o[Len(t)]
            /\ IF bytes'.bad THEN Begins(bytes'.text, b \o o[j])
                             ELSE bytes'.text = b \o o[j]
    <3> DEFINE j == k + offset
    <3>1. /\ gbeg' = SubSeq(s, j + 1, Len(s)) /\ gend' = before \o out[Len(s)] /\ j \in 0..Len(s)
          /\ IF bytes'.bad THEN Begins(bytes'.text, before \o out[j]) ELSE bytes'.text = before \o out[j]
      BY <2>2, <2>4, <2>5, <2>8
    <3> HIDE DEF j
    <3> QED
      BY <2>9, <3>1
  <2> QED
    BY <1>1, <2>4, <2>5, <2>6, <2>10 DEF LinesInv
<1>4. ASSUME NEW i \in Lines!Indents, Lines!SetIndent(i.char, i.count) PROVE AtRest'
  <2>1. AtRest
    BY <1>4, StreamRests DEF Lines!SetIndent
  <2>2. pbeg' \in Lines!Indents /\ bytes' = bytes /\ gbeg' = gbeg /\ gend' = gend
    BY <1>4 DEF Lines!SetIndent, Lines!Indents
  <2> QED
    BY <2>1, <2>2 DEF AtRest
<1>5. ASSUME ~bytes.bad, NEW s \in Lines!Blocks, Lines!XSPutN(s) PROVE LinesInv'
  <2>1. s \in Texts
    <3>1. PICK n \in 1..MaxBlock : s \in [1..n -> Characters]
      BY DEF Lines!Blocks, Characters
    <3> QED
      BY <3>1, SeqDef, LinesAssumption DEF Texts
  <2>2. AtRest
    BY <1>5, StreamRests DEF Lines!XSPutN
  <2>3. PICK out : BecomeOf(s, out) /\ Lines!IndentedText(s) = out[Len(s)]
    BY <1>1, <2>1, TextBecomes
  <2>4. bytes' = bytes /\ pbeg' = pbeg /\ gbeg' = s /\ gend' = gend \o out[Len(s)]
    BY <1>5, <2>3 DEF Lines!XSPutN
  <2>5. BecomeOf(s, out)'
    BY <2>3, <2>4 DEF BecomeOf, Lines!Indented, Lines!Indentation
  <2>6. Len(s) \in Nat /\ out[0] = <<>> /\ out[Len(s)] \in Texts /\ SubSeq(s, 0 + 1, Len(s)) = s
    BY <2>1, <2>3, LenProperties, SubSeqFull DEF BecomeOf, Texts
  <2>7. gend \o <<>> = gend /\ gend \o out[Len(s)] \in Texts /\ bytes.text = gend
    BY <1>5, <2>2, <2>6, ConcatEmptySeq, ConcatProperties DEF AtRest, Texts
  <2>8. \E b \in Texts, t \in Texts : \E j \in 0..Len(t), o \in [0..Len(t) -> Texts] :
            /\ BecomeOf(t, o)'
            /\ gbeg' = SubSeq(t, j + 1, Len(t))
            /\ gend' = b \o o[Len(t)]
            /\ IF bytes'.bad THEN Begins(bytes'.text, b \o o[j])
                             ELSE bytes'.text = b \o o[j]
    <3>1. /\ 0 \in 0..Len(s) /\ gend \in Texts /\ gbeg' = SubSeq(s, 0 + 1, Len(s))
          /\ gend' = gend \o out[Len(s)] /\ ~bytes'.bad /\ bytes'.text = gend \o out[0]
      BY <1>1, <1>5, <2>4, <2>6, <2>7
    <3>2. out \in [0..Len(s) -> Texts]
      BY <2>3 DEF BecomeOf
    <3> QED
      BY <2>1, <2>5, <3>1, <3>2
  <2> QED
    BY <1>1, <2>1, <2>4, <2>7, <2>8 DEF LinesInv
<1>6. ASSUME ~bytes.bad, NEW c \in Lines!Characters, Lines!Overflow(c) PROVE AtRest'
  <2> DEFINE x == Lines!Indented(c)
             w == Lines!Written(x)
  <2>1. AtRest
    BY <1>6, StreamRests DEF Lines!Overflow
  <2>2. x \in Texts
    BY <1>1, IndentedCharacters DEF Characters
  <2>3. bytes' = w /\ pbeg' = pbeg /\ gbeg' = <<>> /\ gend' = gend \o x
    BY <1>6 DEF Lines!Overflow
  <2> HIDE DEF x
  <2>4. /\ w \in [text : Texts, bad : BOOLEAN] /\ Len(w.text) <= Room
        /\ IF w.bad THEN Begins(w.text, bytes.text \o x) ELSE w.text = bytes.text \o x
    BY <1>1, <1>6, <2>2, WrittenBegins
  <2> HIDE DEF w
  <2>5. bytes.text = gend /\ gend \o x \in Texts
    BY <1>1, <1>6, <2>1, <2>2, ConcatProperties DEF AtRest, Texts
  <2> QED
    BY <1>1, <2>3, <2>4, <2>5 DEF AtRest
<1> QED
  BY <1>2, <1>3, <1>4, <1>5, <1>6 DEF Lines!Next

\* What a text becomes begins as its prefixes do.
LEMMA PrefixesBegin ==
    ASSUME NEW s \in Texts, NEW out, BecomeOf(s, out), NEW k \in 0..Len(s), pbeg \in Lines!Indents
    PROVE  out[k] \in Texts /\ out[Len(s)] \in Texts /\ Begins(out[k], out[Len(s)])
<1> DEFINE n == Len(s)
<1>1. n \in Nat /\ k \in Nat /\ \A i \in 1..n : s[i] \in Characters
  BY LenProperties, ElementOfSeq DEF Texts
<1>2. out \in [0..n -> Texts] /\ \A i \in 1..n : out[i] = out[i - 1] \o Lines!Indented(s[i])
  BY DEF BecomeOf
<1> HIDE DEF n
<1> DEFINE S == {i \in Nat : k + i <= n => Begins(out[k], out[k + i])}
<1>3. 0 \in S
  <2>1. out[k] \in Texts /\ k + 0 = k
    BY <1>1, <1>2 DEF n
  <2> QED
    BY <2>1, BeginsWith
<1>4. ASSUME NEW i \in Nat, i \in S PROVE i + 1 \in S
  <2> DEFINE j == k + (i + 1)
  <2> SUFFICES ASSUME j <= n PROVE Begins(out[k], out[j])
    OBVIOUS
  <2>1. j \in 1..n /\ j - 1 = k + i /\ k + i <= n /\ k \in 0..n /\ k + i \in 0..n
    BY <1>1
  <2>2. out[j] = out[k + i] \o Lines!Indented(s[j]) /\ Lines!Indented(s[j]) \in Texts
    BY <1>1, <1>2, <2>1, IndentedCharacters
  <2>3. Begins(out[k], out[k + i]) /\ out[k] \in Texts /\ out[k + i] \in Texts
    BY <1>2, <1>4, <2>1
  <2> DEFINE a == out[k]
             b == out[k + i]
             c == Lines!Indented(s[j])
  <2>4. a \in Texts /\ b \in Texts /\ c \in Texts /\ Begins(a, b) /\ out[j] = b \o c
    BY <2>2, <2>3
  <2> HIDE DEF a, b, c, j
  <2>5. Begins(a, b \o c)
    BY <2>4, BeginsWith
  <2> QED
    BY <2>4, <2>5 DEF a
<1> HIDE DEF S
<1>5. Nat \subseteq S
  BY <1>3, <1>4, InductionOnSet
<1>6. n - k \in Nat /\ k + (n - k) = n /\ k \in 0..n /\ n \in 0..n
  BY <1>1 DEF n
<1>7. Begins(out[k], out[n])
  BY <1>1, <1>5, <1>6 DEF S
<1> QED
  BY <1>2, <1>6, <1>7 DEF n

\* What came out begins what should come out.
LEMMA LinesAreRight ==
    ASSUME LinesInv
    PROVE  Lines!IndentsEveryLine
<1>1. PICK before \in Texts, s \in Texts : \E k \in 0..Len(s), out \in [0..Len(s) -> Texts] :
          /\ BecomeOf(s, out)
          /\ gend = before \o out[Len(s)]
          /\ IF bytes.bad THEN Begins(bytes.text, before \o out[k])
                          ELSE bytes.text = before \o out[k]
  BY DEF LinesInv
<1>2. PICK k \in 0..Len(s), out \in [0..Len(s) -> Texts] :
          /\ BecomeOf(s, out)
          /\ gend = before \o out[Len(s)]
          /\ IF bytes.bad THEN Begins(bytes.text, before \o out[k])
                          ELSE bytes.text = before \o out[k]
  BY <1>1
<1>3. bytes.text \in Texts /\ gend \in Texts /\ pbeg \in Lines!Indents
  BY DEF LinesInv
<1>4. out[k] \in Texts /\ out[Len(s)] \in Texts /\ Begins(out[k], out[Len(s)])
  BY <1>2, <1>3, PrefixesBegin
<1>5. PICK x \in Texts : out[Len(s)] = out[k] \o x
  BY <1>4 DEF Begins
<1> DEFINE done == before \o out[k]
<1>6. done \in Texts /\ gend = done \o x
  <2>1. Cat(before, Cat(out[k], x)) = Cat(Cat(before, out[k]), x) /\ Cat(before, out[k]) \in Texts
    <3>1. before \in Texts /\ out[k] \in Texts /\ x \in Texts
      BY <1>4
    <3> QED
      BY <3>1, ThreeTexts
  <2> QED
    BY <1>2, <1>5, <2>1 DEF Cat
<1>7. Begins(bytes.text, gend)
  <2>1. CASE bytes.bad
    <3>1. Begins(bytes.text, done)
      BY <1>2, <2>1
    <3> HIDE DEF done
    <3> QED
      BY <1>3, <1>6, <3>1, BeginsWith
  <2>2. CASE ~bytes.bad
    <3>1. bytes.text = done
      BY <1>2, <2>2
    <3> HIDE DEF done
    <3> QED
      BY <1>3, <1>6, <3>1, BeginsWith
  <2> QED
    BY <2>1, <2>2
<1>8. Lines!IsPrefix(bytes.text, gend)
  BY <1>3, <1>7, BeginsIsPrefix
<1>9. gbeg = <<>> /\ ~bytes.bad => bytes.text = gend
  BY StreamRests DEF AtRest
<1> QED
  BY <1>8, <1>9 DEF Lines!IndentsEveryLine

\* However a text is cut into blocks and single characters, and whenever the
\* indentation changes, every line of it is indented once, for streams with any
\* room and blocks and indentations of any length.
THEOREM EveryLineIsIndentedOnce == TextSpec => []IndentsEveryLine
<1> DEFINE TextNext == ConversionNext \/ StreamNext \/ LinesNext
           Inv == component = "lines" => LinesInv
<1>1. ConversionInit \/ StreamInit => Inv
  BY OneTextBegins, LinesBegin
<1>2. Inv /\ [TextNext]_AllVars => Inv'
  <2> SUFFICES ASSUME Inv, [TextNext]_AllVars, component' = "lines" PROVE LinesInv'
    OBVIOUS
  <2>1. LinesInv /\ (Lines!Next \/ UNCHANGED streamVars)
    BY OneTextRuns
  <2>2. CASE Lines!Next
    BY <2>1, <2>2, LinesKeep
  <2>3. CASE UNCHANGED streamVars
    <3>1. pbeg' = pbeg /\ bytes' = bytes /\ gbeg' = gbeg /\ gend' = gend
      BY <2>3 DEF streamVars
    <3>2. \A s, out : BecomeOf(s, out)' <=> BecomeOf(s, out)
      BY <3>1 DEF BecomeOf, Lines!Indented, Lines!Indentation
    <3> QED
      BY <2>1, <3>1, <3>2 DEF LinesInv
  <2> QED
    BY <2>1, <2>2, <2>3
<1>3. Inv => IndentsEveryLine
  BY LinesAreRight DEF IndentsEveryLine
<1> QED
  BY <1>1, <1>2, <1>3, PTL DEF TextSpec

-----------------------------------------------------------------------------
(* codecvt: how a character is encoded, and what is read of that.          *)

\* The bits of a code point in parts of six, and what is left of each when
\* those behind it are shifted out.
SixBits(c, h, x, y, z) ==
    /\ h \in Nat /\ x \in 0..63 /\ y \in 0..63 /\ z \in 0..63
    /\ c = (h * 262144) + (x * 4096) + (y * 64) + z
    /\ c \div 64 = (h * 4096) + (x * 64) + y /\ c \div 4096 = (h * 64) + x /\ c \div 262144 = h
    /\ Trail(c, 0) = 128 + z /\ Trail(c, 1) = 128 + y /\ Trail(c, 2) = 128 + x

\* Every code point has such parts.
LEMMA PartsOfSixBits ==
    ASSUME NEW c \in Nat
    PROVE  \E h, x, y, z : SixBits(c, h, x, y, z)
<1>0. ASSUME NEW a \in Nat
      PROVE  a % 64 \in 0..63 /\ a \div 64 \in Nat /\ a = (64 * (a \div 64)) + (a % 64)
  BY SMT
<1>1. PICK z \in 0..63, c1 \in Nat : c = (64 * c1) + z /\ z = c % 64
  BY SMT, <1>0
<1>2. PICK y \in 0..63, c2 \in Nat : c1 = (64 * c2) + y
  <2>1. c1 % 64 \in 0..63 /\ c1 \div 64 \in Nat /\ c1 = (64 * (c1 \div 64)) + (c1 % 64)
    BY SMT, <1>0
  <2> QED
    BY SMT, <2>1
<1>3. PICK x \in 0..63, h \in Nat : c2 = (64 * h) + x
  <2>1. c2 % 64 \in 0..63 /\ c2 \div 64 \in Nat /\ c2 = (64 * (c2 \div 64)) + (c2 % 64)
    BY SMT, <1>0
  <2> QED
    BY SMT, <2>1
<1>4. c = (h * 262144) + (x * 4096) + (y * 64) + z
  BY SMT, <1>1, <1>2, <1>3
<1>5. c \div 64 = (h * 4096) + (x * 64) + y
  <2> DEFINE q == (h * 4096) + (x * 64) + y
  <2>1. q \in Nat /\ c = (64 * q) + z
    BY SMT, <1>1, <1>2, <1>3
  <2> HIDE DEF q
  <2>2. c \div 64 = q
    BY SMT, <1>1, <2>1
  <2> QED
    BY SMT, <2>2 DEF q
<1>6. c \div 4096 = (h * 64) + x
  <2> DEFINE q == (h * 64) + x
             r == (64 * y) + z
  <2>1. q \in Nat /\ r \in 0..4095 /\ c = (4096 * q) + r
    BY SMT, <1>4
  <2> HIDE DEF q, r
  <2>2. c \div 4096 = q
    BY SMT, <2>1
  <2> QED
    BY SMT, <2>2 DEF q
<1>7. c \div 262144 = h
  <2> DEFINE r == (4096 * x) + (64 * y) + z
  <2>1. r \in Nat /\ r < 262144
    BY SMT, <1>1, <1>2, <1>3
  <2>2. c = (262144 * h) + r
    BY SMT, <1>4
  <2> HIDE DEF r
  <2> QED
    BY SMT, <1>3, <2>1, <2>2
<1>8. Trail(c, 0) = 128 + z
  BY SMT, <1>1 DEF Trail, Place
<1>9. Trail(c, 1) = 128 + y
  <2>1. Trail(c, 1) = 128 + ((c \div 64) % 64)
    BY SMT DEF Trail, Place
  <2>2. c1 % 64 = y /\ c \div 64 = c1
    BY SMT, <1>1, <1>2
  <2> QED
    BY SMT, <2>1, <2>2
<1>10. Trail(c, 2) = 128 + x
  <2>1. Trail(c, 2) = 128 + ((c \div 4096) % 64)
    BY SMT DEF Trail, Place
  <2>2. c2 % 64 = x /\ c \div 4096 = c2
    BY SMT, <1>3, <1>6
  <2> QED
    BY SMT, <2>1, <2>2
<1>11. SixBits(c, h, x, y, z)
  BY SMT, <1>1, <1>2, <1>3, <1>4, <1>5, <1>6, <1>7, <1>8, <1>9, <1>10 DEF SixBits
<1> QED
  BY <1>11

\* The well-formed sequences of bytes, by their lengths.
LeadOfThree(x, y) ==
    x \in 224..239 /\ y \in 128..191 /\ (x = 224 => y >= 160) /\ (x = 237 => y <= 159)
LeadOfFour(x, y) ==
    x \in 240..244 /\ y \in 128..191 /\ (x = 240 => y >= 144) /\ (x = 244 => y <= 143)
FormedOne(b) == Len(b) = 1 /\ b[1] \in 0..127
FormedTwo(b) == Len(b) = 2 /\ b[1] \in 194..223 /\ b[2] \in 128..191
FormedThree(b) == Len(b) = 3 /\ LeadOfThree(b[1], b[2]) /\ b[3] \in 128..191
FormedFour(b) == Len(b) = 4 /\ LeadOfFour(b[1], b[2]) /\ b[3] \in 128..191 /\ b[4] \in 128..191

\* A sequence in a row of the table of one to four sets.
LEMMA RowOfTable ==
    ASSUME NEW b, NEW row, NEW n \in 1..4, Len(row) = n
    PROVE  (Len(b) = Len(row) /\ Fits(b, row))
           <=> (Len(b) = n /\ b[1] \in row[1] /\ (n >= 2 => b[2] \in row[2])
                /\ (n >= 3 => b[3] \in row[3]) /\ (n >= 4 => b[4] \in row[4]))
<1>1. ASSUME Len(b) = n
      PROVE  Fits(b, row)
             <=> (b[1] \in row[1] /\ (n >= 2 => b[2] \in row[2])
                  /\ (n >= 3 => b[3] \in row[3]) /\ (n >= 4 => b[4] \in row[4]))
  <2>1. Fits(b, row) <=> \A i \in 1..n : b[i] \in row[i]
    BY <1>1 DEF Fits
  <2>2. \A i : i \in 1..n <=> (i = 1 \/ (n >= 2 /\ i = 2) \/ (n >= 3 /\ i = 3) \/ (n >= 4 /\ i = 4))
    OBVIOUS
  <2> QED
    BY <2>1, <2>2
<1> QED
  BY <1>1

\* The rows by their lengths.
LEMMA RowsOfTable ==
    ASSUME NEW b, NEW p, NEW q, NEW r, NEW s
    PROVE  /\ (Len(b) = Len(<<p>>) /\ Fits(b, <<p>>)) <=> (Len(b) = 1 /\ b[1] \in p)
           /\ (Len(b) = Len(<<p, q>>) /\ Fits(b, <<p, q>>)) <=> (Len(b) = 2 /\ b[1] \in p /\ b[2] \in q)
           /\ (Len(b) = Len(<<p, q, r>>) /\ Fits(b, <<p, q, r>>))
              <=> (Len(b) = 3 /\ b[1] \in p /\ b[2] \in q /\ b[3] \in r)
           /\ (Len(b) = Len(<<p, q, r, s>>) /\ Fits(b, <<p, q, r, s>>))
              <=> (Len(b) = 4 /\ b[1] \in p /\ b[2] \in q /\ b[3] \in r /\ b[4] \in s)
<1>1. (Len(b) = Len(<<p>>) /\ Fits(b, <<p>>)) <=> (Len(b) = 1 /\ b[1] \in p)
  <2> DEFINE row == <<p>>
  <2>1. Len(row) = 1 /\ row[1] = p
    OBVIOUS
  <2> HIDE DEF row
  <2>2. (Len(b) = Len(row) /\ Fits(b, row)) <=> (Len(b) = 1 /\ b[1] \in p)
    BY <2>1, RowOfTable
  <2> QED
    BY <2>2 DEF row
<1>2. (Len(b) = Len(<<p, q>>) /\ Fits(b, <<p, q>>)) <=> (Len(b) = 2 /\ b[1] \in p /\ b[2] \in q)
  <2> DEFINE row == <<p, q>>
  <2>1. Len(row) = 2 /\ row[1] = p /\ row[2] = q
    OBVIOUS
  <2> HIDE DEF row
  <2>2. (Len(b) = Len(row) /\ Fits(b, row)) <=> (Len(b) = 2 /\ b[1] \in p /\ b[2] \in q)
    BY <2>1, RowOfTable
  <2> QED
    BY <2>2 DEF row
<1>3. (Len(b) = Len(<<p, q, r>>) /\ Fits(b, <<p, q, r>>))
      <=> (Len(b) = 3 /\ b[1] \in p /\ b[2] \in q /\ b[3] \in r)
  <2> DEFINE row == <<p, q, r>>
  <2>1. Len(row) = 3 /\ row[1] = p /\ row[2] = q /\ row[3] = r
    OBVIOUS
  <2> HIDE DEF row
  <2>2. (Len(b) = Len(row) /\ Fits(b, row)) <=> (Len(b) = 3 /\ b[1] \in p /\ b[2] \in q /\ b[3] \in r)
    BY <2>1, RowOfTable
  <2> QED
    BY <2>2 DEF row
<1>4. (Len(b) = Len(<<p, q, r, s>>) /\ Fits(b, <<p, q, r, s>>))
      <=> (Len(b) = 4 /\ b[1] \in p /\ b[2] \in q /\ b[3] \in r /\ b[4] \in s)
  <2> DEFINE row == <<p, q, r, s>>
  <2>1. Len(row) = 4 /\ row[1] = p /\ row[2] = q /\ row[3] = r /\ row[4] = s
    OBVIOUS
  <2> HIDE DEF row
  <2>2. (Len(b) = Len(row) /\ Fits(b, row))
        <=> (Len(b) = 4 /\ b[1] \in p /\ b[2] \in q /\ b[3] \in r /\ b[4] \in s)
    BY <2>1, RowOfTable
  <2> QED
    BY <2>2 DEF row
<1> QED
  BY <1>1, <1>2, <1>3, <1>4

\* A sequence is in one of nine rows.
LEMMA NineRows ==
    ASSUME NEW b, NEW r1, NEW r2, NEW r3, NEW r4, NEW r5, NEW r6, NEW r7, NEW r8, NEW r9
    PROVE  (\E row \in {r1, r2, r3, r4, r5, r6, r7, r8, r9} : Len(b) = Len(row) /\ Fits(b, row))
           <=> \/ Len(b) = Len(r1) /\ Fits(b, r1)
               \/ Len(b) = Len(r2) /\ Fits(b, r2)
               \/ Len(b) = Len(r3) /\ Fits(b, r3)
               \/ Len(b) = Len(r4) /\ Fits(b, r4)
               \/ Len(b) = Len(r5) /\ Fits(b, r5)
               \/ Len(b) = Len(r6) /\ Fits(b, r6)
               \/ Len(b) = Len(r7) /\ Fits(b, r7)
               \/ Len(b) = Len(r8) /\ Fits(b, r8)
               \/ Len(b) = Len(r9) /\ Fits(b, r9)
OBVIOUS

\* The rows of three bytes, and of four, by their first two.
RowOfThree(x, y) ==
    \/ x \in {224} /\ y \in 160..191
    \/ x \in 225..236 /\ y \in 128..191
    \/ x \in {237} /\ y \in 128..159
    \/ x \in 238..239 /\ y \in 128..191
RowOfFour(x, y) ==
    \/ x \in {240} /\ y \in 144..191
    \/ x \in 241..243 /\ y \in 128..191
    \/ x \in {244} /\ y \in 128..143

\* Between them nothing is missing but what has an exception.
LEMMA RowsByLeads ==
    ASSUME NEW x \in Nat, NEW y \in Nat
    PROVE  (RowOfThree(x, y) <=> LeadOfThree(x, y)) /\ (RowOfFour(x, y) <=> LeadOfFour(x, y))
BY SMT DEF RowOfThree, LeadOfThree, RowOfFour, LeadOfFour

\* The table says what is well-formed.
LEMMA FormsOfTable ==
    ASSUME NEW b \in Seq(Nat)
    PROVE  WellFormed(b) <=> FormedOne(b) \/ FormedTwo(b) \/ FormedThree(b) \/ FormedFour(b)
<1> DEFINE Rows ==
      \/ Len(b) = 1 /\ b[1] \in 0..127
      \/ Len(b) = 2 /\ b[1] \in 194..223 /\ b[2] \in 128..191
      \/ Len(b) = 3 /\ b[1] \in {224} /\ b[2] \in 160..191 /\ b[3] \in 128..191
      \/ Len(b) = 3 /\ b[1] \in 225..236 /\ b[2] \in 128..191 /\ b[3] \in 128..191
      \/ Len(b) = 3 /\ b[1] \in {237} /\ b[2] \in 128..159 /\ b[3] \in 128..191
      \/ Len(b) = 3 /\ b[1] \in 238..239 /\ b[2] \in 128..191 /\ b[3] \in 128..191
      \/ Len(b) = 4 /\ b[1] \in {240} /\ b[2] \in 144..191 /\ b[3] \in 128..191 /\ b[4] \in 128..191
      \/ Len(b) = 4 /\ b[1] \in 241..243 /\ b[2] \in 128..191 /\ b[3] \in 128..191 /\ b[4] \in 128..191
      \/ Len(b) = 4 /\ b[1] \in {244} /\ b[2] \in 128..143 /\ b[3] \in 128..191 /\ b[4] \in 128..191
<1>1. WellFormed(b) <=> Rows
  <2> DEFINE t == 128..191
             a1 == 0..127
             a2 == 194..223
             a3 == {224}
             b3 == 160..191
             a4 == 225..236
             a5 == {237}
             b5 == 128..159
             a6 == 238..239
             a7 == {240}
             b7 == 144..191
             a8 == 241..243
             a9 == {244}
             b9 == 128..143
             r1 == <<a1>>
             r2 == <<a2, t>>
             r3 == <<a3, b3, t>>
             r4 == <<a4, t, t>>
             r5 == <<a5, b5, t>>
             r6 == <<a6, t, t>>
             r7 == <<a7, b7, t, t>>
             r8 == <<a8, t, t, t>>
             r9 == <<a9, b9, t, t>>
  <2>1. WellFormed(b) <=> \E row \in {r1, r2, r3, r4, r5, r6, r7, r8, r9} : Len(b) = Len(row) /\ Fits(b, row)
    <3>1. WellFormedTable = {r1, r2, r3, r4, r5, r6, r7, r8, r9}
      BY DEF WellFormedTable
    <3> HIDE DEF r1, r2, r3, r4, r5, r6, r7, r8, r9
    <3> QED
      BY <3>1 DEF WellFormed
  <2> HIDE DEF t, a1, a2, a3, b3, a4, a5, b5, a6, a7, b7, a8, a9, b9
  <2>2. (Len(b) = Len(r1) /\ Fits(b, r1)) <=> (Len(b) = 1 /\ b[1] \in a1)
    BY RowsOfTable, Zenon
  <2>3. (Len(b) = Len(r2) /\ Fits(b, r2)) <=> (Len(b) = 2 /\ b[1] \in a2 /\ b[2] \in t)
    BY RowsOfTable, Zenon
  <2>4. (Len(b) = Len(r3) /\ Fits(b, r3)) <=> (Len(b) = 3 /\ b[1] \in a3 /\ b[2] \in b3 /\ b[3] \in t)
    BY RowsOfTable, Zenon
  <2>5. (Len(b) = Len(r4) /\ Fits(b, r4)) <=> (Len(b) = 3 /\ b[1] \in a4 /\ b[2] \in t /\ b[3] \in t)
    BY RowsOfTable, Zenon
  <2>6. (Len(b) = Len(r5) /\ Fits(b, r5)) <=> (Len(b) = 3 /\ b[1] \in a5 /\ b[2] \in b5 /\ b[3] \in t)
    BY RowsOfTable, Zenon
  <2>7. (Len(b) = Len(r6) /\ Fits(b, r6)) <=> (Len(b) = 3 /\ b[1] \in a6 /\ b[2] \in t /\ b[3] \in t)
    BY RowsOfTable, Zenon
  <2>8. (Len(b) = Len(r7) /\ Fits(b, r7))
        <=> (Len(b) = 4 /\ b[1] \in a7 /\ b[2] \in b7 /\ b[3] \in t /\ b[4] \in t)
    BY RowsOfTable, Zenon
  <2>9. (Len(b) = Len(r8) /\ Fits(b, r8))
        <=> (Len(b) = 4 /\ b[1] \in a8 /\ b[2] \in t /\ b[3] \in t /\ b[4] \in t)
    BY RowsOfTable, Zenon
  <2>10. (Len(b) = Len(r9) /\ Fits(b, r9))
         <=> (Len(b) = 4 /\ b[1] \in a9 /\ b[2] \in b9 /\ b[3] \in t /\ b[4] \in t)
    BY RowsOfTable, Zenon
  <2> HIDE DEF r1, r2, r3, r4, r5, r6, r7, r8, r9
  <2>11. WellFormed(b)
         <=> \/ Len(b) = Len(r1) /\ Fits(b, r1)
             \/ Len(b) = Len(r2) /\ Fits(b, r2)
             \/ Len(b) = Len(r3) /\ Fits(b, r3)
             \/ Len(b) = Len(r4) /\ Fits(b, r4)
             \/ Len(b) = Len(r5) /\ Fits(b, r5)
             \/ Len(b) = Len(r6) /\ Fits(b, r6)
             \/ Len(b) = Len(r7) /\ Fits(b, r7)
             \/ Len(b) = Len(r8) /\ Fits(b, r8)
             \/ Len(b) = Len(r9) /\ Fits(b, r9)
    BY <2>1, NineRows
  <2> QED
    BY <2>2, <2>3, <2>4, <2>5, <2>6, <2>7, <2>8, <2>9, <2>10, <2>11
       DEF t, a1, a2, a3, b3, a4, a5, b5, a6, a7, b7, a8, a9, b9
<1> HIDE DEF Rows
<1>2. \A i \in 1..Len(b) : b[i] \in Nat
  BY ElementOfSeq
<1>3. CASE Len(b) = 3
  <2>1. b[1] \in Nat /\ b[2] \in Nat /\ b[3] \in Nat
    BY <1>2, <1>3
  <2>2. Rows <=> RowOfThree(b[1], b[2]) /\ b[3] \in 128..191
    <3>1. ASSUME Rows PROVE RowOfThree(b[1], b[2]) /\ b[3] \in 128..191
      <4>1. Len(b) # 1 /\ Len(b) # 2 /\ Len(b) # 4
        BY <1>3
      <4> QED
        BY <3>1, <4>1, ZenonT(60) DEF Rows, RowOfThree
    <3>2. ASSUME RowOfThree(b[1], b[2]), b[3] \in 128..191 PROVE Rows
      BY <1>3, <2>1, <3>2, SMT DEF Rows, RowOfThree
    <3> QED
      BY <3>1, <3>2
  <2>3. FormedOne(b) \/ FormedTwo(b) \/ FormedThree(b) \/ FormedFour(b)
        <=> LeadOfThree(b[1], b[2]) /\ b[3] \in 128..191
    BY <1>3 DEF FormedOne, FormedTwo, FormedThree, FormedFour
  <2> QED
    BY <1>1, <2>1, <2>2, <2>3, RowsByLeads
<1>4. CASE Len(b) = 4
  <2>1. b[1] \in Nat /\ b[2] \in Nat /\ b[3] \in Nat /\ b[4] \in Nat
    BY <1>2, <1>4
  <2>2. Rows <=> RowOfFour(b[1], b[2]) /\ b[3] \in 128..191 /\ b[4] \in 128..191
    BY <1>4, <2>1, SMT DEF Rows, RowOfFour
  <2>3. FormedOne(b) \/ FormedTwo(b) \/ FormedThree(b) \/ FormedFour(b)
        <=> LeadOfFour(b[1], b[2]) /\ b[3] \in 128..191 /\ b[4] \in 128..191
    BY <1>4 DEF FormedOne, FormedTwo, FormedThree, FormedFour
  <2> QED
    BY <1>1, <2>1, <2>2, <2>3, RowsByLeads
<1>5. CASE Len(b) # 3 /\ Len(b) # 4
  BY <1>1, <1>5 DEF Rows, FormedOne, FormedTwo, FormedThree, FormedFour
<1> QED
  BY <1>3, <1>4, <1>5

\* The value of a sequence of each length.
LEMMA ValueByLength ==
    ASSUME NEW b
    PROVE  /\ Len(b) = 1 => ValueOf(b) = b[1]
           /\ Len(b) = 2 => ValueOf(b) = ((b[1] % 32) * 64) + (b[2] % 64)
           /\ Len(b) = 3 => ValueOf(b) = ((b[1] % 16) * 4096) + ((b[2] % 64) * 64) + (b[3] % 64)
           /\ Len(b) = 4 => ValueOf(b) = ((b[1] % 8) * 262144) + ((b[2] % 64) * 4096)
                                          + ((b[3] % 64) * 64) + (b[4] % 64)
BY SMT DEF ValueOf

\* The encoding of a code point by the standard, as the code points of each
\* length have it.
LEMMA EncodedAsFormed ==
    ASSUME NEW c \in Nat, Scalar(c)
    PROVE  /\ EncodeU8(c) \in Seq(Nat)
           /\ WellFormed(EncodeU8(c)) /\ ValueOf(EncodeU8(c)) = c
<1>0. c <= 1114111 /\ ~(55296 <= c /\ c <= 57343)
  BY SMT DEF Scalar, Between
<1>1. PICK h, x, y, z : SixBits(c, h, x, y, z)
  BY PartsOfSixBits
<1> DEFINE b == EncodeU8(c)
<1>2. CASE c <= 127
  <2>1. b = <<c>>
    BY SMTT(30), <1>2 DEF EncodeU8, Between
  <2> HIDE DEF b
  <2>2. b \in Seq(Nat) /\ Len(b) = 1 /\ b[1] = c
    BY <2>1
  <2>3. FormedOne(b)
    BY SMT, <1>2, <2>2 DEF FormedOne
  <2>4. ValueOf(b) = c
    BY SMT, <2>2, ValueByLength
  <2> QED
    BY SMT, <2>2, <2>3, <2>4, FormsOfTable DEF b
<1>3. CASE c > 127 /\ c <= 2047
  <2>1. b = <<192 + (c \div 64), Trail(c, 0)>>
    BY SMTT(30), <1>3 DEF EncodeU8, Between
  <2>2. h = 0 /\ x = 0 /\ y \in 2..31 /\ c = (64 * y) + z /\ c \div 64 = y
    BY SMT, <1>1, <1>3 DEF SixBits
  <2>3. z \in 0..63 /\ Trail(c, 0) = 128 + z
    BY SMT, <1>1 DEF SixBits
  <2> HIDE DEF b
  <2>4. b \in Seq(Nat) /\ Len(b) = 2 /\ b[1] = 192 + y /\ b[2] = 128 + z
    BY SMT, <2>1, <2>2, <2>3
  <2>5. FormedTwo(b)
    BY SMT, <2>2, <2>3, <2>4 DEF FormedTwo
  <2>6. ValueOf(b) = c
    <3>1. (192 + y) % 32 = y /\ (128 + z) % 64 = z
      BY SMT, <2>2, <2>3
    <3>2. ValueOf(b) = ((b[1] % 32) * 64) + (b[2] % 64)
      BY SMT, <2>4, ValueByLength
    <3> QED
      BY SMT, <2>2, <2>4, <3>1, <3>2
  <2> QED
    BY <2>4, <2>5, <2>6, FormsOfTable DEF b
<1>4. CASE c > 2047 /\ c <= 65535
  <2>1. b = <<224 + (c \div 4096), Trail(c, 1), Trail(c, 0)>>
    BY SMTT(30), <1>4 DEF EncodeU8, Between
  <2>2. h = 0 /\ x \in 0..15 /\ y \in 0..63 /\ c = (4096 * x) + (64 * y) + z /\ c \div 4096 = x
        /\ (x = 0 => y >= 32) /\ (x = 13 => y < 32)
    BY SMT, <1>0, <1>1, <1>4 DEF SixBits
  <2>3. z \in 0..63 /\ Trail(c, 0) = 128 + z /\ Trail(c, 1) = 128 + y
    BY SMT, <1>1 DEF SixBits
  <2> HIDE DEF b
  <2>4. b \in Seq(Nat) /\ Len(b) = 3 /\ b[1] = 224 + x /\ b[2] = 128 + y /\ b[3] = 128 + z
    BY SMT, <2>1, <2>2, <2>3
  <2>5. FormedThree(b)
    BY SMT, <2>2, <2>3, <2>4 DEF FormedThree, LeadOfThree
  <2>6. ValueOf(b) = c
    <3>1. (224 + x) % 16 = x /\ (128 + y) % 64 = y /\ (128 + z) % 64 = z
      BY SMT, <2>2, <2>3
    <3>2. ValueOf(b) = ((b[1] % 16) * 4096) + ((b[2] % 64) * 64) + (b[3] % 64)
      BY SMT, <2>4, ValueByLength
    <3> QED
      BY SMTT(30), <2>2, <2>4, <3>1, <3>2
  <2> QED
    BY <2>4, <2>5, <2>6, FormsOfTable DEF b
<1>5. CASE c > 65535
  <2>1. b = <<240 + (c \div 262144), Trail(c, 2), Trail(c, 1), Trail(c, 0)>>
    BY SMTT(30), <1>0, <1>5 DEF EncodeU8, Between
  <2>2. h \in 0..4 /\ x \in 0..63 /\ y \in 0..63 /\ c \div 262144 = h
        /\ (h = 0 => x >= 16) /\ (h = 4 => x < 16)
    BY SMT, <1>0, <1>1, <1>5 DEF SixBits
  <2>3. z \in 0..63 /\ Trail(c, 0) = 128 + z /\ Trail(c, 1) = 128 + y /\ Trail(c, 2) = 128 + x
    BY SMT, <1>1 DEF SixBits
  <2> HIDE DEF b
  <2>4. b \in Seq(Nat) /\ Len(b) = 4 /\ b[1] = 240 + h /\ b[2] = 128 + x /\ b[3] = 128 + y /\ b[4] = 128 + z
    BY SMT, <2>1, <2>2, <2>3
  <2>5. FormedFour(b)
    BY SMT, <2>2, <2>3, <2>4 DEF FormedFour, LeadOfFour
  <2>6. ValueOf(b) = c
    <3>1. (240 + h) % 8 = h /\ (128 + x) % 64 = x /\ (128 + y) % 64 = y /\ (128 + z) % 64 = z
      BY SMT, <2>2, <2>3
    <3>2. c = (h * 262144) + (x * 4096) + (y * 64) + z
      BY SMT, <1>1 DEF SixBits
    <3> QED
      BY SMT, <2>4, <3>1, <3>2, ValueByLength
  <2> QED
    BY SMT, <2>4, <2>5, <2>6, FormsOfTable DEF b
<1> QED
  BY SMT, <1>0, <1>2, <1>3, <1>4, <1>5

\* At the i-th unit of an input stand the units of b.
PartAt(s, i, b) ==
    /\ s \in Seq(Nat) /\ b \in Seq(Nat) /\ i \in Nat \ {0}
    /\ Len(b) \in Nat \ {0} /\ (i + Len(b)) - 1 <= Len(s)
    /\ \A j \in 1..Len(b) : s[i + (j - 1)] = b[j]

\* They can be cut out of it.
LEMMA PartIsCut ==
    ASSUME NEW s, NEW i, NEW b, PartAt(s, i, b)
    PROVE  SubSeq(s, i, (i + Len(b)) - 1) = b
<1> DEFINE n == Len(b)
           m == (i + n) - 1
           w == SubSeq(s, i, m)
<1>1. s \in Seq(Nat) /\ b \in Seq(Nat) /\ i \in Nat \ {0} /\ n \in Nat \ {0} /\ (i + n) - 1 <= Len(s)
      /\ \A j \in 1..n : s[i + (j - 1)] = b[j]
  BY DEF PartAt
<1>2. \A k \in i..((i + n) - 1) : s[k] \in Nat
  <2> SUFFICES ASSUME NEW k \in i..((i + n) - 1) PROVE s[k] \in Nat
    OBVIOUS
  <2>1. k \in 1..Len(s)
    BY <1>1, LenProperties
  <2> QED
    BY <1>1, <2>1, ElementOfSeq
<1>3. i \in Int /\ m \in Int /\ i <= m /\ (m - i) + 1 = n
  BY <1>1
<1>4. w \in Seq(Nat) /\ Len(w) = n /\ \A j \in 1..n : w[j] = s[(i + j) - 1]
  <2>1. \A k \in i..m : s[k] \in Nat
    BY <1>2
  <2> HIDE DEF m, n
  <2>2. w \in Seq(Nat) /\ Len(w) = (IF i <= m THEN (m - i) + 1 ELSE 0)
        /\ \A j \in 1..(m - i) + 1 : w[j] = s[i + j - 1]
    BY <1>3, <2>1, SubSeqProperties
  <2> QED
    BY <1>3, <2>2
<1>5. ASSUME NEW j \in 1..n PROVE w[j] = b[j]
  <2>1. (i + j) - 1 = i + (j - 1)
    BY <1>1
  <2> QED
    BY <1>1, <1>4, <2>1
<1> HIDE DEF w
<1>6. w = b
  BY <1>1, <1>4, <1>5, SeqEqual
<1> QED
  BY <1>6 DEF w

\* The lesser of two numbers.
LEMMA LesserOfTwo ==
    ASSUME NEW x \in Int, NEW y \in Int
    PROVE  Min({x, y}) = IF x <= y THEN x ELSE y
<1> DEFINE m == IF x <= y THEN x ELSE y
<1>1. m \in {x, y} /\ \A z \in {x, y} : m <= z
  OBVIOUS
<1>2. \A w \in {x, y} : (\A z \in {x, y} : w <= z) => w = m
  OBVIOUS
<1> QED
  BY <1>1, <1>2 DEF Min

\* What the decoder takes the first byte for.
LEMMA LeadByRange ==
    ASSUME NEW x \in Nat
    PROVE  /\ x <= 127 => Lead(x).more = 0 /\ Lead(x).bits = x
           /\ Between(x, 192, 223) => Lead(x).more = 1 /\ Lead(x).bits = x % 32
           /\ Between(x, 224, 239) => Lead(x).more = 2 /\ Lead(x).bits = x % 16
           /\ x >= 240 => Lead(x).more = 3 /\ Lead(x).bits = x % 8
<1>1. ASSUME x <= 127 PROVE Lead(x).more = 0 /\ Lead(x).bits = x
  <2>1. Lead(x) = [bits |-> x % 128, more |-> 0] /\ x % 128 = x
    BY <1>1, SMT DEF Lead, Between
  <2> QED
    BY <1>1, <2>1, SMT
<1>2. ASSUME Between(x, 192, 223) PROVE Lead(x).more = 1 /\ Lead(x).bits = x % 32
  <2>1. Lead(x) = [bits |-> x % 32, more |-> 1]
    BY <1>2, SMT DEF Lead, Between
  <2> QED
    BY <1>2, <2>1, SMT
<1>3. ASSUME Between(x, 224, 239) PROVE Lead(x).more = 2 /\ Lead(x).bits = x % 16
  <2>1. Lead(x) = [bits |-> x % 16, more |-> 2]
    BY <1>3, SMT DEF Lead, Between
  <2> QED
    BY <1>3, <2>1, SMT
<1>4. ASSUME x >= 240 PROVE Lead(x).more = 3 /\ Lead(x).bits = x % 8
  <2>1. Lead(x) = [bits |-> x % 8, more |-> 3]
    BY <1>4, SMT DEF Lead, Between
  <2> QED
    BY <1>4, <2>1, SMT
<1> QED
  BY <1>1, <1>2, <1>3, <1>4, SMT

\* The first byte of a character says how many follow.
LEMMA LeadOfFormed ==
    ASSUME NEW b \in Seq(Nat), WellFormed(b)
    PROVE  /\ Len(b) \in 1..4 /\ Lead(b[1]).more = Len(b) - 1
           /\ Lead(b[1]).bits = IF Len(b) = 1 THEN b[1] ELSE IF Len(b) = 2 THEN b[1] % 32
                                ELSE IF Len(b) = 3 THEN b[1] % 16 ELSE b[1] % 8
<1> DEFINE x == b[1]
           n == Len(b)
<1>1. CASE FormedOne(b)
  <2>1. n = 1 /\ x \in 0..127
    BY <1>1, Zenon DEF FormedOne
  <2> HIDE DEF x, n
  <2>2. x \in Nat /\ x <= 127
    BY <2>1
  <2> QED
    BY <2>1, <2>2, LeadByRange DEF x, n
<1>2. CASE FormedTwo(b)
  <2>1. n = 2 /\ x \in 194..223
    BY <1>2, Zenon DEF FormedTwo
  <2> HIDE DEF x, n
  <2>2. x \in Nat /\ Between(x, 192, 223)
    BY <2>1 DEF Between
  <2> QED
    BY <2>1, <2>2, LeadByRange DEF x, n
<1>3. CASE FormedThree(b)
  <2>1. n = 3 /\ x \in 224..239
    BY <1>3, Zenon DEF FormedThree, LeadOfThree
  <2> HIDE DEF x, n
  <2>2. x \in Nat /\ Between(x, 224, 239)
    BY <2>1 DEF Between
  <2> QED
    BY <2>1, <2>2, LeadByRange DEF x, n
<1>4. CASE FormedFour(b)
  <2>1. n = 4 /\ x \in 240..244
    BY <1>4, Zenon DEF FormedFour, LeadOfFour
  <2> HIDE DEF x, n
  <2>2. x \in Nat /\ x >= 240
    BY <2>1
  <2> QED
    BY <2>1, <2>2, LeadByRange DEF x, n
<1> QED
  BY <1>1, <1>2, <1>3, <1>4, FormsOfTable

\* The decoder of UTF-8 reads a character as what it is.
LEMMA DecodedAsFormed ==
    ASSUME NEW s, NEW i, NEW b, PartAt(s, i, b), WellFormed(b)
    PROVE  DecodeU8(s, i).code = ValueOf(b) /\ DecodeU8(s, i).next = i + Len(b)
<1> DEFINE n == Len(b)
           lead == Lead(s[i])
           got == Min({lead.more, Len(s) - i})
           Bits(k) == IF k <= got THEN (s[i + k] % 64) * Place(lead.more - k) ELSE 0
<1>1. s \in Seq(Nat) /\ b \in Seq(Nat) /\ i \in Nat \ {0} /\ (i + n) - 1 <= Len(s) /\ Len(s) \in Nat
      /\ \A j \in 1..n : s[i + (j - 1)] = b[j]
  BY LenProperties DEF PartAt
<1>2. n \in 1..4 /\ Lead(b[1]).more = n - 1
  BY <1>1, LeadOfFormed
<1>3. s[i] = b[1]
  <2>1. i + (1 - 1) = i /\ 1 \in 1..n
    BY <1>1, <1>2
  <2>2. s[i + (1 - 1)] = b[1]
    BY <1>1, <2>1
  <2> QED
    BY <2>1, <2>2
<1>4. lead.more = n - 1 /\ got = n - 1
  <2>1. lead.more = n - 1 /\ Len(s) - i \in Int /\ n - 1 \in Int /\ n - 1 <= Len(s) - i
    BY <1>1, <1>2, <1>3
  <2>2. Min({n - 1, Len(s) - i}) = n - 1
    BY <2>1, LesserOfTwo
  <2> QED
    BY <2>1, <2>2
<1>5. \A k \in 1..3 : k < n => s[i + k] = b[k + 1]
  <2> SUFFICES ASSUME NEW k \in 1..3, k < n PROVE s[i + k] = b[k + 1]
    OBVIOUS
  <2>1. k + 1 \in 1..n /\ (k + 1) - 1 = k
    BY <1>2
  <2> QED
    BY <1>1, <2>1
<1>6. DecodeU8(s, i) = [code |-> (lead.bits * Place(lead.more)) + Bits(1) + Bits(2) + Bits(3),
                        next |-> i + 1 + got]
  BY DEF DecodeU8
<1>7. lead.bits = IF n = 1 THEN b[1] ELSE IF n = 2 THEN b[1] % 32 ELSE IF n = 3 THEN b[1] % 16 ELSE b[1] % 8
  BY <1>1, <1>3, LeadOfFormed
<1> DEFINE code == (lead.bits * Place(lead.more)) + Bits(1) + Bits(2) + Bits(3)
<1>8. code = ValueOf(b)
  <2> HIDE DEF lead, got
  <2>1. Bits(1) = (IF n > 1 THEN (b[2] % 64) * Place(n - 2) ELSE 0)
        /\ Bits(2) = (IF n > 2 THEN (b[3] % 64) * Place(n - 3) ELSE 0)
        /\ Bits(3) = (IF n > 3 THEN (b[4] % 64) * Place(n - 4) ELSE 0)
    BY <1>2, <1>4, <1>5
  <2> HIDE DEF Bits
  <2>2. /\ Place(0) = 1 /\ Place(1) = 64 /\ Place(2) = 4096 /\ Place(3) = 262144
    BY SMT DEF Place
  <2>3. \A j \in 1..n : b[j] \in Nat
    BY <1>1, ElementOfSeq
  <2>4. CASE n = 1
    BY SMT, <1>4, <1>7, <2>1, <2>2, <2>3, <2>4, ValueByLength
  <2>5. CASE n = 2
    BY SMT, <1>4, <1>7, <2>1, <2>2, <2>3, <2>5, ValueByLength
  <2>6. CASE n = 3
    BY SMT, <1>4, <1>7, <2>1, <2>2, <2>3, <2>6, ValueByLength
  <2>7. CASE n = 4
    BY SMT, <1>4, <1>7, <2>1, <2>2, <2>3, <2>7, ValueByLength
  <2> QED
    BY SMT, <1>2, <2>4, <2>5, <2>6, <2>7
<1> HIDE DEF code
<1>9. i + 1 + got = i + n
  <2> HIDE DEF got
  <2> QED
    BY <1>1, <1>2, <1>4
<1> QED
  BY <1>6, <1>8, <1>9 DEF code

\* What the upper six bits of a unit of UTF-16 tell.
LEMMA Surrogates ==
    ASSUME NEW u \in Nat
    PROVE  /\ HighSurrogate(u) <=> Between(u, 55296, 56319)
           /\ Between(u, 55296, 56319) => u % 1024 = u - 55296
           /\ Between(u, 56320, 57343) => u % 1024 = u - 56320 /\ u \div 1024 = 55
BY SMT DEF HighSurrogate, Between

\* A code point is encoded in UTF-16 as the standard does it.
LEMMA EncodedInU16 ==
    ASSUME NEW c \in Nat, Scalar(c)
    PROVE  EncodeU16(c) \in Seq(Nat) /\ Represents("u16", EncodeU16(c), c)
<1> DEFINE b == EncodeU16(c)
<1>1. CASE c <= 65535
  <2>1. ~HighSurrogate(c) /\ c % 65536 = c
    BY <1>1, Surrogates, SMT DEF Scalar, Between
  <2>2. b = <<c>>
    BY <1>1, <2>1, SMT DEF EncodeU16
  <2>3. Represents("u16", <<c>>, c)
    BY <1>1, SMT DEF Represents
  <2> HIDE DEF b
  <2> QED
    BY <2>2, <2>3 DEF b
<1>2. CASE c > 65535
  <2>1. c <= 1114111
    BY SMT DEF Scalar, Between
  <2>2. PICK q \in Nat, r \in 0..1023 : c = (1024 * q) + r
    <3>1. c \div 1024 \in Nat /\ c % 1024 \in 0..1023 /\ c = (1024 * (c \div 1024)) + (c % 1024)
      BY SMT
    <3> QED
      BY <3>1, SMT
  <2>3. q >= 64 /\ q - 64 <= 1023
    BY <1>2, <2>1, <2>2, SMT
  <2>4. c % 1024 = r
    BY <2>2, SMT
  <2>5. ((c - 65536) \div 1024) % 1024 = q - 64
    <3> DEFINE d == c - 65536
               e == q - 64
    <3>1. d = (1024 * e) + r /\ e \in Nat /\ d \in Nat
      BY <2>2, <2>3, <1>2, SMT
    <3> HIDE DEF d, e
    <3>2. d \div 1024 = e
      BY <3>1, <2>2, SMT
    <3>3. e % 1024 = e
      BY <3>1, <2>3, SMT DEF e
    <3> QED
      BY <3>2, <3>3, SMT DEF d, e
  <2>6. b = <<55296 + (((c - 65536) \div 1024) % 1024), 56320 + (c % 1024)>>
    BY <1>2, SMT DEF EncodeU16
  <2> HIDE DEF b
  <2>7. b = <<55296 + (q - 64), 56320 + r>>
    BY <2>4, <2>5, <2>6, SMT
  <2>8. b \in Seq(Nat) /\ Len(b) = 2 /\ b[1] = 55296 + (q - 64) /\ b[2] = 56320 + r
    BY <2>2, <2>3, <2>7, SMT
  <2>9. Between(b[1], 55296, 56319) /\ Between(b[2], 56320, 57343)
    BY <2>2, <2>3, <2>8, SMT DEF Between
  <2>10. c = 65536 + ((b[1] - 55296) * 1024) + (b[2] - 56320)
    BY <2>2, <2>8, SMT
  <2>11. Represents("u16", b, c)
    BY <2>8, <2>9, <2>10, SMT DEF Represents
  <2> QED
    BY <2>8, <2>11 DEF b
<1> QED
  BY <1>1, <1>2, SMT

\* What represents a code point is one unit, or a pair, or a well-formed
\* sequence of bytes.
LEMMA RepresentedByUnits ==
    ASSUME NEW b, NEW c
    PROVE  /\ Represents("u8", b, c) <=> (WellFormed(b) /\ ValueOf(b) = c)
           /\ Represents("mb", b, c) <=> (WellFormed(b) /\ ValueOf(b) = c)
           /\ Represents("u32", b, c) <=> (b = <<c>>)
           /\ Represents("wide", b, c) <=> (b = <<c>>)
BY SMT DEF Represents

\* It is not empty.
LEMMA RepresentedByMore ==
    ASSUME NEW e \in Encodings, NEW b \in Seq(Nat), NEW c, Represents(e, b, c)
    PROVE  Len(b) \in Nat \ {0}
<1>1. CASE e \in {"u8", "mb"}
  BY <1>1, RepresentedByUnits, LeadOfFormed
<1>2. CASE e \in {"u32", "wide"}
  BY <1>2, RepresentedByUnits
<1>3. CASE e = "u16"
  BY <1>3, SMTT(30) DEF Represents
<1> QED
  BY <1>1, <1>2, <1>3 DEF Encodings

\* Every encoder gives what represents a character.
LEMMA EncodedAsRepresented ==
    ASSUME NEW e \in Utf, NEW c \in Nat, Scalar(c)
    PROVE  Encode(e, c) \in Seq(Nat) /\ Represents(e, Encode(e, c), c)
<1>1. CASE e = "u8"
  <2>1. Encode(e, c) = EncodeU8(c)
    BY <1>1 DEF Encode
  <2> QED
    BY <1>1, <2>1, EncodedAsFormed, RepresentedByUnits
<1>2. CASE e = "u16"
  <2>1. Encode(e, c) = EncodeU16(c)
    BY <1>2 DEF Encode
  <2> QED
    BY <1>2, <2>1, EncodedInU16
<1>3. CASE e = "u32"
  <2>1. Encode(e, c) = <<c>>
    BY <1>3 DEF Encode
  <2>2. <<c>> \in Seq(Nat)
    OBVIOUS
  <2>3. Represents("u32", <<c>>, c)
    BY RepresentedByUnits, Zenon
  <2> QED
    BY <1>3, <2>1, <2>2, <2>3
<1> QED
  BY <1>1, <1>2, <1>3 DEF Utf

\* And every decoder reads that as what it represents.
LEMMA DecodedAsRepresented ==
    ASSUME NEW e \in Utf, NEW c \in Nat, Scalar(c), NEW s, NEW i, NEW b,
           PartAt(s, i, b), Represents(e, b, c)
    PROVE  Decode(e, s, i).code = c /\ Decode(e, s, i).next = i + Len(b)
<1>0. s \in Seq(Nat) /\ b \in Seq(Nat) /\ i \in Nat \ {0} /\ Len(b) \in Nat \ {0}
      /\ (i + Len(b)) - 1 <= Len(s) /\ Len(s) \in Nat /\ \A j \in 1..Len(b) : s[i + (j - 1)] = b[j]
  BY LenProperties DEF PartAt
<1>1. CASE e = "u8"
  <2>1. Decode(e, s, i) = DecodeU8(s, i)
    BY <1>1 DEF Decode
  <2>2. WellFormed(b) /\ ValueOf(b) = c
    BY <1>1, RepresentedByUnits
  <2> QED
    BY <2>1, <2>2, DecodedAsFormed
<1>2. s[i] = b[1]
  <2>1. i + (1 - 1) = i /\ 1 \in 1..Len(b)
    BY <1>0
  <2>2. s[i + (1 - 1)] = b[1]
    BY <1>0, <2>1
  <2> QED
    BY <2>1, <2>2
<1>3. CASE e = "u16" /\ b = <<c>> /\ c < 65536
  <2>1. s[i] = c /\ Len(b) = 1
    BY <1>2, <1>3, SMT
  <2>2. ~HighSurrogate(c)
    BY Surrogates, SMT DEF Scalar, Between
  <2>3. DecodeU16(s, i) = [code |-> s[i], next |-> i + 1]
    BY <2>1, <2>2, SMT DEF DecodeU16
  <2>4. Decode(e, s, i) = DecodeU16(s, i)
    BY <1>3, SMT DEF Decode
  <2> QED
    BY <2>1, <2>3, <2>4, SMT
<1>4. CASE /\ e = "u16" /\ Len(b) = 2
           /\ Between(b[1], 55296, 56319) /\ Between(b[2], 56320, 57343)
           /\ c = 65536 + ((b[1] - 55296) * 1024) + (b[2] - 56320)
  <2>1. b[1] \in Nat /\ b[2] \in Nat
    <3>1. 1 \in 1..Len(b) /\ 2 \in 1..Len(b)
      BY <1>4, SMT
    <3>2. \A j \in 1..Len(b) : b[j] \in Nat
      BY <1>0, ElementOfSeq
    <3> QED
      BY <3>1, <3>2, SMT
  <2>2. s[i + 1] = b[2] /\ i < Len(s)
    <3>1. i + (2 - 1) = i + 1 /\ 2 \in 1..Len(b)
      BY <1>0, <1>4, SMT
    <3>2. s[i + (2 - 1)] = b[2]
      BY <1>0, <3>1, SMT
    <3> QED
      BY <1>0, <1>4, <3>1, <3>2, SMT
  <2>3. HighSurrogate(s[i]) /\ s[i] % 1024 = b[1] - 55296 /\ s[i + 1] % 1024 = b[2] - 56320
    <3> DEFINE x == b[1]
               y == b[2]
    <3> HIDE DEF x, y
    <3>1. x \in Nat /\ y \in Nat /\ Between(x, 55296, 56319) /\ Between(y, 56320, 57343)
      BY <1>4, <2>1, SMT DEF x, y
    <3>2. HighSurrogate(x) /\ x % 1024 = x - 55296
      BY <3>1, Surrogates, SMT
    <3>3. y % 1024 = y - 56320
      BY <3>1, Surrogates, SMT
    <3> QED
      BY <1>2, <2>2, <3>2, <3>3, SMT DEF x, y
  <2>4. i # Len(s)
    BY <1>0, <2>2, SMT
  <2>5. DecodeU16(s, i) = [code |-> 65536 + ((s[i] % 1024) * 1024) + (s[i + 1] % 1024), next |-> i + 2]
    BY <2>3, <2>4, SMT DEF DecodeU16
  <2>6. Decode(e, s, i) = DecodeU16(s, i)
    BY <1>4, SMT DEF Decode
  <2>7. c = 65536 + ((s[i] % 1024) * 1024) + (s[i + 1] % 1024)
    BY <1>4, <2>3, SMT
  <2> QED
    BY <1>4, <2>5, <2>6, <2>7, SMT
<1>5. CASE e = "u32"
  <2>1. b = <<c>> /\ Len(b) = 1
    BY <1>5, RepresentedByUnits
  <2>2. Decode(e, s, i) = [code |-> s[i], next |-> i + 1]
    BY <1>5 DEF Decode
  <2> QED
    BY <1>2, <2>1, <2>2
<1>6. e = "u16" => \/ b = <<c>> /\ c < 65536
                   \/ /\ Len(b) = 2 /\ Between(b[1], 55296, 56319) /\ Between(b[2], 56320, 57343)
                      /\ c = 65536 + ((b[1] - 55296) * 1024) + (b[2] - 56320)
  BY SMT DEF Represents
<1> QED
  BY <1>1, <1>3, <1>4, <1>5, <1>6, SMT DEF Utf

\* The C library finds a character where one stands.
LEMMA LengthOfFormed ==
    ASSUME NEW s, NEW i, NEW b, PartAt(s, i, b), WellFormed(b)
    PROVE  MbLength(s, i) = Len(b)
<1> DEFINE n == Len(b)
           most == Min({4, Len(s) - i + 1})
           fitting == {k \in 1..most : WellFormed(SubSeq(s, i, i + k - 1))}
<1>1. s \in Seq(Nat) /\ b \in Seq(Nat) /\ i \in Nat \ {0} /\ (i + n) - 1 <= Len(s) /\ Len(s) \in Nat
  BY LenProperties DEF PartAt
<1>2. n \in 1..4
  BY <1>1, LeadOfFormed
<1>0. i \in Nat \ {0} /\ Len(s) \in Nat /\ n \in Nat /\ (i + n) - 1 <= Len(s) /\ n >= 1 /\ n <= 4
  <2>1. i \in Nat \ {0} /\ Len(s) \in Nat /\ (i + n) - 1 <= Len(s)
    BY <1>1
  <2> HIDE DEF n
  <2>2. n \in Nat /\ n >= 1 /\ n <= 4
    BY <1>2
  <2> QED
    BY <2>1, <2>2
<1> HIDE DEF n
<1>3. most \in Nat /\ n <= most /\ i + most - 1 <= Len(s)
  <2>1. Len(s) - i + 1 \in Int /\ n <= Len(s) - i + 1
    BY <1>0
  <2>2. most = IF 4 <= Len(s) - i + 1 THEN 4 ELSE Len(s) - i + 1
    BY <2>1, LesserOfTwo
  <2> HIDE DEF most
  <2>3. CASE 4 <= Len(s) - i + 1
    BY <1>0, <2>2, <2>3
  <2>4. CASE ~(4 <= Len(s) - i + 1)
    BY <1>0, <2>1, <2>2, <2>4
  <2> QED
    BY <2>3, <2>4
<1> HIDE DEF most
<1>4. n \in fitting
  <2>1. SubSeq(s, i, (i + n) - 1) = b
    BY PartIsCut DEF n
  <2>2. (i + n) - 1 = i + n - 1 /\ n \in 1..most
    BY <1>0, <1>3
  <2>3. WellFormed(SubSeq(s, i, i + n - 1))
    BY <2>1, <2>2
  <2> QED
    BY <2>2, <2>3
<1>5. ASSUME NEW k \in fitting PROVE k = n
  <2>1. k \in 1..most /\ WellFormed(SubSeq(s, i, (i + k) - 1))
    <3>1. k \in 1..most /\ WellFormed(SubSeq(s, i, i + k - 1))
      OBVIOUS
    <3>2. (i + k) - 1 = i + k - 1
      BY <1>1, <3>1
    <3> QED
      BY <3>1, <3>2
  <2> DEFINE m == (i + k) - 1
             w == SubSeq(s, i, m)
  <2>2. i \in Int /\ m \in Int /\ i <= m /\ (m - i) + 1 = k /\ m <= Len(s) /\ k \in Nat
    BY <1>1, <1>3, <2>1
  <2>3. \A j \in i..m : s[j] \in Nat
    <3> SUFFICES ASSUME NEW j \in i..m PROVE s[j] \in Nat
      OBVIOUS
    <3>1. j \in 1..Len(s)
      BY <1>1, <2>2
    <3> QED
      BY <1>1, <3>1, ElementOfSeq
  <2>4. WellFormed(w)
    BY <2>1
  <2> HIDE DEF m
  <2>5. w \in Seq(Nat) /\ Len(w) = (IF i <= m THEN (m - i) + 1 ELSE 0)
        /\ \A j \in 1..(m - i) + 1 : w[j] = s[i + j - 1]
    BY <2>2, <2>3, SubSeqProperties
  <2>6. w \in Seq(Nat) /\ Len(w) = k /\ w[1] = s[i]
    BY <1>1, <2>1, <2>2, <2>5
  <2>7. s[i] = b[1]
    <3>1. i + (1 - 1) = i /\ 1 \in 1..n
      BY <1>0
    <3>2. s[i + (1 - 1)] = b[1]
      BY <3>1 DEF PartAt, n
    <3> QED
      BY <3>1, <3>2
  <2> HIDE DEF w
  <2>8. Lead(w[1]).more = k - 1 /\ Lead(b[1]).more = n - 1
    BY <1>1, <2>4, <2>6, LeadOfFormed DEF n
  <2> QED
    BY <1>0, <2>2, <2>6, <2>7, <2>8
<1>6. Min(fitting) = n
  <2> HIDE DEF fitting
  <2>0. fitting = {n}
    BY <1>4, <1>5
  <2>1. fitting = {n} /\ n \in Int
    BY <1>0, <2>0
  <2>2. {n} = {n, n}
    OBVIOUS
  <2>3. Min({n, n}) = IF n <= n THEN n ELSE n
    BY <2>1, LesserOfTwo
  <2> QED
    BY <2>1, <2>2, <2>3
<1>7. MbLength(s, i) = Min(fitting)
  BY <1>4 DEF MbLength, most
<1> QED
  BY <1>6, <1>7 DEF n

\* s is the parts one after another, and at[k] is where the k-th ends.
Laid(parts, at, s) ==
    /\ s \in Seq(Nat) /\ parts \in Seq(Seq(Nat))
    /\ at \in [0..Len(parts) -> Nat] /\ at[0] = 0 /\ at[Len(parts)] = Len(s)
    /\ \A k \in 1..Len(parts) :
          /\ at[k] = at[k - 1] + Len(parts[k])
          /\ \A j \in 1..Len(parts[k]) : s[at[k - 1] + j] = parts[k][j]

\* Sequences put one behind the other, from the first one on.
Joins(parts, f) ==
    /\ f \in [0..Len(parts) -> Seq(Nat)] /\ f[0] = <<>>
    /\ \A k \in 1..Len(parts) : f[k] = f[k - 1] \o parts[k]

\* FlattenSeq puts them so.
LEMMA FlattenJoins ==
    ASSUME NEW parts \in Seq(Seq(Nat))
    PROVE  \E f : Joins(parts, f) /\ FlattenSeq(parts) = f[Len(parts)]
<1> DEFINE n == Len(parts)
           T == Seq(Nat)
           Is(g) == g = [k \in 1..n |-> IF k = 1 THEN parts[k] ELSE g[k - 1] \o parts[k]]
           round(k) == [t \in T |-> IF k \in 1..n THEN t \o parts[k] ELSE t]
           step == [k \in Nat |-> round(k)]
<1>1. n \in Nat /\ \A k \in 1..n : parts[k] \in T
  BY LenProperties, ElementOfSeq
<1>2. ASSUME NEW k \in Nat PROVE step[k] \in [T -> T]
  <2> SUFFICES ASSUME NEW t \in T, k \in 1..n PROVE t \o parts[k] \in T
    OBVIOUS
  <2> QED
    BY <1>1, ConcatProperties
<1>3. \E f : Iterates(T, <<>>, step, n, f)
  <2>1. <<>> \in T
    OBVIOUS
  <2> HIDE DEF step, n, T
  <2> QED
    BY <1>1, <1>2, <2>1, Iteration
<1>4. PICK f \in [0..n -> T] : f[0] = <<>> /\ \A k \in 1..n : f[k] = step[k][f[k - 1]]
  BY <1>3 DEF Iterates
<1>5. ASSUME NEW k \in 1..n PROVE f[k] = f[k - 1] \o parts[k]
  <2>1. f[k - 1] \in T /\ k \in Nat
    <3>1. k - 1 \in 0..n /\ k \in Nat
      BY <1>1
    <3> HIDE DEF T, n
    <3> QED
      BY <3>1
  <2>2. step[k][f[k - 1]] = f[k - 1] \o parts[k]
    BY <2>1
  <2> QED
    BY <1>4, <2>2
<1> HIDE DEF step
<1>6. Joins(parts, f)
  BY <1>4, <1>5 DEF Joins
<1>7. CASE n = 0
  <2>1. FlattenSeq(parts) = parts /\ parts = <<>>
    BY <1>7, EmptySeq DEF FlattenSeq
  <2> QED
    BY <1>4, <1>6, <1>7, <2>1
<1>8. CASE n # 0
  <2> DEFINE h == [k \in 1..n |-> f[k]]
  <2>1. Is(h)
    <3>1. ASSUME NEW k \in 1..n PROVE h[k] = IF k = 1 THEN parts[k] ELSE h[k - 1] \o parts[k]
      <4>1. CASE k = 1
        <5>1. f[1] = f[0] \o parts[1] /\ parts[1] \in T
          <6>1. 1 \in 1..n /\ 1 - 1 = 0
            BY <1>1, <1>8
          <6>2. f[1] = f[1 - 1] \o parts[1]
            BY <1>5, <6>1
          <6> QED
            BY <1>1, <6>1, <6>2
        <5>2. <<>> \o parts[1] = parts[1]
          BY <5>1, ConcatEmptySeq
        <5> QED
          BY <1>4, <4>1, <5>1, <5>2
      <4>2. CASE k # 1
        <5>1. k - 1 \in 1..n
          BY <1>1, <4>2
        <5> QED
          BY <1>5, <4>2, <5>1
      <4> QED
        BY <4>1, <4>2
    <3> HIDE DEF h
    <3>2. h = [k \in 1..n |-> h[k]]
      BY DEF h
    <3> QED
      BY <3>1, <3>2
  <2> DEFINE out == CHOOSE g : Is(g)
  <2>2. out = [k \in 1..n |-> IF k = 1 THEN parts[k] ELSE out[k - 1] \o parts[k]]
    <3> HIDE DEF Is, h
    <3>1. Is(out)
      BY <2>1
    <3> QED
      BY <3>1 DEF Is
  <2>3. FlattenSeq(parts) = out[n]
    BY <1>8 DEF FlattenSeq
  <2> HIDE DEF out
  <2> DEFINE S == {k \in Nat : k + 1 <= n => out[k + 1] = h[k + 1]}
  <2>4. 0 \in S
    <3>1. 1 \in 1..n
      BY <1>1, <1>8
    <3>2. out[1] = parts[1] /\ h[1] = parts[1]
      <4> HIDE DEF h
      <4> QED
        BY <2>1, <2>2, <3>1
    <3> HIDE DEF h
    <3> QED
      BY <3>2
  <2>5. ASSUME NEW k \in Nat, k \in S PROVE k + 1 \in S
    <3> SUFFICES ASSUME (k + 1) + 1 <= n PROVE out[(k + 1) + 1] = h[(k + 1) + 1]
      OBVIOUS
    <3> DEFINE l == (k + 1) + 1
    <3>1. l \in 1..n /\ l # 1 /\ l - 1 = k + 1 /\ out[k + 1] = h[k + 1]
      BY <1>1, <2>5
    <3> HIDE DEF l, h
    <3>2. out[l] = out[l - 1] \o parts[l]
      BY <2>2, <3>1
    <3>3. h[l] = h[l - 1] \o parts[l]
      BY <2>1, <3>1
    <3> QED
      BY <3>1, <3>2, <3>3 DEF l
  <2> HIDE DEF S
  <2>6. Nat \subseteq S
    BY <2>4, <2>5, InductionOnSet
  <2>7. out[n] = f[n]
    <3>1. n - 1 \in Nat /\ (n - 1) + 1 = n /\ n \in 1..n
      BY <1>1, <1>8
    <3>2. n - 1 \in S
      BY <2>6, <3>1
    <3> QED
      BY <3>1, <3>2 DEF S
  <2> QED
    BY <1>6, <2>3, <2>7
<1> QED
  BY <1>7, <1>8

\* What comes first stays where it is.
LEMMA FlattenLays ==
    ASSUME NEW parts \in Seq(Seq(Nat))
    PROVE  \E at : Laid(parts, at, FlattenSeq(parts))
<1> DEFINE n == Len(parts)
<1>1. PICK f : Joins(parts, f) /\ FlattenSeq(parts) = f[n]
  BY FlattenJoins
<1>2. f \in [0..n -> Seq(Nat)] /\ f[0] = <<>> /\ \A k \in 1..n : f[k] = f[k - 1] \o parts[k]
  BY <1>1 DEF Joins
<1>3. n \in Nat /\ \A k \in 1..n : parts[k] \in Seq(Nat)
  BY LenProperties, ElementOfSeq
<1> DEFINE at == [k \in 0..n |-> Len(f[k])]
<1>4. at \in [0..n -> Nat] /\ at[0] = 0 /\ at[n] = Len(f[n])
  <2>1. \A k \in 0..n : f[k] \in Seq(Nat) /\ Len(f[k]) \in Nat
    BY <1>2, LenProperties
  <2>2. 0 \in 0..n /\ n \in 0..n
    BY <1>3
  <2> QED
    BY <1>2, <2>1, <2>2
<1>5. ASSUME NEW k \in 1..n
      PROVE  /\ k - 1 \in 0..n /\ k \in 0..n /\ Len(f[k - 1]) \in Nat /\ Len(parts[k]) \in Nat
             /\ Len(f[k]) = Len(f[k - 1]) + Len(parts[k])
             /\ \A j \in 1..Len(f[k - 1]) : f[k][j] = f[k - 1][j]
             /\ \A j \in 1..Len(parts[k]) : f[k][Len(f[k - 1]) + j] = parts[k][j]
  <2>1. k - 1 \in 0..n /\ k \in 0..n
    BY <1>3
  <2>2. f[k - 1] \in Seq(Nat) /\ parts[k] \in Seq(Nat) /\ f[k] = f[k - 1] \o parts[k]
    BY <1>2, <1>3, <2>1
  <2> DEFINE a == f[k - 1]
             b == parts[k]
  <2> HIDE DEF a, b
  <2>3. a \in Seq(Nat) /\ b \in Seq(Nat) /\ Len(a) \in Nat /\ Len(b) \in Nat
    BY <2>2, LenProperties DEF a, b
  <2>4. Len(a \o b) = Len(a) + Len(b)
        /\ \A i \in 1..Len(a) + Len(b) : (a \o b)[i] = IF i <= Len(a) THEN a[i] ELSE b[i - Len(a)]
    BY <2>3, ConcatProperties
  <2>5. ASSUME NEW j \in 1..Len(a) PROVE (a \o b)[j] = a[j]
    <3>1. j \in 1..Len(a) + Len(b) /\ j <= Len(a)
      BY <2>3
    <3> QED
      BY <2>4, <3>1
  <2>6. ASSUME NEW j \in 1..Len(b) PROVE (a \o b)[Len(a) + j] = b[j]
    <3>1. Len(a) + j \in 1..Len(a) + Len(b) /\ ~(Len(a) + j <= Len(a)) /\ (Len(a) + j) - Len(a) = j
      BY <2>3
    <3> QED
      BY <2>4, <3>1
  <2> QED
    BY <2>1, <2>2, <2>3, <2>4, <2>5, <2>6 DEF a, b
<1>6. ASSUME NEW k \in 0..n, NEW j \in 1..Len(f[k])
      PROVE  f[n][j] = f[k][j]
  <2> DEFINE S == {d \in Nat : k + d <= n => (j <= Len(f[k + d]) /\ f[k + d][j] = f[k][j])}
  <2>0. j \in Nat /\ j >= 1
    <3>1. Len(f[k]) \in Nat
      BY <1>2, <1>3, LenProperties
    <3> QED
      BY <3>1
  <2>1. 0 \in S
    <3>1. k + 0 = k /\ Len(f[k]) \in Nat
      BY <1>2, <1>3, LenProperties
    <3> QED
      BY <3>1
  <2>2. ASSUME NEW d \in Nat, d \in S PROVE d + 1 \in S
    <3> SUFFICES ASSUME k + (d + 1) <= n
                 PROVE  j <= Len(f[k + (d + 1)]) /\ f[k + (d + 1)][j] = f[k][j]
      OBVIOUS
    <3> DEFINE l == k + (d + 1)
    <3>1. l \in 1..n /\ l - 1 = k + d /\ k + d <= n
      BY <1>3
    <3>2. j <= Len(f[k + d]) /\ f[k + d][j] = f[k][j]
      BY <2>2, <3>1
    <3> HIDE DEF l
    <3>3. Len(f[l - 1]) \in Nat /\ Len(parts[l]) \in Nat /\ Len(f[l]) = Len(f[l - 1]) + Len(parts[l])
          /\ \A i \in 1..Len(f[l - 1]) : f[l][i] = f[l - 1][i]
      BY <1>5, <3>1
    <3>4. j <= Len(f[l]) /\ j \in 1..Len(f[l - 1])
      <4> DEFINE x == Len(f[l - 1])
                 y == Len(parts[l])
      <4>1. x \in Nat /\ y \in Nat /\ Len(f[l]) = x + y /\ j <= x
        BY <3>1, <3>2, <3>3
      <4> HIDE DEF x, y
      <4>2. j <= x + y /\ j \in 1..x
        BY <2>0, <4>1
      <4> QED
        BY <4>1, <4>2 DEF x
    <3> QED
      BY <3>1, <3>2, <3>3, <3>4 DEF l
  <2> HIDE DEF S
  <2>3. Nat \subseteq S
    BY <2>1, <2>2, InductionOnSet
  <2>4. n - k \in Nat /\ k + (n - k) = n
    BY <1>3
  <2>5. n - k \in S
    BY <2>3, <2>4
  <2> QED
    BY <2>4, <2>5 DEF S
<1>7. ASSUME NEW k \in 1..n
      PROVE  /\ at[k] = at[k - 1] + Len(parts[k])
             /\ \A j \in 1..Len(parts[k]) : f[n][at[k - 1] + j] = parts[k][j]
  <2>1. at[k] = Len(f[k]) /\ at[k - 1] = Len(f[k - 1])
    BY <1>5
  <2>2. ASSUME NEW j \in 1..Len(parts[k])
        PROVE  f[n][Len(f[k - 1]) + j] = parts[k][j]
    <3>1. k \in 0..n /\ Len(f[k - 1]) + j \in 1..Len(f[k])
      <4> DEFINE x == Len(f[k - 1])
                 y == Len(parts[k])
      <4>1. k \in 0..n /\ x \in Nat /\ y \in Nat /\ Len(f[k]) = x + y
        BY <1>5
      <4>2. j \in 1..y
        BY <2>2
      <4> HIDE DEF x, y
      <4>3. x + j \in 1..(x + y)
        BY <4>1, <4>2
      <4> QED
        BY <4>1, <4>3 DEF x
    <3>2. f[n][Len(f[k - 1]) + j] = f[k][Len(f[k - 1]) + j]
      BY <1>6, <3>1
    <3> QED
      BY <1>5, <3>2
  <2> QED
    BY <1>5, <2>1, <2>2
<1> HIDE DEF at
<1>8. Laid(parts, at, f[n])
  <2>1. f[n] \in Seq(Nat)
    BY <1>2, <1>3
  <2> QED
    BY <1>4, <1>7, <2>1 DEF Laid
<1> QED
  BY <1>1, <1>8

\* Whatever the text: a conversion stands inside its input, and only the first
\* one reads wide characters, each of which is one byte long.
ConvInv ==
    /\ path \in Paths /\ leg \in 1..(Len(path) - 1)
    /\ text \in Seq(Nat) /\ input \in Seq(Nat) /\ it \in 1..(Len(input) + 1)
    /\ chunks \in Seq(Seq(Nat)) /\ pending \in Nat
    /\ From = "wide" => leg = 1 /\ \A i \in 1..Len(input) : input[i] <= 127

\* The encodings of a path.
LEMMA EncodingsOfPath ==
    ASSUME NEW p \in Paths
    PROVE  /\ Len(p) \in Nat /\ Len(p) >= 2 /\ \A i \in 1..Len(p) : p[i] \in Encodings
           /\ \A i \in 1..(Len(p) - 1) : p[i] = "wide" => i = 1 /\ Units("wide") \subseteq 0..127
<1>1. p \in Seq(Encodings) /\ Len(p) >= 2
  BY CodecvtAssumption
<1>2. Len(p) \in Nat /\ \A i \in 1..Len(p) : p[i] \in Encodings
  BY <1>1, LenProperties, ElementOfSeq
<1>3. ASSUME NEW i \in 1..(Len(p) - 1), p[i] = "wide" PROVE i = 1 /\ Units("wide") \subseteq 0..127
  <2>1. ~(i \in 2..(Len(p) - 1))
    BY <1>3, WideAssumption
  <2>2. i = 1
    BY <1>2, <2>1
  <2> QED
    BY <1>1, <1>3, <2>2, WideAssumption
<1> QED
  BY <1>1, <1>2, <1>3

\* What encoders give are units.
LEMMA EncodedUnits ==
    ASSUME NEW c \in Nat
    PROVE  /\ EncodeU8(c) \in Seq(Nat) /\ ToMb(c) \in Seq(Nat)
           /\ \A e \in Utf : Encode(e, c) \in Seq(Nat)
<1>1. PICK h, x, y, z : SixBits(c, h, x, y, z)
  BY PartsOfSixBits
<1>2. /\ c \div 64 \in Nat /\ c \div 4096 \in Nat /\ c \div 262144 \in Nat
      /\ Trail(c, 0) \in Nat /\ Trail(c, 1) \in Nat /\ Trail(c, 2) \in Nat
  BY <1>1, SMT DEF SixBits
<1>3. EncodeU8(c) \in Seq(Nat)
  <2>1. CASE c <= 127
    BY <2>1, SMT DEF EncodeU8, Between
  <2>2. CASE Between(c, 128, 2047)
    <3>1. EncodeU8(c) = <<192 + (c \div 64), Trail(c, 0)>>
      BY <2>2, SMTT(30) DEF EncodeU8, Between
    <3> QED
      BY <1>2, <3>1, SMT
  <2>3. CASE Between(c, 2048, 65535)
    <3>1. EncodeU8(c) = <<224 + (c \div 4096), Trail(c, 1), Trail(c, 0)>>
      BY <2>3, SMTT(30) DEF EncodeU8, Between
    <3> QED
      BY <1>2, <3>1, SMT
  <2>4. CASE Between(c, 65536, 1114111)
    <3>1. EncodeU8(c) = <<240 + (c \div 262144), Trail(c, 2), Trail(c, 1), Trail(c, 0)>>
      BY <2>4, SMT DEF EncodeU8, Between
    <3> QED
      BY <1>2, <3>1, SMT
  <2>5. CASE c > 1114111
    <3>1. EncodeU8(c) = <<>>
      BY <2>5, SMT DEF EncodeU8, Between
    <3> QED
      BY <3>1, SMT
  <2> QED
    BY <2>1, <2>2, <2>3, <2>4, <2>5, SMT DEF Between
<1>4. ToMb(c) \in Seq(Nat)
  BY <1>3, EmptySeq DEF ToMb
<1>5. EncodeU16(c) \in Seq(Nat)
  <2>1. 55296 + (((c - 65536) \div 1024) % 1024) \in Nat /\ 56320 + (c % 1024) \in Nat /\ c % 65536 \in Nat
    BY SMT
  <2>2. EncodeU16(c) \in {<<55296 + (((c - 65536) \div 1024) % 1024), 56320 + (c % 1024)>>, <<c % 65536>>}
    BY SMT DEF EncodeU16
  <2> DEFINE first == 55296 + (((c - 65536) \div 1024) % 1024)
             second == 56320 + (c % 1024)
             only == c % 65536
  <2> HIDE DEF first, second, only
  <2>3. <<first, second>> \in Seq(Nat) /\ <<only>> \in Seq(Nat)
    <3>1. first \in Nat /\ second \in Nat /\ only \in Nat
      BY <2>1, SMT DEF first, second, only
    <3> QED
      BY <3>1, SMT
  <2>4. EncodeU16(c) = <<first, second>> \/ EncodeU16(c) = <<only>>
    BY <2>2, SMT DEF first, second, only
  <2> QED
    BY <2>3, <2>4
<1> QED
  BY <1>3, <1>4, <1>5, SMT DEF Encode, Utf

\* What the decoders give is a number, and they read one unit or more and
\* none behind the end.
LEMMA DecodedInside ==
    ASSUME NEW e \in Utf, NEW s \in Seq(Nat), NEW i \in 1..Len(s)
    PROVE  /\ Decode(e, s, i).code \in Nat
           /\ Decode(e, s, i).next \in 1..(Len(s) + 1)
<1>0. Len(s) \in Nat /\ \A j \in 1..Len(s) : s[j] \in Nat
  BY LenProperties, ElementOfSeq
<1>1. i \in Nat /\ i >= 1 /\ i <= Len(s) /\ s[i] \in Nat
  BY <1>0
<1>2. CASE e = "u8"
  <2> DEFINE lead == Lead(s[i])
             got == Min({lead.more, Len(s) - i})
             Bits(k) == IF k <= got THEN (s[i + k] % 64) * Place(lead.more - k) ELSE 0
  <2>1. lead.more \in 0..3 /\ lead.bits \in Nat
    <3>1. lead \in {[bits |-> s[i] % 8, more |-> 3], [bits |-> s[i] % 16, more |-> 2],
                    [bits |-> s[i] % 32, more |-> 1], [bits |-> s[i] % 128, more |-> 0]}
      BY <1>1, SMT DEF Lead, Between
    <3>2. s[i] % 8 \in Nat /\ s[i] % 16 \in Nat /\ s[i] % 32 \in Nat /\ s[i] % 128 \in Nat
      BY <1>1, SMTT(30)
    <3> HIDE DEF lead
    <3> QED
      BY <3>1, <3>2, SMTT(30)
  <2> HIDE DEF lead
  <2>2. got \in Nat /\ got <= lead.more /\ i + got <= Len(s)
    <3> DEFINE x == lead.more
               y == Len(s) - i
    <3>1. x \in 0..3 /\ y \in Nat
      BY <1>0, <1>1, <2>1
    <3>2. Min({x, y}) = IF x <= y THEN x ELSE y
      <4> HIDE DEF x, y
      <4> QED
        BY <3>1, LesserOfTwo
    <3>3. got = IF x <= y THEN x ELSE y
      BY <3>2
    <3> HIDE DEF got, x
    <3>4. got \in Nat /\ got <= x /\ got <= y
      <4> HIDE DEF y
      <4> QED
        BY <3>1, <3>3
    <3> QED
      BY <1>0, <1>1, <3>4 DEF x
  <2> HIDE DEF got
  <2>3. ASSUME NEW k \in 1..3 PROVE Bits(k) \in Nat
    <3> SUFFICES ASSUME k <= got PROVE (s[i + k] % 64) * Place(lead.more - k) \in Nat
      OBVIOUS
    <3>1. s[i + k] \in Nat
      <4>1. i + k \in 1..Len(s)
        BY <1>0, <1>1, <2>2
      <4> QED
        BY <1>0, <4>1
    <3>2. s[i + k] % 64 \in Nat
      BY <3>1
    <3>3. lead.more - k \in {0, 1, 2}
      BY <2>1, <2>2, SMTT(30)
    <3>4. Place(lead.more - k) \in Nat
      BY <3>3, SMT DEF Place
    <3> DEFINE x == s[i + k] % 64
               y == Place(lead.more - k)
    <3> HIDE DEF x, y
    <3>5. x * y \in Nat
      BY <3>2, <3>4 DEF x, y
    <3> QED
      BY <3>5 DEF x, y
  <2>4. lead.bits * Place(lead.more) \in Nat
    <3>1. Place(lead.more) \in Nat
      BY <2>1, SMT DEF Place
    <3> DEFINE x == lead.bits
               y == Place(lead.more)
    <3> HIDE DEF x, y
    <3>2. x * y \in Nat
      BY <2>1, <3>1 DEF x, y
    <3> QED
      BY <3>2 DEF x, y
  <2>5. DecodeU8(s, i) = [code |-> (lead.bits * Place(lead.more)) + Bits(1) + Bits(2) + Bits(3),
                          next |-> i + 1 + got]
    BY DEF DecodeU8, lead, got
  <2>6. Bits(1) \in Nat /\ Bits(2) \in Nat /\ Bits(3) \in Nat
    BY <2>3
  <2> DEFINE a == lead.bits * Place(lead.more)
  <2> HIDE DEF Bits, a
  <2>7. a + Bits(1) + Bits(2) + Bits(3) \in Nat
    BY <2>4, <2>6 DEF a
  <2>8. i + 1 + got \in 1..(Len(s) + 1)
    BY <1>0, <1>1, <2>2
  <2>9. Decode(e, s, i) = DecodeU8(s, i)
    BY <1>2 DEF Decode
  <2> QED
    BY <2>5, <2>7, <2>8, <2>9 DEF a
<1>3. CASE e = "u16"
  <2>1. Decode(e, s, i) = DecodeU16(s, i)
    BY <1>3 DEF Decode
  <2>2. CASE ~HighSurrogate(s[i])
    BY <1>0, <1>1, <2>1, <2>2, SMT DEF DecodeU16
  <2>3. CASE HighSurrogate(s[i]) /\ i = Len(s)
    <3>1. 65536 + ((s[i] % 1024) * 1024) \in Nat
      BY <1>1, SMT
    <3> QED
      BY <1>0, <1>1, <2>1, <2>3, <3>1, SMT DEF DecodeU16
  <2>4. CASE HighSurrogate(s[i]) /\ i # Len(s)
    <3>1. s[i + 1] \in Nat /\ i + 2 \in 1..(Len(s) + 1)
      <4>1. i + 1 \in 1..Len(s)
        BY <1>0, <1>1, <2>4
      <4> QED
        BY <1>0, <1>1, <4>1
    <3>2. 65536 + ((s[i] % 1024) * 1024) + (s[i + 1] % 1024) \in Nat
      BY <1>1, <3>1, SMTT(30)
    <3>3. DecodeU16(s, i) = [code |-> 65536 + ((s[i] % 1024) * 1024) + (s[i + 1] % 1024), next |-> i + 2]
      BY <2>4, SMT DEF DecodeU16
    <3> QED
      BY <2>1, <3>1, <3>2, <3>3, SMT
  <2> QED
    BY <2>2, <2>3, <2>4
<1>4. CASE e = "u32"
  <2>1. Decode(e, s, i) = [code |-> s[i], next |-> i + 1]
    BY <1>4 DEF Decode
  <2> QED
    BY <1>0, <1>1, <2>1
<1> QED
  BY <1>2, <1>3, <1>4 DEF Utf

\* A set of natural numbers has a least one.
LEMMA LeastOfNumbers ==
    ASSUME NEW S, S \subseteq Nat, S # {}
    PROVE  Min(S) \in S
<1>1. PICK n \in S : \A m \in S : ~(<<m, n>> \in OpToRel(<, Nat))
  BY NatLessThanWellFounded, WFMin
<1>2. ASSUME NEW m \in S PROVE n <= m
  <2>1. m \in Nat /\ n \in Nat /\ ~(m < n)
    BY <1>1 DEF OpToRel
  <2> QED
    BY <2>1
<1>3. \E x \in S : \A y \in S : x <= y
  BY <1>2
<1> QED
  BY <1>3 DEF Min

\* What remains of a number is one.
LEMMA RemainderIsNumber ==
    \A a \in Nat : a % 8 \in Nat /\ a % 16 \in Nat /\ a % 64 \in Nat
BY SMT

\* The value of a character is a number.
LEMMA ValueIsNumber ==
    ASSUME NEW b \in Seq(Nat), WellFormed(b)
    PROVE  ValueOf(b) \in Nat
<1>1. Len(b) \in 1..4 /\ \A i \in 1..Len(b) : b[i] \in Nat
  BY LeadOfFormed, ElementOfSeq
<1>2. CASE Len(b) = 1
  BY <1>1, <1>2, ValueByLength, SMT
<1>3. CASE Len(b) = 2
  <2>1. b[1] \in Nat /\ b[2] \in Nat
    BY <1>1, <1>3, SMT
  <2>2. ((b[1] % 32) * 64) + (b[2] % 64) \in Nat
    BY <2>1, SMT
  <2> QED
    BY <1>3, <2>2, ValueByLength, SMT
<1>4. CASE Len(b) = 3
  <2>1. b[1] \in Nat /\ b[2] \in Nat /\ b[3] \in Nat
    BY <1>1, <1>4, SMT
  <2> DEFINE x == b[1] % 16
             y == b[2] % 64
             z == b[3] % 64
  <2>2. x \in Nat /\ y \in Nat /\ z \in Nat
    BY <2>1, RemainderIsNumber
  <2> HIDE DEF x, y, z
  <2>3. (x * 4096) + (y * 64) + z \in Nat
    BY <2>2, SMT
  <2>4. ValueOf(b) = (x * 4096) + (y * 64) + z
    BY <1>4, ValueByLength, SMT DEF x, y, z
  <2> QED
    BY <2>3, <2>4, SMT
<1>5. CASE Len(b) = 4
  <2>1. b[1] \in Nat /\ b[2] \in Nat /\ b[3] \in Nat /\ b[4] \in Nat
    BY <1>1, <1>5, SMT
  <2> DEFINE w == b[1] % 8
             x == b[2] % 64
             y == b[3] % 64
             z == b[4] % 64
  <2>2. w \in Nat /\ x \in Nat /\ y \in Nat /\ z \in Nat
    BY <2>1, RemainderIsNumber
  <2> HIDE DEF w, x, y, z
  <2>3. (w * 262144) + (x * 4096) + (y * 64) + z \in Nat
    BY <2>2, SMT
  <2>4. ValueOf(b) = (w * 262144) + (x * 4096) + (y * 64) + z
    BY <1>5, ValueByLength, SMT DEF w, x, y, z
  <2> QED
    BY <2>3, <2>4, SMT
<1> QED
  BY <1>1, <1>2, <1>3, <1>4, <1>5, SMT

\* The C library finds no character behind the end.
LEMMA LengthInside ==
    ASSUME NEW s \in Seq(Nat), NEW i \in 1..Len(s), MbLength(s, i) # 0, MbLength(s, i) # -1
    PROVE  LET n == MbLength(s, i)
           IN  n \in Nat \ {0} /\ i + n \in 1..(Len(s) + 1) /\ ValueOf(SubSeq(s, i, i + n - 1)) \in Nat
<1> DEFINE most == Min({4, Len(s) - i + 1})
           fitting == {k \in 1..most : WellFormed(SubSeq(s, i, i + k - 1))}
           n == MbLength(s, i)
<1>1. Len(s) \in Nat /\ i \in Nat /\ i >= 1 /\ i <= Len(s)
  BY LenProperties
<1>2. fitting # {} /\ n = Min(fitting)
  <2> DEFINE short == \E row \in WellFormedTable : Fits(SubSeq(s, i, Len(s)), row)
  <2>1. n = IF fitting /= {} THEN Min(fitting) ELSE IF short THEN 0 ELSE -1
    BY DEF MbLength
  <2>2. n # 0 /\ n # -1
    OBVIOUS
  <2> HIDE DEF n, fitting, short
  <2> QED
    BY <2>1, <2>2
<1>3. most \in Nat /\ (i + most) - 1 <= Len(s)
  <2>1. Len(s) - i + 1 \in Int /\ 1 <= Len(s) - i + 1
    BY <1>1
  <2>2. most = IF 4 <= Len(s) - i + 1 THEN 4 ELSE Len(s) - i + 1
    BY <2>1, LesserOfTwo
  <2> HIDE DEF most
  <2> QED
    BY <1>1, <2>1, <2>2
<1> HIDE DEF most
<1>4. n \in fitting
  <2>1. fitting \subseteq Nat
    BY <1>3
  <2> HIDE DEF fitting, n
  <2> QED
    BY <1>2, <2>1, LeastOfNumbers
<1> HIDE DEF n
<1>5. n \in 1..most /\ WellFormed(SubSeq(s, i, i + n - 1))
  BY <1>4
<1> DEFINE m == i + n - 1
           w == SubSeq(s, i, m)
<1>6. n \in Nat \ {0} /\ i + n \in 1..(Len(s) + 1) /\ m \in Int /\ m <= Len(s)
  BY <1>1, <1>3, <1>5
<1>7. w \in Seq(Nat)
  <2>1. \A j \in i..m : s[j] \in Nat
    <3> SUFFICES ASSUME NEW j \in i..m PROVE s[j] \in Nat
      OBVIOUS
    <3>1. j \in 1..Len(s)
      BY <1>1, <1>6
    <3> QED
      BY <3>1, ElementOfSeq
  <2> HIDE DEF m
  <2> QED
    BY <1>1, <1>6, <2>1, SubSeqProperties
<1>8. ValueOf(w) \in Nat
  BY <1>5, <1>7, ValueIsNumber
<1> QED
  BY <1>6, <1>8 DEF n

\* A conversion begins at the beginning of its input.
LEMMA ConversionBegins ==
    ASSUME Init
    PROVE  ConvInv /\ leg = 1 /\ input = text /\ it = 1 /\ chunks = <<>> /\ pending = 0 /\ status = "running"
<1>1. /\ path \in Paths /\ leg = 1 /\ input = text /\ it = 1 /\ chunks = <<>>
      /\ pending = 0 /\ status = "running"
  BY DEF Init
<1>2. PICK n \in 0..MaxUnits : text \in [1..n -> Units(path[1])]
  BY DEF Init
<1>3. Len(path) \in Nat /\ Len(path) >= 2 /\ path[1] \in Encodings /\ 1 \in 1..(Len(path) - 1)
  <2>1. Len(path) \in Nat /\ Len(path) >= 2 /\ \A i \in 1..Len(path) : path[i] \in Encodings
    BY <1>1, EncodingsOfPath
  <2>2. 1 \in 1..Len(path) /\ 1 \in 1..(Len(path) - 1)
    BY <2>1
  <2> QED
    BY <2>1, <2>2
<1>4. text \in [1..n -> Nat] /\ n \in Nat
  <2>1. Units(path[1]) \subseteq Nat /\ MaxUnits \in Nat
    BY <1>3, CodecvtAssumption
  <2> QED
    BY <1>2, <2>1
<1>5. text \in Seq(Nat) /\ Len(text) = n
  BY <1>4, SeqDef
<1>6. it \in 1..(Len(input) + 1)
  BY <1>1, <1>4, <1>5
<1>7. ASSUME From = "wide" PROVE \A i \in 1..Len(input) : input[i] <= 127
  <2>1. path[1] = "wide"
    BY <1>1, <1>7 DEF From
  <2>2. Units("wide") \subseteq 0..127
    BY <1>1, <1>3, <2>1, EncodingsOfPath
  <2>3. \A i \in 1..n : text[i] \in 0..127
    BY <1>2, <2>1, <2>2
  <2>4. \A i \in 1..n : text[i] <= 127
    <3> SUFFICES ASSUME NEW i \in 1..n PROVE text[i] <= 127
      OBVIOUS
    <3>1. text[i] \in 0..127
      BY <2>3
    <3> QED
      BY <3>1
  <2> QED
    BY <1>1, <1>5, <2>4
<1>8. chunks \in Seq(Seq(Nat))
  BY <1>1
<1> QED
  BY <1>1, <1>3, <1>5, <1>6, <1>7, <1>8 DEF ConvInv

\* What a conversion reads and gives goes on.
LEMMA AppendStaysInside ==
    ASSUME ConvInv, NEW units \in Seq(Nat), NEW next \in 1..(Len(input) + 1), Appends(units, next)
    PROVE  ConvInv'
<1>1. Append(chunks, units) \in Seq(Seq(Nat))
  BY AppendProperties DEF ConvInv
<1> QED
  BY <1>1 DEF ConvInv, Appends, Keep, From

\* And stays where it is if it throws.
LEMMA ThrowStaysInside ==
    ASSUME ConvInv, NEW what, Throws(what)
    PROVE  ConvInv'
BY DEF ConvInv, Throws, Keep, From

\* A step of a conversion keeps it inside its input.
LEMMA ConversionStaysInside ==
    ASSUME ConvInv, Next
    PROVE  ConvInv'
<1>0. /\ path \in Paths /\ leg \in 1..(Len(path) - 1)
      /\ text \in Seq(Nat) /\ input \in Seq(Nat) /\ it \in 1..(Len(input) + 1)
      /\ chunks \in Seq(Seq(Nat)) /\ pending \in Nat
  BY DEF ConvInv
<1>1. Len(input) \in Nat /\ \A i \in 1..Len(input) : input[i] \in Nat
  BY <1>0, LenProperties, ElementOfSeq
<1>2. ASSUME it <= Len(input) PROVE it \in 1..Len(input) /\ input[it] \in Nat /\ it + 1 \in 1..(Len(input) + 1)
  <2>1. it \in 1..Len(input) /\ it + 1 \in 1..(Len(input) + 1)
    BY <1>0, <1>1, <1>2
  <2> QED
    BY <1>1, <2>1
<1>3. CASE UtfToUtf
  <2>1. it <= Len(input) /\ From \in Utf /\ To \in Utf
    BY <1>3 DEF UtfToUtf, Reading
  <2> DEFINE got == Decode(From, input, it)
             units == Encode(To, got.code)
  <2>2. got.code \in Nat /\ got.next \in 1..(Len(input) + 1)
    BY <1>0, <1>2, <2>1, DecodedInside
  <2>3. units \in Seq(Nat)
    BY <2>1, <2>2, EncodedUnits
  <2>4. Throws("length_error") \/ Appends(units, got.next)
    BY <1>3 DEF UtfToUtf
  <2> HIDE DEF got, units
  <2> QED
    BY <2>2, <2>3, <2>4, ThrowStaysInside, AppendStaysInside
<1>4. CASE UtfToMb
  <2>1. it <= Len(input) /\ From \in Utf
    BY <1>4 DEF UtfToMb, Reading, Utf
  <2> DEFINE got == Decode(From, input, it)
             units == ToMb(got.code)
  <2>2. got.code \in Nat /\ got.next \in 1..(Len(input) + 1)
    BY <1>0, <1>2, <2>1, DecodedInside
  <2>3. units \in Seq(Nat)
    BY <2>2, EncodedUnits
  <2>4. Throws("invalid_argument") \/ Appends(units, got.next)
    BY <1>4 DEF UtfToMb
  <2> HIDE DEF got, units
  <2> QED
    BY <2>2, <2>3, <2>4, ThrowStaysInside, AppendStaysInside
<1>5. CASE U16ToMb
  <2>1. it <= Len(input)
    BY <1>5 DEF U16ToMb, Reading
  <2> DEFINE u == input[it]
             c == IF pending = 0 THEN u ELSE 65536 + ((pending % 1024) * 1024) + (u % 1024)
             units == ToMb(c)
  <2>2. u \in Nat /\ it + 1 \in 1..(Len(input) + 1)
    BY <1>2, <2>1
  <2>3. c \in Nat
    <3>1. pending % 1024 \in Nat /\ u % 1024 \in Nat
      BY <1>0, <2>2, SMT
    <3> QED
      BY <2>2, <3>1, SMT
  <2>4. units \in Seq(Nat)
    <3> HIDE DEF c
    <3> QED
      BY <2>3, EncodedUnits
  <2>5. \/ it' = it + 1 /\ pending' = u /\ Keep /\ UNCHANGED <<chunks, status>>
        \/ Throws("invalid_argument")
        \/ chunks' = Append(chunks, units) /\ it' = it + 1 /\ pending' = 0 /\ Keep
    BY <1>5, SMT DEF U16ToMb
  <2> HIDE DEF u, units
  <2>6. CASE it' = it + 1 /\ pending' = u /\ Keep /\ UNCHANGED <<chunks, status>>
    BY <2>2, <2>6 DEF ConvInv, Keep, From
  <2>7. CASE chunks' = Append(chunks, units) /\ it' = it + 1 /\ pending' = 0 /\ Keep
    <3>1. Append(chunks, units) \in Seq(Seq(Nat))
      BY <1>0, <2>4, AppendProperties
    <3> QED
      BY <2>2, <2>7, <3>1 DEF ConvInv, Keep, From
  <2> QED
    BY <2>5, <2>6, <2>7, ThrowStaysInside
<1>6. CASE MbToAny
  <2>1. it <= Len(input) /\ To \in Utf \cup {"wide"}
    BY <1>6 DEF MbToAny, Reading
  <2> DEFINE n == MbLength(input, it)
             c == ValueOf(SubSeq(input, it, it + n - 1))
             units == IF To = "wide" THEN <<c>> ELSE Encode(To, c)
  <2>2. n = 0 \/ n = -1 \/ (n # 0 /\ n # -1)
    OBVIOUS
  <2>3. CASE n = 0
    <3>1. Throws("invalid_argument")
      BY <1>6, <2>3 DEF MbToAny
    <3> QED
      BY <3>1, ThrowStaysInside
  <2>4. CASE n = -1
    <3>1. Throws("runtime_error")
      BY <1>6, <2>4 DEF MbToAny
    <3> QED
      BY <3>1, ThrowStaysInside
  <2>5. CASE n # 0 /\ n # -1
    <3>1. n \in Nat \ {0} /\ it + n \in 1..(Len(input) + 1) /\ c \in Nat
      BY <1>0, <1>2, <2>1, <2>5, LengthInside
    <3>2. n > 0
      <4> HIDE DEF n
      <4> QED
        BY <3>1
    <3>3. Appends(units, it + n)
      BY <1>6, <2>5, <3>2 DEF MbToAny
    <3>4. units \in Seq(Nat)
      <4> HIDE DEF c
      <4>1. <<c>> \in Seq(Nat)
        BY <3>1
      <4>2. \A e \in Utf : Encode(e, c) \in Seq(Nat)
        BY <3>1, EncodedUnits
      <4> QED
        BY <2>1, <4>1, <4>2
    <3> HIDE DEF n, units
    <3> QED
      BY <3>1, <3>3, <3>4, AppendStaysInside
  <2> HIDE DEF n
  <2> QED
    BY <2>2, <2>3, <2>4, <2>5
<1>7. CASE WideToMb
  <2>1. it <= Len(input) /\ From = "wide"
    BY <1>7 DEF WideToMb, Reading
  <2>2. input[it] \in Nat /\ input[it] <= 127
    BY <1>2, <2>1 DEF ConvInv
  <2>3. ToMb(input[it]) = <<input[it]>>
    <3> DEFINE c == input[it]
    <3> HIDE DEF c
    <3>1. c \in Nat /\ c <= 127
      BY <2>2 DEF c
    <3>2. ToMb(c) = <<c>>
      BY <3>1, SMTT(30) DEF ToMb, Scalar, EncodeU8, Between
    <3> QED
      BY <3>2 DEF c
  <2>4. ToMb(input[it]) \in Seq(Nat) /\ Len(ToMb(input[it])) = 1 /\ ToMb(input[it]) # <<>>
    BY <2>2, <2>3
  <2> DEFINE units == ToMb(input[it])
  <2>5. Appends(units, it + Len(units))
    BY <1>7, <2>4 DEF WideToMb
  <2> HIDE DEF units
  <2>6. it + Len(units) \in 1..(Len(input) + 1)
    BY <1>2, <2>1, <2>4 DEF units
  <2> QED
    BY <2>4, <2>5, <2>6, AppendStaysInside DEF units
<1>8. CASE NextLeg
  <2>1. CASE leg + 1 = Len(path)
    BY <1>8, <2>1 DEF NextLeg, ConvInv, From
  <2>2. CASE leg + 1 # Len(path)
    <3>1. /\ leg' = leg + 1 /\ input' = FlattenSeq(chunks) /\ it' = 1
          /\ chunks' = <<>> /\ pending' = 0 /\ path' = path /\ text' = text
      BY <1>8, <2>2 DEF NextLeg, Output
    <3>2. FlattenSeq(chunks) \in Seq(Nat)
      BY <1>0, FlattenLays DEF Laid
    <3>3. Len(path) \in Nat /\ \A i \in 1..(Len(path) - 1) : path[i] = "wide" => i = 1
      BY <1>0, EncodingsOfPath
    <3>4. leg' \in 1..(Len(path) - 1) /\ leg' # 1
      BY <1>0, <2>2, <3>1, <3>3
    <3>5. From' # "wide"
      BY <3>1, <3>3, <3>4 DEF From
    <3>6. it' \in 1..(Len(input') + 1)
      <4>1. input' \in Seq(Nat)
        BY <3>1, <3>2
      <4>2. Len(input') \in Nat
        BY <4>1, LenProperties
      <4> QED
        BY <3>1, <4>2
    <3>7. chunks' \in Seq(Seq(Nat)) /\ pending' \in Nat
      BY <3>1
    <3> QED
      BY <1>0, <3>1, <3>2, <3>4, <3>5, <3>6, <3>7 DEF ConvInv
  <2> QED
    BY <2>1, <2>2
<1> QED
  BY <1>3, <1>4, <1>5, <1>6, <1>7, <1>8 DEF Next

\* No conversion reads past the end of its input, whatever the text is.
THEOREM ConversionsStayInside == TextSpec => []StaysInside
<1> DEFINE Inside == /\ component = "conversion" => ConvInv
                     /\ component # "conversion" => it = 1 /\ input = <<>>
<1>1. ConversionInit \/ StreamInit => Inside
  <2>1. ConversionInit => Inside
    BY ConversionBegins DEF ConversionInit
  <2>2. StreamInit => Inside
    BY DEF StreamInit
  <2> QED
    BY <2>1, <2>2
<1>2. Inside /\ [ConversionNext \/ StreamNext \/ LinesNext]_AllVars => Inside'
  <2>1. Inside /\ ConversionNext => Inside'
    BY ConversionStaysInside DEF ConversionNext
  <2>2. Inside /\ (UNCHANGED AllVars \/ StreamNext \/ LinesNext) => Inside'
    BY DEF StreamNext, LinesNext, AllVars, vars, ConvInv, From
  <2> QED
    BY <2>1, <2>2
<1>3. Inside => StaysInside
  <2>1. CASE component = "conversion"
    <3>1. ConvInv => Len(input) \in Nat /\ it \in 1..(Len(input) + 1)
      BY LenProperties DEF ConvInv
    <3> QED
      BY <2>1, <3>1 DEF StaysInside
  <2>2. CASE component # "conversion"
    BY <2>2 DEF StaysInside
  <2> QED
    BY <2>1, <2>2
<1> QED
  BY <1>1, <1>2, <1>3, PTL DEF TextSpec
-----------------------------------------------------------------------------
(* Converting a text of real characters.                                   *)

\* The input of the conversion in progress is the characters of the text, and
\* it has converted as many of them as there are chunks.  If it waits for the
\* second of a pair of surrogates, it has read one unit of the next one.
Reads(parts, at) ==
    /\ Laid(parts, at, input) /\ Len(parts) = Len(text)
    /\ \A i \in 1..Len(text) : Represents(From, parts[i], text[i])
    /\ \/ pending = 0 /\ it = at[Len(chunks)] + 1
       \/ /\ Len(chunks) < Len(text) /\ From = "u16" /\ To = "mb"
          /\ Len(parts[Len(chunks) + 1]) = 2
          /\ it = at[Len(chunks)] + 2 /\ pending = parts[Len(chunks) + 1][1]

FaithfulInv ==
    /\ status \in {"running", "done"}
    /\ status = "done" => Len(chunks) = Len(text)
    /\ Len(chunks) <= Len(text)
    /\ \A i \in 1..Len(chunks) : Represents(To, chunks[i], text[i])
    /\ \E parts, at : Reads(parts, at)

\* The units of a real text are code points.
LEMMA CharactersOfText ==
    ASSUME ConvInv, RealText
    PROVE  Len(text) \in Nat /\ \A i \in 1..Len(text) : text[i] \in Nat /\ Scalar(text[i])
<1>1. text \in Seq(Nat)
  BY DEF ConvInv
<1> QED
  BY <1>1, LenProperties, ElementOfSeq DEF RealText

\* Parts that are not empty end one behind the other.
LEMMA PartsEndInside ==
    ASSUME NEW parts, NEW at, NEW s, Laid(parts, at, s),
           \A i \in 1..Len(parts) : Len(parts[i]) \in Nat \ {0}
    PROVE  \A k \in 0..Len(parts) : at[k] + (Len(parts) - k) <= Len(s)
<1> DEFINE n == Len(parts)
           S == {d \in Nat : d <= n => at[n - d] + d <= Len(s)}
<1>1. n \in Nat /\ Len(s) \in Nat /\ at \in [0..n -> Nat] /\ at[n] = Len(s)
      /\ \A k \in 1..n : at[k] = at[k - 1] + Len(parts[k])
  BY LenProperties DEF Laid
<1> HIDE DEF n
<1>2. 0 \in S
  BY <1>1
<1>3. ASSUME NEW d \in Nat, d \in S PROVE d + 1 \in S
  <2> SUFFICES ASSUME d + 1 <= n PROVE at[n - (d + 1)] + (d + 1) <= Len(s)
    OBVIOUS
  <2> DEFINE k == n - d
             x == at[k - 1]
             y == at[k]
             z == Len(parts[k])
  <2>1. k \in 1..n /\ k - 1 \in 0..n /\ k \in 0..n /\ n - (d + 1) = k - 1
    BY <1>1
  <2>2. y + d <= Len(s)
    BY <1>1, <1>3
  <2>3. x \in Nat /\ y \in Nat
    BY <1>1, <2>1
  <2>4. z \in Nat \ {0}
    BY <2>1 DEF n
  <2>5. y = x + z
    BY <1>1, <2>1
  <2> HIDE DEF x, y, z
  <2>6. x + (d + 1) <= Len(s)
    BY <1>1, <2>2, <2>3, <2>4, <2>5
  <2> QED
    BY <2>1, <2>6 DEF x
<1> HIDE DEF S
<1>4. Nat \subseteq S
  BY <1>2, <1>3, InductionOnSet
<1>5. ASSUME NEW k \in 0..n PROVE at[k] + (n - k) <= Len(s)
  <2>1. n - k \in Nat /\ n - k <= n /\ n - (n - k) = k
    BY <1>1
  <2>2. n - k \in S
    BY <1>4, <2>1
  <2> QED
    BY <2>1, <2>2 DEF S
<1> QED
  BY <1>5 DEF n

\* While there is input there is a next character, whose units stand in the
\* input from behind the last one on.
LEMMA NextCharacter ==
    ASSUME ConvInv, RealText, FaithfulInv, NEW parts, NEW at, Reads(parts, at)
    PROVE  LET m == Len(chunks)
               b == parts[m + 1]
               c == text[m + 1]
           IN  /\ m \in Nat /\ at[m] \in Nat
               /\ m = Len(text) => pending = 0 /\ it = Len(input) + 1
               /\ m # Len(text) => /\ it <= Len(input) /\ m + 1 \in 1..Len(text)
                                  /\ c \in Nat /\ Scalar(c) /\ Represents(From, b, c)
                                  /\ PartAt(input, at[m] + 1, b)
                                  /\ at[m + 1] = at[m] + Len(b) /\ at[m + 1] \in 0..Len(input)
<1> DEFINE m == Len(chunks)
           n == Len(text)
           b == parts[m + 1]
           c == text[m + 1]
<1>1. /\ input \in Seq(Nat) /\ parts \in Seq(Seq(Nat)) /\ Len(parts) = n
      /\ at \in [0..n -> Nat] /\ at[0] = 0 /\ at[n] = Len(input)
      /\ \A k \in 1..n : /\ at[k] = at[k - 1] + Len(parts[k])
                         /\ \A j \in 1..Len(parts[k]) : input[at[k - 1] + j] = parts[k][j]
  BY DEF Reads, Laid
<1>2. n \in Nat /\ m \in Nat /\ m <= n /\ Len(input) \in Nat
  <2>1. chunks \in Seq(Seq(Nat)) /\ m <= n
    BY DEF ConvInv, FaithfulInv
  <2>2. m \in Nat
    BY <2>1, LenProperties
  <2>3. Len(input) \in Nat
    BY <1>1, LenProperties
  <2> QED
    BY <2>1, <2>2, <2>3, CharactersOfText
<1>3. From \in Encodings
  <2>1. path \in Paths /\ leg \in 1..(Len(path) - 1)
    BY DEF ConvInv
  <2>2. Len(path) \in Nat /\ \A i \in 1..Len(path) : path[i] \in Encodings
    BY <2>1, EncodingsOfPath
  <2>3. leg \in 1..Len(path)
    BY <2>1, <2>2
  <2> QED
    BY <2>2, <2>3 DEF From
<1>4. ASSUME NEW i \in 1..n
      PROVE  parts[i] \in Seq(Nat) /\ Represents(From, parts[i], text[i]) /\ Len(parts[i]) \in Nat \ {0}
  <2>1. parts[i] \in Seq(Nat)
    BY <1>1, ElementOfSeq
  <2>2. Represents(From, parts[i], text[i])
    BY DEF Reads
  <2> QED
    BY <1>3, <2>1, <2>2, RepresentedByMore
<1>5. \A k \in 0..n : at[k] \in Nat /\ at[k] + (n - k) <= Len(input)
  <2>1. \A k \in 0..Len(parts) : at[k] + (Len(parts) - k) <= Len(input)
    <3>1. \A i \in 1..Len(parts) : Len(parts[i]) \in Nat \ {0}
      BY <1>1, <1>4
    <3>2. Laid(parts, at, input)
      BY DEF Reads
    <3> QED
      BY <3>1, <3>2, PartsEndInside
  <2> QED
    BY <1>1, <2>1
<1>6. at[m] \in Nat
  BY <1>2, <1>5
<1>7. ASSUME m = n PROVE pending = 0 /\ it = Len(input) + 1
  BY <1>1, <1>2, <1>7 DEF Reads
<1>8. ASSUME m # n
      PROVE  /\ it <= Len(input) /\ m + 1 \in 1..n
             /\ c \in Nat /\ Scalar(c) /\ Represents(From, b, c)
             /\ PartAt(input, at[m] + 1, b) /\ at[m + 1] = at[m] + Len(b) /\ at[m + 1] \in 0..Len(input)
  <2>1. m + 1 \in 1..n /\ m + 1 \in 0..n /\ m \in 0..n /\ (m + 1) - 1 = m
    BY <1>2, <1>8
  <2>2. c \in Nat /\ Scalar(c)
    BY <2>1, CharactersOfText
  <2>3. b \in Seq(Nat) /\ Represents(From, b, c) /\ Len(b) \in Nat \ {0}
    BY <1>4, <2>1
  <2>4. at[m + 1] = at[m] + Len(b) /\ \A j \in 1..Len(b) : input[at[m] + j] = b[j]
    BY <1>1, <2>1
  <2>5. at[m + 1] \in 0..Len(input)
    <3>1. at[m + 1] \in Nat /\ at[m + 1] + (n - (m + 1)) <= Len(input)
      BY <1>5, <2>1
    <3> QED
      BY <1>2, <2>1, <3>1
  <2> DEFINE i == at[m] + 1
  <2>6. i \in Nat \ {0} /\ (i + Len(b)) - 1 <= Len(input)
    BY <1>2, <1>6, <2>3, <2>4, <2>5, SMTT(30)
  <2>7. ASSUME NEW j \in 1..Len(b) PROVE input[i + (j - 1)] = b[j]
    <3>1. i + (j - 1) = at[m] + j
      BY <1>6, <2>3
    <3> QED
      BY <2>4, <3>1
  <2> HIDE DEF i
  <2>8. PartAt(input, i, b)
    BY <1>1, <2>3, <2>6, <2>7 DEF PartAt
  <2>9. it <= Len(input)
    <3>1. it = at[m] + 1 \/ (it = at[m] + 2 /\ Len(b) = 2)
      BY DEF Reads
    <3> DEFINE x == at[m]
               y == at[m + 1]
               l == Len(b)
    <3>2. x \in Nat /\ y <= Len(input) /\ l \in Nat \ {0} /\ y = x + l
      BY <1>2, <1>6, <2>3, <2>4, <2>5
    <3>3. it = x + 1 \/ (it = x + 2 /\ l = 2)
      BY <3>1
    <3> HIDE DEF x, y, l
    <3> QED
      BY <1>2, <3>2, <3>3
  <2> QED
    BY <2>1, <2>2, <2>3, <2>4, <2>5, <2>8, <2>9 DEF i
<1> QED
  BY <1>2, <1>6, <1>7, <1>8

\* The next character converted.
LEMMA CharacterConverted ==
    ASSUME ConvInv, RealText, FaithfulInv, status = "running",
           NEW parts, NEW at, Reads(parts, at), Len(chunks) # Len(text),
           NEW units \in Seq(Nat), Represents(To, units, text[Len(chunks) + 1]),
           chunks' = Append(chunks, units), it' = at[Len(chunks) + 1] + 1, pending' = 0,
           Keep, UNCHANGED status
    PROVE  FaithfulInv'
<1> DEFINE m == Len(chunks)
<1>1. m \in Nat /\ m + 1 \in 1..Len(text) /\ Len(text) \in Nat
  BY NextCharacter, CharactersOfText
<1>2. /\ Len(chunks') = m + 1 /\ chunks'[m + 1] = units
      /\ \A i \in 1..m : chunks'[i] = chunks[i]
  <2>1. chunks \in Seq(Seq(Nat))
    BY DEF ConvInv
  <2> QED
    BY <2>1, AppendProperties
<1>3. path' = path /\ text' = text /\ leg' = leg /\ input' = input /\ From' = From /\ To' = To
      /\ status' = "running"
  BY DEF Keep, From, To
<1>4. \A i \in 1..Len(chunks') : Represents(To', chunks'[i], text'[i])
  <2> SUFFICES ASSUME NEW i \in 1..(m + 1) PROVE Represents(To, chunks'[i], text[i])
    BY <1>2, <1>3
  <2>1. CASE i = m + 1
    BY <1>2, <2>1
  <2>2. CASE i # m + 1
    <3>1. i \in 1..m
      BY <1>1, <2>2
    <3>2. Represents(To, chunks[i], text[i])
      BY <3>1 DEF FaithfulInv
    <3> QED
      BY <1>2, <3>1, <3>2
  <2> QED
    BY <2>1, <2>2
<1>5. Reads(parts, at)'
  <2>1. it' = at[Len(chunks')] + 1 /\ pending' = 0
    BY <1>2
  <2> QED
    BY <1>3, <2>1 DEF Reads
<1>6. Len(chunks') <= Len(text')
  BY <1>1, <1>2, <1>3
<1> QED
  BY <1>3, <1>4, <1>5, <1>6 DEF FaithfulInv

\* Where the conversion before it ended, the next one finds the characters.
LEMMA LegFollows ==
    ASSUME ConvInv, RealText, FaithfulInv, status = "running", Len(chunks) = Len(text),
           path' = path, text' = text, leg' = leg + 1, input' = FlattenSeq(chunks), it' = 1,
           chunks' = <<>>, pending' = 0, UNCHANGED status
    PROVE  FaithfulInv'
<1>0. PICK parts : parts = chunks
  OBVIOUS
<1>1. chunks \in Seq(Seq(Nat))
  BY DEF ConvInv
<1>2. PICK at : Laid(parts, at, FlattenSeq(chunks))
  BY <1>0, <1>1, FlattenLays
<1>3. From' = To
  BY DEF From, To
<1>4. \A i \in 1..Len(text) : Represents(To, parts[i], text[i])
  BY <1>0 DEF FaithfulInv
<1>5. Len(chunks') = 0 /\ at[0] = 0
  BY <1>2 DEF Laid
<1>6. Reads(parts, at)'
  <2>1. pending' = 0 /\ it' = at[Len(chunks')] + 1
    BY <1>5
  <2>2. Laid(parts, at, input')
    BY <1>2
  <2> QED
    BY <1>0, <1>3, <1>4, <2>1, <2>2 DEF Reads
<1> QED
  BY <1>5, <1>6, CharactersOfText DEF FaithfulInv

\* What is converted to multibyte characters is what represents them there.
LEMMA EncodedInMb ==
    ASSUME NEW c \in Nat, Scalar(c)
    PROVE  ToMb(c) \in Seq(Nat) /\ Represents("mb", ToMb(c), c) /\ ToMb(c) # <<>>
<1>1. ToMb(c) = EncodeU8(c)
  BY DEF ToMb
<1>2. ToMb(c) \in Seq(Nat) /\ Represents("mb", ToMb(c), c)
  BY <1>1, EncodedAsFormed, RepresentedByUnits
<1>3. Len(ToMb(c)) # 0
  <2>1. "mb" \in Encodings
    BY DEF Encodings
  <2> QED
    BY <1>2, <2>1, RepresentedByMore
<1> QED
  BY <1>2, <1>3

\* A step of a conversion between UTFs converts one character.
LEMMA UtfToUtfIsFaithful ==
    ASSUME ConvInv, RealText, FaithfulInv, UtfToUtf
    PROVE  FaithfulInv'
<1>1. PICK parts, at : Reads(parts, at)
  BY DEF FaithfulInv
<1> DEFINE m == Len(chunks)
           b == parts[m + 1]
           c == text[m + 1]
           got == Decode(From, input, it)
           units == Encode(To, got.code)
<1>2. status = "running" /\ it <= Len(input) /\ From \in Utf /\ To \in Utf
  BY DEF UtfToUtf, Reading
<1>3. Len(input) \in Nat
  BY LenProperties DEF ConvInv
<1>4. m # Len(text)
  BY <1>1, <1>2, <1>3, NextCharacter
<1>5. /\ c \in Nat /\ Scalar(c) /\ Represents(From, b, c) /\ at[m] \in Nat
      /\ PartAt(input, at[m] + 1, b) /\ at[m + 1] = at[m] + Len(b)
  BY <1>1, <1>4, NextCharacter
<1>6. pending = 0 /\ it = at[m] + 1
  BY <1>1, <1>2 DEF Reads, Utf
<1>7. got.code = c /\ got.next = at[m + 1] + 1
  <2>1. got.code = c /\ got.next = it + Len(b)
    BY <1>2, <1>5, <1>6, DecodedAsRepresented
  <2>2. Len(b) \in Nat
    BY <1>5 DEF PartAt
  <2> QED
    BY <1>5, <1>6, <2>1, <2>2
<1>8. units \in Seq(Nat) /\ Represents(To, units, c) /\ units # <<>>
  <2>1. units = Encode(To, c)
    BY <1>7
  <2>2. units \in Seq(Nat) /\ Represents(To, units, c)
    BY <1>2, <1>5, <2>1, EncodedAsRepresented
  <2>3. Len(units) # 0
    <3>1. To \in Encodings
      BY <1>2 DEF Encodings, Utf
    <3> HIDE DEF units, c
    <3> QED
      BY <2>2, <3>1, RepresentedByMore
  <2> HIDE DEF units
  <2> QED
    BY <2>2, <2>3
<1>9. Appends(units, got.next)
  BY <1>8 DEF UtfToUtf
<1> HIDE DEF units, got
<1>10. chunks' = Append(chunks, units) /\ it' = at[m + 1] + 1 /\ pending' = 0 /\ Keep /\ UNCHANGED status
  BY <1>6, <1>7, <1>9 DEF Appends
<1> QED
  BY <1>1, <1>2, <1>4, <1>8, <1>10, CharacterConverted

\* So does one to multibyte characters.
LEMMA UtfToMbIsFaithful ==
    ASSUME ConvInv, RealText, FaithfulInv, UtfToMb
    PROVE  FaithfulInv'
<1>1. PICK parts, at : Reads(parts, at)
  BY DEF FaithfulInv
<1> DEFINE m == Len(chunks)
           b == parts[m + 1]
           c == text[m + 1]
           got == Decode(From, input, it)
           units == ToMb(got.code)
<1>2. status = "running" /\ it <= Len(input) /\ From \in {"u8", "u32"} /\ From \in Utf /\ To = "mb"
  BY DEF UtfToMb, Reading, Utf
<1>3. Len(input) \in Nat
  BY LenProperties DEF ConvInv
<1>4. m # Len(text)
  BY <1>1, <1>2, <1>3, NextCharacter
<1>5. /\ c \in Nat /\ Scalar(c) /\ Represents(From, b, c) /\ at[m] \in Nat
      /\ PartAt(input, at[m] + 1, b) /\ at[m + 1] = at[m] + Len(b)
  BY <1>1, <1>4, NextCharacter
<1>6. pending = 0 /\ it = at[m] + 1
  BY <1>1, <1>2 DEF Reads
<1>7. got.code = c /\ got.next = at[m + 1] + 1
  <2>1. got.code = c /\ got.next = it + Len(b)
    BY <1>2, <1>5, <1>6, DecodedAsRepresented
  <2>2. Len(b) \in Nat
    BY <1>5 DEF PartAt
  <2> QED
    BY <1>5, <1>6, <2>1, <2>2
<1>8. units \in Seq(Nat) /\ Represents(To, units, c) /\ units # <<>>
  <2>1. units = ToMb(c)
    BY <1>7
  <2> QED
    BY <1>2, <1>5, <2>1, EncodedInMb
<1>9. Appends(units, got.next)
  BY <1>8 DEF UtfToMb
<1> HIDE DEF units, got
<1>10. chunks' = Append(chunks, units) /\ it' = at[m + 1] + 1 /\ pending' = 0 /\ Keep /\ UNCHANGED status
  BY <1>6, <1>7, <1>9 DEF Appends
<1> QED
  BY <1>1, <1>2, <1>4, <1>8, <1>10, CharacterConverted

\* From UTF-16 it converts one or reads the first of a pair of surrogates.
LEMMA U16ToMbIsFaithful ==
    ASSUME ConvInv, RealText, FaithfulInv, U16ToMb
    PROVE  FaithfulInv'
<1>1. PICK parts, at : Reads(parts, at)
  BY DEF FaithfulInv
<1> DEFINE m == Len(chunks)
           b == parts[m + 1]
           c == text[m + 1]
           u == input[it]
           read == IF pending = 0 THEN u ELSE 65536 + ((pending % 1024) * 1024) + (u % 1024)
           units == ToMb(read)
<1>2. status = "running" /\ it <= Len(input) /\ From = "u16" /\ To = "mb"
  BY DEF U16ToMb, Reading
<1>3. Len(input) \in Nat
  BY LenProperties DEF ConvInv
<1>4. m # Len(text)
  BY <1>1, <1>2, <1>3, NextCharacter
<1>5. /\ c \in Nat /\ Scalar(c) /\ Represents(From, b, c) /\ m \in Nat /\ at[m] \in Nat
      /\ PartAt(input, at[m] + 1, b) /\ at[m + 1] = at[m] + Len(b)
      /\ m + 1 \in 1..Len(text)
  BY <1>1, <1>4, NextCharacter
<1>6. /\ b \in Seq(Nat) /\ Len(b) \in Nat \ {0} /\ \A j \in 1..Len(b) : b[j] \in Nat
      /\ \A j \in 1..Len(b) : input[at[m] + j] = b[j]
  <2>1. b \in Seq(Nat) /\ Len(b) \in Nat \ {0}
        /\ \A j \in 1..Len(b) : input[(at[m] + 1) + (j - 1)] = b[j]
    BY <1>5 DEF PartAt
  <2>2. \A j \in 1..Len(b) : (at[m] + 1) + (j - 1) = at[m] + j
    BY <1>5, <2>1
  <2> QED
    BY <2>1, <2>2, ElementOfSeq
<1>7. \/ b = <<c>> /\ c < 65536
      \/ /\ Len(b) = 2 /\ Between(b[1], 55296, 56319) /\ Between(b[2], 56320, 57343)
         /\ c = 65536 + ((b[1] - 55296) * 1024) + (b[2] - 56320)
  BY <1>2, <1>5, SMT DEF Represents
<1> HIDE DEF c
<1>8. ASSUME read = c, pending # 0 => u \div 1024 = 55, ~(pending = 0 /\ HighSurrogate(u)),
             it = at[m] + Len(b)
      PROVE  FaithfulInv'
  <2>1. units \in Seq(Nat) /\ Represents(To, units, c) /\ units # <<>>
    BY <1>2, <1>5, <1>8, EncodedInMb
  <2>2. chunks' = Append(chunks, units) /\ it' = it + 1 /\ pending' = 0 /\ Keep /\ UNCHANGED status
    <3>1. IF pending = 0 /\ HighSurrogate(u)
          THEN it' = it + 1 /\ pending' = u /\ Keep /\ UNCHANGED <<chunks, status>>
          ELSE IF units = <<>> \/ (pending # 0 /\ u \div 1024 # 55) THEN Throws("invalid_argument")
          ELSE chunks' = Append(chunks, units) /\ it' = it + 1 /\ pending' = 0 /\ Keep /\ UNCHANGED status
      BY SMT DEF U16ToMb
    <3> HIDE DEF units, u
    <3> QED
      BY <1>8, <2>1, <3>1
  <2> HIDE DEF units
  <2>3. it' = at[m + 1] + 1
    BY <1>5, <1>8, <2>2
  <2> QED
    BY <1>1, <1>2, <1>4, <2>1, <2>2, <2>3, CharacterConverted DEF c
<1>9. CASE pending = 0
  <2>1. it = at[m] + 1
    <3>1. ~(Len(b) = 2 /\ b[1] = 0)
      <4>1. Len(<<c>>) = 1
        BY SMT
      <4>2. ~Between(0, 55296, 56319)
        BY SMT DEF Between
      <4>3. b = <<c>> => Len(b) # 2
        BY <4>1, SMT
      <4> HIDE DEF b
      <4> QED
        BY <1>7, <4>2, <4>3, SMT
    <3>2. it = at[m] + 1 \/ (Len(b) = 2 /\ pending = b[1])
      BY <1>1 DEF Reads
    <3> QED
      BY <1>9, <3>1, <3>2
  <2>2. u = b[1] /\ b[1] \in Nat
    <3>1. 1 \in 1..Len(b)
      BY <1>6
    <3> QED
      BY <1>6, <2>1, <3>1
  <2>3. CASE b = <<c>> /\ c < 65536
    <3>1. u = c /\ Len(b) = 1
      BY <2>2, <2>3, SMT
    <3>2. ~HighSurrogate(c)
      BY <1>5, Surrogates, SMT DEF Scalar, Between
    <3> HIDE DEF u
    <3> QED
      BY <1>8, <1>9, <2>1, <3>1, <3>2 DEF read
  <2>4. CASE Len(b) = 2 /\ Between(b[1], 55296, 56319)
    <3>1. HighSurrogate(u)
      <4> DEFINE x == b[1]
      <4>1. x \in Nat /\ Between(x, 55296, 56319) /\ u = x
        BY <2>2, <2>4, SMT
      <4> HIDE DEF x, u
      <4>2. HighSurrogate(x)
        BY <4>1, Surrogates, SMT
      <4> QED
        BY <4>1, <4>2
    <3>2. it' = it + 1 /\ pending' = u /\ Keep /\ UNCHANGED <<chunks, status>>
      BY <1>9, <3>1 DEF U16ToMb
    <3>3. path' = path /\ text' = text /\ leg' = leg /\ input' = input /\ From' = From /\ To' = To
          /\ status' = status /\ chunks' = chunks
      BY <3>2 DEF Keep, From, To
    <3>4. m < Len(text) /\ it' = at[m] + 2 /\ pending' = b[1]
      <4>1. m < Len(text)
        BY <1>5, CharactersOfText
      <4>2. it + 1 = at[m] + 2
        BY <1>5, <2>1
      <4> QED
        BY <2>2, <3>2, <4>1, <4>2
    <3>5. Reads(parts, at)'
      <4>1. /\ Laid(parts, at, input) /\ Len(parts) = Len(text)
            /\ \A i \in 1..Len(text) : Represents(From, parts[i], text[i])
        BY <1>1 DEF Reads
      <4> QED
        BY <1>2, <2>4, <3>3, <3>4, <4>1 DEF Reads
    <3> HIDE DEF u, b, m
    <3> QED
      BY <3>3, <3>5 DEF FaithfulInv
  <2> QED
    BY <1>7, <2>3, <2>4
<1>10. CASE pending # 0
  <2>1. it = at[m] + 2 /\ Len(b) = 2 /\ pending = b[1]
    BY <1>1, <1>10 DEF Reads
  <2>2. b[1] \in Nat /\ b[2] \in Nat /\ u = b[2]
    <3>1. 1 \in 1..Len(b) /\ 2 \in 1..Len(b)
      BY <2>1, SMT
    <3> QED
      BY <1>6, <2>1, <3>1, SMT
  <2>3. /\ Between(b[1], 55296, 56319) /\ Between(b[2], 56320, 57343)
        /\ c = 65536 + ((b[1] - 55296) * 1024) + (b[2] - 56320)
    <3>1. b # <<c>>
      <4>1. Len(<<c>>) = 1
        BY SMT
      <4> QED
        BY <2>1, <4>1, SMT
    <3> QED
      BY <1>7, <3>1, SMT
  <2> DEFINE x == b[1]
             y == b[2]
  <2>4. x \in Nat /\ y \in Nat /\ Between(x, 55296, 56319) /\ Between(y, 56320, 57343)
        /\ c = 65536 + ((x - 55296) * 1024) + (y - 56320) /\ u = y /\ pending = x
    BY <2>1, <2>2, <2>3, SMT
  <2> HIDE DEF x, y, u
  <2>5. x % 1024 = x - 55296
    BY <2>4, Surrogates, SMT
  <2>6. y % 1024 = y - 56320 /\ y \div 1024 = 55
    BY <2>4, Surrogates, SMT
  <2>7. read = c
    BY <1>10, <2>4, <2>5, <2>6, SMT
  <2>8. it = at[m] + Len(b)
    BY <2>1
  <2> QED
    BY <1>8, <1>10, <2>4, <2>6, <2>7, <2>8
<1> QED
  BY <1>9, <1>10

\* A step of a conversion from multibyte characters converts one character.
LEMMA MbToAnyIsFaithful ==
    ASSUME ConvInv, RealText, FaithfulInv, MbToAny
    PROVE  FaithfulInv'
<1>1. PICK parts, at : Reads(parts, at)
  BY DEF FaithfulInv
<1> DEFINE m == Len(chunks)
           b == parts[m + 1]
           c == text[m + 1]
           n == MbLength(input, it)
           read == ValueOf(SubSeq(input, it, it + n - 1))
           units == IF To = "wide" THEN <<read>> ELSE Encode(To, read)
<1>2. status = "running" /\ it <= Len(input) /\ From = "mb" /\ To \in Utf \cup {"wide"}
  BY DEF MbToAny, Reading
<1>3. Len(input) \in Nat
  BY LenProperties DEF ConvInv
<1>4. m # Len(text)
  BY <1>1, <1>2, <1>3, NextCharacter
<1>5. /\ c \in Nat /\ Scalar(c) /\ Represents(From, b, c) /\ at[m] \in Nat
      /\ PartAt(input, at[m] + 1, b) /\ at[m + 1] = at[m] + Len(b)
  BY <1>1, <1>4, NextCharacter
<1>6. pending = 0 /\ it = at[m] + 1
  BY <1>1, <1>2 DEF Reads
<1>7. WellFormed(b) /\ ValueOf(b) = c
  BY <1>2, <1>5, RepresentedByUnits
<1>8. n = Len(b) /\ Len(b) \in Nat \ {0}
  <2>1. Len(b) \in Nat \ {0}
    BY <1>5 DEF PartAt
  <2> QED
    BY <1>5, <1>6, <1>7, <2>1, LengthOfFormed
<1>9. read = c
  <2>1. PICK k \in Nat : k = n /\ k = Len(b)
    BY <1>8
  <2>2. SubSeq(input, it, (it + Len(b)) - 1) = b
    BY <1>5, <1>6, PartIsCut
  <2>3. SubSeq(input, it, (it + k) - 1) = b
    BY <2>1, <2>2
  <2>4. SubSeq(input, it, it + n - 1) = SubSeq(input, it, (it + k) - 1)
    <3>1. SubSeq(input, it, it + n - 1) = SubSeq(input, it, it + k - 1)
      BY <2>1
    <3> DEFINE i == it
    <3>2. i \in Nat
      BY <1>5, <1>6
    <3> HIDE DEF i
    <3>3. i + k - 1 = (i + k) - 1
      BY <2>1, <3>2
    <3> QED
      BY <3>1, <3>3 DEF i
  <2> QED
    BY <1>7, <2>3, <2>4
<1> HIDE DEF read
<1>10. units \in Seq(Nat) /\ Represents(To, units, c)
  <2>1. CASE To = "wide"
    <3>1. units = <<c>>
      BY <1>9, <2>1
    <3>2. <<c>> \in Seq(Nat) /\ Represents("wide", <<c>>, c)
      BY <1>5, RepresentedByUnits
    <3> QED
      BY <2>1, <3>1, <3>2
  <2>2. CASE To # "wide"
    <3>1. units = Encode(To, c) /\ To \in Utf
      BY <1>2, <1>9, <2>2
    <3> QED
      BY <1>5, <3>1, EncodedAsRepresented
  <2> QED
    BY <2>1, <2>2
<1>11. Appends(units, it + n)
  <2>1. (CASE n = 0  -> Throws("invalid_argument")
           [] n = -1 -> Throws("runtime_error")
           [] n > 0  -> Appends(units, it + n))
    BY DEF MbToAny, read
  <2> HIDE DEF units, n
  <2>2. n > 0 /\ n # 0 /\ n # -1
    BY <1>8
  <2> QED
    BY <2>1, <2>2
<1>12. it + n = at[m + 1] + 1
  BY <1>5, <1>6, <1>8
<1> HIDE DEF units, n
<1>13. chunks' = Append(chunks, units) /\ it' = at[m + 1] + 1 /\ pending' = 0 /\ Keep /\ UNCHANGED status
  BY <1>6, <1>11, <1>12 DEF Appends
<1> QED
  BY <1>1, <1>2, <1>4, <1>10, <1>13, CharacterConverted

\* At the end of its input, a conversion has converted the whole text.
LEMMA NextLegIsFaithful ==
    ASSUME ConvInv, RealText, FaithfulInv, NextLeg
    PROVE  FaithfulInv'
<1>1. PICK parts, at : Reads(parts, at)
  BY DEF FaithfulInv
<1>2. status = "running" /\ it = Len(input) + 1 /\ path' = path /\ text' = text
  BY DEF NextLeg
<1>3. Len(chunks) = Len(text)
  <2>1. Len(input) \in Nat
    BY LenProperties DEF ConvInv
  <2>2. ~(it <= Len(input))
    BY <1>2, <2>1
  <2> QED
    BY <1>1, <2>2, NextCharacter
<1>4. CASE leg + 1 = Len(path)
  <2>1. status' = "done" /\ UNCHANGED <<leg, input, it, chunks, pending>>
    BY <1>4 DEF NextLeg
  <2>2. From' = From /\ To' = To
    BY <1>2, <2>1 DEF From, To
  <2>3. Reads(parts, at)'
    BY <1>1, <1>2, <2>1, <2>2 DEF Reads
  <2> QED
    BY <1>2, <1>3, <2>1, <2>2, <2>3 DEF FaithfulInv
<1>5. CASE leg + 1 # Len(path)
  BY <1>2, <1>3, <1>5, LegFollows DEF NextLeg, Output
<1> QED
  BY <1>4, <1>5

\* Every step of a conversion keeps it faithful to a text of real characters.
LEMMA ConversionStaysFaithful ==
    ASSUME ConvInv, RealText, FaithfulInv, Next
    PROVE  FaithfulInv'
<1>1. CASE WideToMb
  <2>1. From = "wide"
    BY <1>1 DEF WideToMb, Reading
  <2>2. leg = 1
    BY <2>1 DEF ConvInv
  <2> QED
    BY <2>1, <2>2 DEF From, RealText
<1> QED
  BY <1>1, UtfToUtfIsFaithful, UtfToMbIsFaithful, U16ToMbIsFaithful, MbToAnyIsFaithful,
     NextLegIsFaithful DEF Next

\* The text a path begins with is no other than the one in it.
LEMMA TextStays ==
    ASSUME ConvInv, Next
    PROVE  path' = path /\ text' = text
<1>1. ASSUME NEW units, NEW next, Appends(units, next) PROVE path' = path /\ text' = text
  BY <1>1 DEF Appends, Keep
<1>2. ASSUME NEW what, Throws(what) PROVE path' = path /\ text' = text
  BY <1>2 DEF Throws, Keep
<1>3. CASE UtfToUtf
  BY <1>1, <1>2, <1>3 DEF UtfToUtf
<1>4. CASE UtfToMb
  BY <1>1, <1>2, <1>4 DEF UtfToMb
<1>5. CASE U16ToMb
  BY <1>2, <1>5, SMT DEF U16ToMb, Keep
<1>6. CASE MbToAny
  <2> DEFINE n == MbLength(input, it)
             c == ValueOf(SubSeq(input, it, it + n - 1))
             units == IF To = "wide" THEN <<c>> ELSE Encode(To, c)
  <2>1. (CASE n = 0  -> Throws("invalid_argument")
           [] n = -1 -> Throws("runtime_error")
           [] n > 0  -> Appends(units, it + n))
    BY <1>6 DEF MbToAny
  <2>2. Len(input) \in Nat /\ it \in 1..Len(input) /\ input \in Seq(Nat)
    BY <1>6, LenProperties DEF ConvInv, MbToAny, Reading
  <2>3. n = 0 \/ n = -1 \/ n > 0
    BY <2>2, LengthInside
  <2> HIDE DEF n, units
  <2> QED
    BY <1>1, <1>2, <2>1, <2>3
<1>7. CASE WideToMb
  BY <1>1, <1>2, <1>7 DEF WideToMb
<1>8. CASE NextLeg
  BY <1>8 DEF NextLeg
<1> QED
  BY <1>3, <1>4, <1>5, <1>6, <1>7, <1>8 DEF Next

\* A text of code points is its characters, one unit each.
LEMMA ConversionBeginsFaithful ==
    ASSUME Init, RealText
    PROVE  FaithfulInv
<1>1. /\ ConvInv /\ leg = 1 /\ input = text /\ it = 1 /\ chunks = <<>> /\ pending = 0
      /\ status = "running"
  BY ConversionBegins
<1>2. text \in Seq(Nat) /\ From = "u32"
  BY <1>1 DEF ConvInv, From, RealText
<1> DEFINE n == Len(text)
<1>3. n \in Nat /\ \A i \in 1..n : text[i] \in Nat
  BY <1>2, LenProperties, ElementOfSeq
<1> DEFINE parts == [k \in 1..n |-> <<text[k]>>]
           at == [k \in 0..n |-> k]
<1>4. parts \in Seq(Seq(Nat)) /\ Len(parts) = n
  <2>1. parts \in [1..n -> Seq(Nat)]
    BY <1>3
  <2> HIDE DEF parts
  <2> QED
    BY <1>3, <2>1, SeqDef
<1>5. \A k \in 1..n : parts[k] = <<text[k]>> /\ Len(parts[k]) = 1 /\ parts[k][1] = text[k]
  OBVIOUS
<1>6. at \in [0..n -> Nat] /\ at[0] = 0 /\ at[n] = n
  BY <1>3
<1>7. \A k \in 1..n : at[k] = k /\ at[k - 1] = k - 1
  BY <1>3
<1> HIDE DEF parts, at
<1>8. Laid(parts, at, text)
  <2>1. ASSUME NEW k \in 1..n
        PROVE  /\ at[k] = at[k - 1] + Len(parts[k])
               /\ \A j \in 1..Len(parts[k]) : text[at[k - 1] + j] = parts[k][j]
    <3>1. Len(parts[k]) = 1 /\ parts[k][1] = text[k] /\ at[k] = k /\ at[k - 1] = k - 1 /\ k \in Nat
      BY <1>3, <1>5, <1>7
    <3>2. k = (k - 1) + 1
      BY <3>1
    <3>3. ASSUME NEW j \in 1..1 PROVE text[(k - 1) + j] = parts[k][j]
      <4>1. j = 1
        OBVIOUS
      <4> QED
        BY <3>1, <3>2, <4>1
    <3> QED
      BY <3>1, <3>2, <3>3
  <2> QED
    BY <1>2, <1>4, <1>6, <2>1 DEF Laid
<1>9. \A k \in 1..n : Represents(From, parts[k], text[k])
  BY <1>2, <1>5, RepresentedByUnits
<1>10. Len(chunks) = 0
  BY <1>1
<1>11. Reads(parts, at)
  BY <1>1, <1>4, <1>6, <1>8, <1>9, <1>10 DEF Reads
<1> QED
  BY <1>1, <1>3, <1>10, <1>11 DEF FaithfulInv

\* What was converted to code points again is the code points it was.
LEMMA FaithfulRoundTrips ==
    ASSUME ConvInv, FaithfulInv
    PROVE  RoundTrips
<1> SUFFICES ASSUME RealText, status = "done", To = "u32" PROVE FlattenSeq(chunks) = text
  BY DEF RoundTrips, Output
<1> DEFINE n == Len(text)
           S == FlattenSeq(chunks)
<1>1. chunks \in Seq(Seq(Nat)) /\ Len(chunks) = n /\ text \in Seq(Nat) /\ n \in Nat
  BY CharactersOfText DEF ConvInv, FaithfulInv
<1>2. ASSUME NEW k \in 1..n PROVE chunks[k] = <<text[k]>>
  BY <1>1, RepresentedByUnits DEF FaithfulInv
<1>3. PICK at : Laid(chunks, at, S)
  BY <1>1, FlattenLays
<1>4. /\ S \in Seq(Nat) /\ at \in [0..n -> Nat] /\ at[0] = 0 /\ at[n] = Len(S)
      /\ \A k \in 1..n : /\ at[k] = at[k - 1] + Len(chunks[k])
                         /\ \A j \in 1..Len(chunks[k]) : S[at[k - 1] + j] = chunks[k][j]
  BY <1>1, <1>3 DEF Laid
<1> HIDE DEF S, n
<1>5. ASSUME NEW k \in 1..n
      PROVE  at[k] = at[k - 1] + 1 /\ S[at[k - 1] + 1] = text[k]
  <2>1. Len(chunks[k]) = 1 /\ chunks[k][1] = text[k]
    BY <1>2
  <2>2. 1 \in 1..Len(chunks[k])
    BY <2>1
  <2> QED
    BY <1>4, <2>1, <2>2
<1> DEFINE T == {k \in Nat : k <= n => at[k] = k}
<1>6. 0 \in T
  BY <1>4
<1>7. ASSUME NEW k \in Nat, k \in T PROVE k + 1 \in T
  <2> SUFFICES ASSUME k + 1 <= n PROVE at[k + 1] = k + 1
    OBVIOUS
  <2>1. k + 1 \in 1..n /\ (k + 1) - 1 = k /\ k <= n
    BY <1>1
  <2> QED
    BY <1>5, <1>7, <2>1
<1> HIDE DEF T
<1>8. Nat \subseteq T
  BY <1>6, <1>7, InductionOnSet
<1>9. ASSUME NEW k \in 0..n PROVE at[k] = k
  <2>1. k \in T /\ k <= n
    BY <1>1, <1>8
  <2> QED
    BY <2>1 DEF T
<1>10. Len(S) = n
  <2>1. n \in 0..n
    BY <1>1
  <2>2. at[n] = n
    BY <1>9, <2>1
  <2> QED
    BY <1>4, <2>2
<1>11. ASSUME NEW k \in 1..n PROVE S[k] = text[k]
  <2>1. k - 1 \in 0..n /\ (k - 1) + 1 = k
    BY <1>1
  <2> QED
    BY <1>5, <1>9, <2>1
<1>12. Len(text) = Len(S) /\ \A k \in 1..Len(S) : S[k] = text[k]
  BY <1>10, <1>11 DEF n
<1>13. S = text
  BY <1>1, <1>4, <1>12, SeqEqual
<1> QED
  BY <1>13 DEF S

\* What a conversion of a text of real characters has appended is always the
\* characters of the text from the first on, each as the standard encodes it.
\* So the text comes back from a path that ends where it began, if no wide
\* characters are on the way.
THEOREM ConversionsAreAlwaysFaithful ==
    TextSpec => [](ConversionsAreFaithful /\ (component = "conversion" => RoundTrips))
<1> DEFINE Inside == /\ component = "conversion" => ConvInv
                     /\ component = "conversion" /\ RealText => FaithfulInv
<1>1. ConversionInit \/ StreamInit => Inside
  <2>1. ConversionInit => Inside
    BY ConversionBegins, ConversionBeginsFaithful DEF ConversionInit
  <2>2. StreamInit => Inside
    BY DEF StreamInit
  <2> QED
    BY <2>1, <2>2
<1>2. Inside /\ [ConversionNext \/ StreamNext \/ LinesNext]_AllVars => Inside'
  <2>1. ASSUME Inside, ConversionNext PROVE Inside'
    <3>1. Next /\ component = "conversion" /\ component' = component /\ ConvInv
      BY <2>1 DEF ConversionNext
    <3>2. ConvInv'
      BY <3>1, ConversionStaysInside
    <3>3. RealText' <=> RealText
      BY <3>1, TextStays DEF RealText
    <3>4. RealText => FaithfulInv'
      BY <2>1, <3>1, ConversionStaysFaithful
    <3> QED
      BY <3>2, <3>3, <3>4
  <2>2. ASSUME Inside, UNCHANGED AllVars \/ StreamNext \/ LinesNext PROVE Inside'
    <3>1. UNCHANGED <<component, vars>>
      BY <2>2 DEF StreamNext, LinesNext, AllVars
    <3>2. UNCHANGED <<component, path, text, leg, input, it, chunks, pending, status>>
      BY <3>1 DEF vars
    <3>3. From' = From /\ To' = To
      BY <3>2 DEF From, To
    <3>4. ConvInv => ConvInv'
      BY <3>2, <3>3 DEF ConvInv
    <3>5. RealText' <=> RealText
      BY <3>2 DEF RealText
    <3>6. FaithfulInv => FaithfulInv'
      <4> SUFFICES ASSUME FaithfulInv PROVE FaithfulInv'
        OBVIOUS
      <4>1. PICK parts, at : Reads(parts, at)
        BY DEF FaithfulInv
      <4>2. Reads(parts, at)'
        BY <3>2, <3>3, <4>1 DEF Reads
      <4> QED
        BY <3>2, <3>3, <4>2 DEF FaithfulInv
    <3> QED
      BY <2>2, <3>2, <3>4, <3>5, <3>6
  <2> QED
    BY <2>1, <2>2
<1>3. Inside => (component = "conversion" => RoundTrips)
  BY FaithfulRoundTrips DEF RoundTrips
<1>4. Inside => ConversionsAreFaithful
  <2> SUFFICES ASSUME ConvInv, FaithfulInv PROVE Faithful
    BY DEF ConversionsAreFaithful, Faithful
  <2>1. DOMAIN chunks = 1..Len(chunks)
    BY LenProperties DEF ConvInv
  <2> QED
    BY <2>1 DEF Faithful, FaithfulInv
<1> QED
  BY <1>1, <1>2, <1>3, <1>4, PTL DEF TextSpec
=============================================================================
