-------------------------- MODULE IndentingOstream --------------------------
(***************************************************************************)
(* mh::indenting_ostream (text/indenting_ostream.hpp): a stream that hands *)
(* on what is written to it and puts an indentation after every newline.   *)
(* Text arrives in blocks (xsputn), as by operator<< of strings, and as    *)
(* single characters (overflow), as by put.  The stream under it refuses   *)
(* once it is full, and as soon as it has refused it does nothing more.    *)
(***************************************************************************)
EXTENDS Integers, SequencesExt, FiniteSetsExt

CONSTANTS
    Letters,    \* the characters that are not newlines, indentations included
    Newline,    \* m_NewlineChar
    Room,       \* how many characters the stream under it takes
    MaxBlock,   \* bound of a block
    MaxIndent   \* bound of m_IndentCount

VARIABLES
    indent,     \* m_IndentChar and m_IndentCount
    under,      \* m_UnderlyingStream: its text, and whether it has refused
    rest,       \* what xsputn has still to write
    owed        \* the text that should come out

vars == <<indent, under, rest, owed>>

Characters == Letters \cup {Newline}
Indents == [char : Letters, count : 0..MaxIndent]
Indentation == [i \in 1..indent.count |-> indent.char]

Init ==
    /\ indent \in Indents
    /\ under = [text |-> <<>>, bad |-> FALSE]
    /\ rest = <<>> /\ owed = <<>>

\* write and put of the stream under it.
Written(s) ==
    LET fitting == Min({Len(s), Room - Len(under.text)})
    IN  IF under.bad THEN under
        ELSE [text |-> under.text \o SubSeq(s, 1, fitting), bad |-> fitting < Len(s)]

\* What a character becomes.
Indented(c) == IF c = Newline THEN <<c>> \o Indentation ELSE <<c>>

\* What a text becomes, character by character.
IndentedText(s) ==
    LET out[k \in 0..Len(s)] == IF k = 0 THEN <<>> ELSE out[k - 1] \o Indented(s[k])
    IN  out[Len(s)]
-----------------------------------------------------------------------------
\* The setters, between two writes.
SetIndent(char, count) ==
    /\ rest = <<>>
    /\ indent' = [char |-> char, count |-> count]
    /\ UNCHANGED <<under, rest, owed>>

\* xsputn is called.
XSPutN(s) ==
    /\ rest = <<>> /\ s # <<>>
    /\ rest' = s
    /\ owed' = owed \o IndentedText(s)
    /\ UNCHANGED <<indent, under>>

\* Mutant: the line that ends the block is not indented.
WriteLineInside ==
    /\ rest # <<>>
    /\ LET newlines == {i \in DOMAIN rest : rest[i] = Newline}
           offset == IF newlines = {} THEN Len(rest) ELSE Min(newlines)
           line == SubSeq(rest, 1, offset)
       IN  /\ under' = Written(line \o (IF offset < Len(rest) THEN Indentation ELSE <<>>))
           /\ rest' = SubSeq(rest, offset + 1, Len(rest))
    /\ UNCHANGED <<indent, owed>>

\* One round of its loop: up to the next newline, or the remainder.
WriteLine ==
    /\ rest # <<>>
    /\ LET newlines == {i \in DOMAIN rest : rest[i] = Newline}
           offset == IF newlines = {} THEN Len(rest) ELSE Min(newlines)
           line == SubSeq(rest, 1, offset)
       IN  /\ under' = Written(line \o (IF newlines = {} THEN <<>> ELSE Indentation))
           /\ rest' = SubSeq(rest, offset + 1, Len(rest))
    /\ UNCHANGED <<indent, owed>>

\* overflow: there is no put area, so every single character comes here.
Overflow(c) ==
    /\ rest = <<>>
    /\ under' = Written(Indented(c))
    /\ owed' = owed \o Indented(c)
    /\ UNCHANGED <<indent, rest>>

Blocks == UNION {[1..n -> Characters] : n \in 1..MaxBlock}

\* Nothing is written any more once the stream under it has refused.
Next ==
    \/ WriteLine
    \/ \E i \in Indents : SetIndent(i.char, i.count)
    \/ /\ ~under.bad
       /\ \/ \E s \in Blocks : XSPutN(s)
          \/ \E c \in Characters : Overflow(c)

Spec == Init /\ [][Next]_vars
-----------------------------------------------------------------------------
\* However a text is cut into blocks and characters, and whenever the
\* indentation is changed, what comes out is the text with the indentation of
\* the time after each newline, and no more than its beginning if the stream
\* under it is full.
IndentsEveryLine ==
    /\ IsPrefix(under.text, owed)
    /\ rest = <<>> /\ ~under.bad => under.text = owed
=============================================================================
