------------------------------- MODULE Getopt -------------------------------
(***************************************************************************)
(* mh::parse_args (io/getopt.hpp), which drives the getopt_long of the C   *)
(* library and hands every option, and then every argument that is none,   *)
(* to a function that may stop it.  getopt_long keeps its place in         *)
(* globals: of those, parse_args sets and restores optind only             *)
(* (variable_pusher); where it is inside an argument, and which arguments  *)
(* it has set aside, it remembers from one parse to the next.              *)
(*                                                                         *)
(* The short options are v, without an argument, and f, with one; others   *)
(* are unknown.  An argument is "plain", the terminator "--", a cluster of *)
(* short options, or a long option: one without argument, or with one      *)
(* inside it ("long"), or with one that follows ("long arg").              *)
(***************************************************************************)
EXTENDS Integers, Sequences, FiniteSets

CONSTANTS
    Clusters,   \* sequences of option letters
    MaxArgs     \* bound of argc

VARIABLES
    argv,       \* the arguments; getopt_long moves those that are no options back
    scanner,    \* the globals of getopt: optind, nextchar, first_nonopt, last_nonopt
    parse       \* the call of parse_args: phase, old value of optind, what was delivered

vars == <<argv, scanner, parse>>

Plain == {[kind |-> k, letters |-> <<>>] : k \in {"plain", "--", "long", "long arg"}}
Arguments == Plain \cup {[kind |-> "cluster", letters |-> c] : c \in Clusters}

\* The arguments of a call, each with its place.
ArgVectors ==
    UNION {{[i \in 1..n |-> [id |-> i, kind |-> f[i].kind, letters |-> f[i].letters]] :
               f \in [1..n -> Arguments]} : n \in 0..MaxArgs}

Init ==
    /\ argv = <<>>
    /\ scanner \in [optind : {1, 2}, nextchar : {<<>>}, first : {1}, last : {1}]
    /\ parse = [phase |-> "none", clean |-> TRUE, saved |-> scanner.optind, delivered |-> <<>>]

\* The parts of an argument: its letters, or all of it.
Letters(a) == [k \in DOMAIN a.letters |-> [id |-> a.id, at |-> k, letter |-> a.letters[k]]]
Parts(a) ==
    IF a.kind = "cluster" THEN {<<a.id, k>> : k \in DOMAIN a.letters} ELSE {<<a.id, 0>>}
PartsOfLetters(s) == {<<s[k].id, s[k].at>> : k \in DOMAIN s}
-----------------------------------------------------------------------------
(* getopt_long.                                                            *)

AtMost(n, m) == IF n < m THEN n ELSE m

\* exchange: the options found since go before the arguments set aside.
Exchanged(args, s) ==
    SubSeq(args, 1, s.first - 1) \o SubSeq(args, s.last, s.optind - 1)
      \o SubSeq(args, s.first, s.last - 1) \o SubSeq(args, s.optind, Len(args))

\* Sets the arguments that are no options aside; the arguments, and the globals.
SetAside(args, s) ==
    IF s.first # s.last /\ s.last # s.optind
    THEN [args |-> Exchanged(args, s),
          s |-> [s EXCEPT !.first = @ + s.optind - s.last, !.last = s.optind]]
    ELSE [args |-> args, s |-> IF s.last # s.optind THEN [s EXCEPT !.first = s.optind] ELSE s]

\* The first argument from i on that is an option, or the end.
NextElement(args, i) ==
    CHOOSE next \in i..(Len(args) + 1) :
        /\ next > Len(args) \/ args[next].kind # "plain"
        /\ \A j \in i..(next - 1) : args[j].kind = "plain"

\* "--" is an option itself, and nothing behind it is.
Terminated(after) ==
    [after EXCEPT !.s.last = Len(after.args) + 1, !.s.optind = Len(after.args) + 1]
Terminator(args, s) ==
    Terminated(IF s.first # s.last THEN SetAside(args, s)
               ELSE [args |-> args, s |-> [s EXCEPT !.first = s.optind]])

\* Goes on to the next argument that is an option.
Advanced(aside) ==
    LET next == NextElement(aside.args, aside.s.optind)
    IN  IF next > Len(aside.args) \/ aside.args[next].kind # "--"
        THEN [aside EXCEPT !.s.optind = next, !.s.last = next]
        ELSE Terminator(aside.args, [aside.s EXCEPT !.optind = next + 1, !.last = next])

Found(args, s, parts) == [args |-> args, s |-> s, ended |-> FALSE, parts |-> parts]

\* An option that needs the next argument gets it, if there is one.
WithNext(args, s, parts) ==
    IF s.optind > Len(args) THEN Found(args, s, parts)
    ELSE Found(args, [s EXCEPT !.optind = @ + 1], parts \cup Parts(args[s.optind]))

ShortOption(args, s) ==
    LET part == PartsOfLetters(<<Head(s.nextchar)>>)
        isLast == Len(s.nextchar) = 1
        after == [s EXCEPT !.nextchar = Tail(@), !.optind = IF isLast THEN @ + 1 ELSE @]
    IN  IF Head(s.nextchar).letter # "f" THEN Found(args, after, part)
        ELSE IF isLast THEN WithNext(args, after, part)
        ELSE Found(args, [s EXCEPT !.nextchar = <<>>, !.optind = @ + 1],
                   PartsOfLetters(s.nextchar))

Option(args, s, option) ==
    CASE option.kind = "cluster" -> ShortOption(args, [s EXCEPT !.nextchar = Letters(option)])
      [] option.kind = "long arg" -> WithNext(args, [s EXCEPT !.optind = @ + 1], Parts(option))
      [] OTHER -> Found(args, [s EXCEPT !.optind = @ + 1], Parts(option))

\* The option that it has gone on to, or the end: optind is then at the first
\* of the arguments set aside.
OptionOrEnd(at) ==
    IF at.s.optind <= Len(at.args) THEN Option(at.args, at.s, at.args[at.s.optind])
    ELSE [args |-> at.args, ended |-> TRUE, parts |-> {},
          s |-> IF at.s.first = at.s.last THEN at.s ELSE [at.s EXCEPT !.optind = at.s.first]]

\* One call: the rest of the cluster it is in, or the next argument.
GetoptLong(args, s) ==
    IF s.nextchar # <<>> THEN ShortOption(args, s)
    ELSE OptionOrEnd(Advanced(
           SetAside(args, [s EXCEPT !.first = AtMost(@, s.optind), !.last = AtMost(@, s.optind)])))
-----------------------------------------------------------------------------
(* parse_args.                                                             *)

\* The destructor of variable_pusher, when parse_args is left.
Restored(s) == [s EXCEPT !.optind = parse.saved]

\* Mutant: optind is saved, but not set.
ParseArgsFrom(args) ==
    /\ parse.phase = "none"
    /\ argv' = args
    /\ parse' = [phase |-> "options", clean |-> scanner.nextchar = <<>>,
                 saved |-> scanner.optind, delivered |-> <<>>]
    /\ UNCHANGED scanner

ParseArgs(args) ==
    /\ parse.phase = "none"
    /\ argv' = args
    /\ scanner' = [scanner EXCEPT !.optind = 1]
    /\ parse' = [phase |-> "options", clean |-> scanner.nextchar = <<>>,
                 saved |-> scanner.optind, delivered |-> <<>>]

Deliver(parts, isNonOption) ==
    Append(parse.delivered, [parts |-> parts, isNonOption |-> isNonOption])

\* An option goes to the function, which lets the parse go on or stops it.
\* (Past the end of argv, where only a rest of an earlier parse can lead it,
\* getopt_long is undefined.)
NextOption ==
    /\ parse.phase = "options"
    /\ scanner.nextchar # <<>> \/ scanner.optind <= Len(argv) + 1
    /\ \E found \in {GetoptLong(argv, scanner)} :
           /\ argv' = found.args
           /\ \/ found.ended /\ parse' = [parse EXCEPT !.phase = "rest"] /\ scanner' = found.s
              \/ /\ ~found.ended
                 /\ parse' = [parse EXCEPT !.delivered = Deliver(found.parts, FALSE)]
                 /\ scanner' = found.s
              \/ /\ ~found.ended
                 /\ parse' = [parse EXCEPT !.phase = "stopped",
                                           !.delivered = Deliver(found.parts, FALSE)]
                 /\ scanner' = Restored(found.s)

\* The arguments that are no options; what the function says is ignored.
NextNonOption ==
    /\ parse.phase = "rest" /\ scanner.optind <= Len(argv)
    /\ parse' = [parse EXCEPT !.delivered = Deliver(Parts(argv[scanner.optind]), TRUE)]
    /\ scanner' = [scanner EXCEPT !.optind = @ + 1]
    /\ UNCHANGED argv

Return ==
    /\ parse.phase = "rest" /\ scanner.optind > Len(argv)
    /\ parse' = [parse EXCEPT !.phase = "finished"]
    /\ scanner' = Restored(scanner)
    /\ UNCHANGED argv

\* The program goes on, to parse other arguments perhaps.
Forget ==
    /\ parse.phase \in {"stopped", "finished"}
    /\ parse' = [parse EXCEPT !.phase = "none", !.delivered = <<>>]
    /\ argv' = <<>> /\ UNCHANGED scanner

Next ==
    \/ \E args \in ArgVectors : ParseArgs(args)
    \/ NextOption \/ NextNonOption \/ Return \/ Forget

Spec == Init /\ [][Next]_vars
-----------------------------------------------------------------------------
(* Properties.                                                             *)

Delivered(i) == parse.delivered[i].parts
First(parts) == CHOOSE p \in parts : \A q \in parts : p[1] < q[1] \/ (p[1] = q[1] /\ p[2] <= q[2])
Before(p, q) == p[1] < q[1] \/ (p[1] = q[1] /\ p[2] < q[2])

\* A parse delivers every argument, and every letter of a cluster, exactly
\* once, and options and the others each in the order in which they were given,
\* whatever earlier parses left in the globals; unless one was stopped within
\* a cluster, whose rest getopt_long then takes for the start of the next.
EachArgumentOnce ==
    parse.clean =>
        /\ \A i, j \in DOMAIN parse.delivered : i < j =>
             /\ Delivered(i) \cap Delivered(j) = {}
             /\ parse.delivered[i].isNonOption = parse.delivered[j].isNonOption
                  => Before(First(Delivered(i)), First(Delivered(j)))
        /\ parse.phase = "finished" =>
             /\ scanner.optind = parse.saved
             /\ \A k \in DOMAIN argv : argv[k].kind # "--" =>
                  Parts(argv[k]) \subseteq UNION {Delivered(i) : i \in DOMAIN parse.delivered}
=============================================================================
