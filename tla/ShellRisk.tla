----------------------------- MODULE ShellRisk ------------------------------
(***************************************************************************)
(* How the sandbox classifies a shell command (internal/exec/sandbox.go,   *)
(* Classify and below).  A command line is a sequence of words and         *)
(* operators, as they are after quoting: a word is a name from the tables, *)
(* a flag, an operand, a redirection or an assignment.  The line grows by  *)
(* one word per step, and the classification is the algorithm of the code  *)
(* over it.                                                                *)
(***************************************************************************)
EXTENDS Naturals, Sequences

CONSTANTS
    Words,  \* the words a line is made of
    MaxLine \* bound: words in a line

ASSUME LineAssumption == MaxLine \in Nat

VARIABLE line

\* The classes in their order.
Low == 0
Medium == 1
High == 2
Critical == 3

Levels == Low .. Critical
MaxRisk(a, b) == IF b > a THEN b ELSE a
WorstOf(S) == CHOOSE r \in S : \A q \in S : q <= r

-----------------------------------------------------------------------------
\* The tables, with a few members of each

SafeRead     == {"ls", "grep", "find"}
BuildTest    == {"go"}
MutatingFS   == {"touch"}
NetworkCmds  == {"curl"}
DiskHeavy    == {"dd"}
Interpreters == {"sh"}
SearchCmds   == {"grep", "rg", "find"}
SearchExecFlags == {"--pre", "-exec", "-delete"}
ShellKeywords == {"then", "{"}
Substitutions == {"$(x)"}

\* wrapperSpec: the options that take a value, the positional operands before
\* the command, and the floor.
Wrappers == {"sudo", "timeout", "nice"}
ValueFlag == [sudo |-> "-u", timeout |-> "-s", nice |-> "-n"]
Operands  == [sudo |-> 0, timeout |-> 1, nice |-> 0]
Floor     == [sudo |-> Medium, timeout |-> Low, nice |-> Low]

\* A name with a path before it, and its basename.
Qualified(w) == CASE w = "rm" -> "/bin/rm" [] w = "dd" -> "/bin/dd" [] w = "ls" -> "/bin/ls"
                  [] w = "rg" -> "/bin/rg" [] w = "sudo" -> "/bin/sudo" [] OTHER -> w
Base(w) == CASE w = "/bin/rm" -> "rm" [] w = "/bin/dd" -> "dd" [] w = "/bin/ls" -> "ls"
             [] w = "/bin/rg" -> "rg" [] w = "/bin/sudo" -> "sudo" [] OTHER -> w

Separators   == {";", "&", "|"}
Redirections == {">", ">out", "<in"}
OutRedirects == {">", ">out"}
BareRedirects == {">"}
Assignments  == {"A=1"}
Flags == {"-u", "-s", "-n", "-c", "-rf", "-r", "-f", "--recursive", "--force", "--pre",
          "-exec", "-delete", "--", "--pre=x"}
FlagName(w) == IF w = "--pre=x" THEN "--pre" ELSE w

IsPrefixWord(w) ==
    w \in ShellKeywords \union Assignments \union Redirections \/ Base(w) \in Wrappers

-----------------------------------------------------------------------------
\* The algorithm

From(s, i) == SubSeq(s, i, Len(s))

\* splitSegments: the longest runs of words without an operator.
Segments(c) ==
    {SubSeq(c, p[1], p[2]) : p \in
        {q \in (1 .. Len(c)) \X (1 .. Len(c)) :
            /\ q[1] <= q[2] /\ \A i \in q[1] .. q[2] : c[i] \notin Separators
            /\ q[1] = 1 \/ c[q[1] - 1] \in Separators
            /\ q[2] = Len(c) \/ c[q[2] + 1] \in Separators}}

\* peelPrefixes and wrapperSpec.peel, word by word: whether the word is looked at
\* as the head of a command, stepped over as what a redirection or an option
\* takes, or read as an argument of a wrapper; and where the command begins.
NotPeeled == [mode |-> "head", wrapper |-> "sudo", operands |-> 0, floor |-> Low, at |-> 0]

PeelHead(s, w, i) ==
    CASE w \in ShellKeywords \union Assignments -> [s EXCEPT !.mode = "head"]
      [] w \in Redirections ->
            [s EXCEPT !.mode = IF w \in BareRedirects THEN "target" ELSE "head",
                      !.floor = IF w \in OutRedirects THEN MaxRisk(@, Medium) ELSE @]
      [] Base(w) \in Wrappers ->
            [s EXCEPT !.mode = "wrapper", !.wrapper = Base(w), !.operands = Operands[Base(w)],
                      !.floor = MaxRisk(@, Floor[Base(w)])]
      [] ~ IsPrefixWord(w) -> [s EXCEPT !.mode = "command", !.at = i]

PeelWord(s, w, i) ==
    CASE s.mode = "command" -> s
      [] s.mode = "head" -> PeelHead(s, w, i)
      [] s.mode = "target" -> [s EXCEPT !.mode = "head"]
      [] s.mode = "value" -> [s EXCEPT !.mode = "wrapper"]
      [] s.mode = "wrapper" ->
            IF w = "--" THEN [s EXCEPT !.mode = "head"]
            ELSE IF w \in Flags THEN [s EXCEPT !.mode = IF w = ValueFlag[s.wrapper] THEN "value" ELSE @]
            ELSE IF s.operands > 0 THEN [s EXCEPT !.operands = @ - 1]
            ELSE PeelHead(s, w, i)

PeelPrefixes(seg) ==
    LET peeled[i \in 0 .. Len(seg)] ==
            IF i = 0 THEN NotPeeled ELSE PeelWord(peeled[i - 1], seg[i], i)
    IN  peeled[Len(seg)]

\* The arguments of a program up to the end of its flags.
LiveArgs(t) == {t[i] : i \in {k \in 2 .. Len(t) : \A j \in 2 .. k : t[j] # "--"}}

\* hasRecursiveForce: in any spelling and order.
HasRecursiveForce(t) ==
    /\ LiveArgs(t) \intersect {"-rf", "-r", "--recursive"} # {}
    /\ LiveArgs(t) \intersect {"-rf", "-f", "--force"} # {}

\* MUTANT: the tables are asked for the name as it is spelt.
NameAsSpelt(w) == w

\* The name the tables are asked for.
Name(w) == Base(w)

\* headRisk: the dangerous tables are asked for the basename too, the benign
\* ones for the bare name only.
HeadRisk(t) ==
    LET base == Name(t[1]) IN
    IF base = "eval" THEN Critical
    ELSE IF base \in Interpreters /\ "-c" \in {t[i] : i \in 2 .. Len(t)} THEN Critical
    ELSE IF base \in NetworkCmds THEN High
    ELSE IF base \in DiskHeavy \/ (base = "rm" /\ HasRecursiveForce(t) /\ Len(t) > 2) THEN Critical
    ELSE IF base \in MutatingFS THEN Medium
    ELSE IF t[1] \in SafeRead \union BuildTest THEN Low
    ELSE Medium

\* searchFlagRisk: an escalation by the flags of a search tool.
SearchFlagRisk(t) ==
    IF Base(t[1]) \notin SearchCmds THEN Low
    ELSE IF \E w \in LiveArgs(t) : FlagName(w) \in SearchExecFlags THEN Critical
    ELSE IF LiveArgs(t) \intersect Flags # {} THEN Medium ELSE Low

ClassifySegment(seg) ==
    LET p == PeelPrefixes(seg)
        t == From(seg, p.at)
    IN  IF p.mode # "command" THEN p.floor
        ELSE MaxRisk(p.floor, MaxRisk(HeadRisk(t), SearchFlagRisk(t)))

\* A substitution anywhere denies the line; else its worst command decides.
Classify(c) ==
    IF \E i \in 1 .. Len(c) : c[i] \in Substitutions THEN Critical
    ELSE WorstOf({Low} \union {ClassifySegment(seg) : seg \in Segments(c)})

-----------------------------------------------------------------------------

LineInit == line = <<>>

TypeWord == Len(line) < MaxLine /\ \E w \in Words : line' = Append(line, w)

LineNext == TypeWord

LineSpec == LineInit /\ [][LineNext]_line

-----------------------------------------------------------------------------
\* Properties

LineTypeOK == line \in Seq(Words) /\ Classify(line) \in Levels

\* A segment that begins with a program, and not with a flag or an operand.
Commands == {"ls", "grep", "rg", "find", "go", "touch", "curl", "dd", "sh", "rm", "eval", "x"}
BeginsCommand(c) ==
    c # <<>> /\ (c[1] \in Commands \/ IsPrefixWord(c[1]) \/ c[1] \in Substitutions)

\* Ways to put something before a command that runs it all the same.
Fronts == {<<"sudo">>, <<"sudo", "-u", "w">>, <<"/bin/sudo", "-u", "w", "--">>,
             <<"timeout", "w">>, <<"timeout", "-s", "w", "w">>, <<"nice", "-n", "w">>,
             <<"A=1">>, <<">out">>, <<">", "w">>, <<"<in">>, <<"then">>,
             <<"A=1", "nice">>, <<">out", "timeout", "w", "sudo">>}

\* Putting a wrapper with its options, a redirection, an assignment or a keyword
\* before a command never lowers its class.
PrefixNeverLowers ==
    BeginsCommand(line) => \A p \in Fronts : Classify(p \o line) >= Classify(line)

\* Another command beside it never lowers a line's class, on either side and
\* with any operator.
CompanyNeverLowers ==
    \A s \in Separators, c \in {<<"ls">>, <<"grep", "-r">>, <<"rm", "-r", "-f", "w">>} :
        /\ Classify(line \o <<s>> \o c) >= MaxRisk(Classify(line), Classify(c))
        /\ Classify(c \o <<s>> \o line) >= MaxRisk(Classify(line), Classify(c))

\* Spelling a program with its path never lowers its class.
PathNeverLowers ==
    line # <<>> => Classify(<<Qualified(line[1])>> \o Tail(line)) >= Classify(line)

\* The order of the flags and operands of a program does not matter.
OrderIsIrrelevant ==
    (line # <<>> /\ line[1] \in Commands
     /\ \A i \in 1 .. Len(line) : line[i] \notin Separators \union {"--"}) =>
        \A i, j \in 2 .. Len(line) :
            Classify([line EXCEPT ![i] = line[j], ![j] = line[i]]) = Classify(line)

RiskSound == PrefixNeverLowers /\ CompanyNeverLowers /\ PathNeverLowers /\ OrderIsIrrelevant
=============================================================================
