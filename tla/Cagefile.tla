-------------------------------- MODULE Cagefile --------------------------------
(***************************************************************************)
(* What cage build reads: lines joined and split into instructions, the    *)
(* structure checked, and the ARG references replaced.                     *)
(*                                                                         *)
(* A text is a sequence of tokens: a word or a part of one, " ", "=", and  *)
(* the references "${V}" and "$V", each one token.  A line is its trimmed  *)
(* text without the backslash that may end it, and whether one did.        *)
(* Keywords are in capitals, and the blanks between words single ones.     *)
(***************************************************************************)
EXTENDS Naturals, Sequences
LOCAL INSTANCE SequencesExt

Line(text, cont) == [text |-> text, cont |-> cont]
Comment == "#"      \* a word that starts with "#"

Instruction(type, value, args) == [type |-> type, value |-> value, args |-> args]

Flat(texts) == FlattenSeq(texts)

(***************************************************************************)
(* strings.Fields: the words between the blanks.                           *)
(***************************************************************************)
Fields(text) ==
    LET Cut(words, t) == IF t = " " THEN Append(words, <<>>)
                         ELSE [words EXCEPT ![Len(words)] = Append(@, t)]
    IN  SelectSeq(FoldLeft(Cut, << <<>> >>, text), LAMBDA w : w # <<>>)

(***************************************************************************)
(* A text before its first "=", and after it.                              *)
(***************************************************************************)
Equals(text) == {i \in DOMAIN text : text[i] = "="}
BeforeEquals(text) ==
    IF Equals(text) = {} THEN text
    ELSE SubSeq(text, 1, (CHOOSE i \in Equals(text) : \A j \in Equals(text) : i <= j) - 1)
AfterEquals(text) == SubSeq(text, Len(BeforeEquals(text)) + 2, Len(text))

(***************************************************************************)
(* parseLine: <<the instruction>>, or <<>> for an error.                   *)
(***************************************************************************)
parseLine(text) ==
    LET type == Head(text)
        value == SubSeq(text, 3, Len(text))
    IN  IF value = <<>> \/ text[2] # " "
           THEN <<>>
        ELSE IF type \in {"FROM", "RUN", "ENV", "ARG", "WORKDIR", "USER"}
           THEN <<Instruction(type, value, <<>>)>>
        ELSE IF type = "COPY" /\ Len(Fields(value)) >= 2
           THEN <<Instruction(type, value, Fields(value))>>
        ELSE <<>>

(***************************************************************************)
(* Parse: the lines that end in a backslash gather in buf.  A blank line   *)
(* or a comment is skipped only where no instruction is being gathered.    *)
(***************************************************************************)
Parsing == [buf |-> <<>>, out |-> <<>>, ok |-> TRUE]

Emit(s, text) ==
    LET inst == parseLine(text)
    IN  [buf |-> <<>>, out |-> s.out \o inst, ok |-> inst # <<>>]

Joined(buf, text) ==
    IF buf = <<>> THEN text
    ELSE IF text = <<>> THEN buf ELSE buf \o <<" ">> \o text

ParseLine(s, line) ==
    LET skip == /\ s.buf = <<>>
                /\ \/ line.text = <<>> /\ ~line.cont
                   \/ line.text # <<>> /\ Head(line.text) = Comment
    IN  IF ~s.ok \/ skip THEN s
        ELSE IF line.cont THEN [s EXCEPT !.buf = Joined(@, line.text)]
        ELSE Emit(s, Joined(s.buf, line.text))

\* How far the parser is after each number of lines.
Reading(lines) ==
    LET after[n \in 0 .. Len(lines)] ==
            IF n = 0 THEN Parsing ELSE ParseLine(after[n - 1], lines[n])
    IN  after

\* Wrong variant: a Cagefile that ends in a backslash loses its last instruction.
ParseDropsEnd(lines) == Reading(lines)[Len(lines)]
Parse(lines) ==
    LET end == Reading(lines)[Len(lines)]
    IN  IF end.ok /\ end.buf # <<>> THEN Emit(end, end.buf) ELSE end

(***************************************************************************)
(* ParseAndValidate: FROM comes first and only there.                      *)
(***************************************************************************)
Bad == [ok |-> FALSE, base |-> <<>>, insts |-> <<>>]

ParseAndValidate(lines) ==
    LET p == Parse(lines)
        froms == {i \in DOMAIN p.out : p.out[i].type = "FROM"}
    IN  IF ~p.ok \/ froms # {1} THEN Bad
        ELSE [ok |-> TRUE, base |-> p.out[1].value, insts |-> Tail(p.out)]

-----------------------------------------------------------------------------
Brace(v) == "${" \o v \o "}"
Plain(v) == "$" \o v

(***************************************************************************)
(* The arguments: the defaults of the ARG lines, wherever they stand, and  *)
(* over them what --build-arg gives, declared or not.                      *)
(***************************************************************************)
Arguments(insts, buildArgs) ==
    LET decls == {i \in DOMAIN insts : insts[i].type = "ARG"}
        NameOf(i) == Head(BeforeEquals(insts[i].value))
        Latest(v) == CHOOSE i \in decls : NameOf(i) = v /\ \A j \in decls : NameOf(j) = v => j <= i
    IN  [v \in {NameOf(i) : i \in decls} \cup DOMAIN buildArgs |->
            IF v \in DOMAIN buildArgs THEN buildArgs[v]
            ELSE AfterEquals(insts[Latest(v)].value)]

\* The tokens of text, those that mark v (as `marks' writes it) by v's value.
Replace(text, args, marks) ==
    LET Named(t) == {v \in DOMAIN args : marks[v] = t}
        Value(t) == IF Named(t) = {} THEN <<t>> ELSE args[CHOOSE v \in Named(t) : TRUE]
    IN  Flat([k \in DOMAIN text |-> Value(text[k])])
Braces(args) == [v \in DOMAIN args |-> Brace(v)]
Plains(args) == [v \in DOMAIN args |-> Plain(v)]

\* Wrong variant: only the form with braces is replaced.
substituteBraces(text, args) == Replace(text, args, Braces(args))

(***************************************************************************)
(* substituteArgs: all "${V}", then all "$V", those that a value brought   *)
(* in included.                                                            *)
(***************************************************************************)
substituteArgs(text, args) == Replace(Replace(text, args, Braces(args)), args, Plains(args))

(***************************************************************************)
(* ResolveArgs: every value, and every word of a COPY by itself.           *)
(***************************************************************************)
ResolveArgs(insts, buildArgs) ==
    LET args == Arguments(insts, buildArgs)
    IN  [i \in DOMAIN insts |->
            [insts[i] EXCEPT
                !.value = substituteArgs(@, args),
                !.args = [j \in DOMAIN @ |-> substituteArgs(@[j], args)]]]
=============================================================================
