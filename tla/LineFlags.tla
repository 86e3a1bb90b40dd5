----------------------------- MODULE LineFlags -----------------------------
(***************************************************************************)
(* Tests for a line.  BordersFinder looks in the syntax tree of a function  *)
(* for the innermost statement of the line; KleePrinter::addTestLineFlag    *)
(* writes the text of the source again, with a statement next to that line  *)
(* that sets kleePathFlag; the harness assumes that the flag was set; and   *)
(* the test cases of other paths are dropped.                               *)
(*                                                                         *)
(* A text is a sequence of lines, a line one of tokens: "{", "}", "if",     *)
(* "else", "while" (or "for", with its condition), "do" (whose condition    *)
(* goes with what closes it), "return" and "simple" statements, and "flag". *)
(* The tokens of the source have the number of their line as their `id`.    *)
(***************************************************************************)
EXTENDS Naturals, FiniteSets, SequencesExt

Source(lines) == [n \in DOMAIN lines |-> [k \in DOMAIN lines[n] |-> [is |-> lines[n][k], id |-> n]]]
Added(is) == <<[is |-> is, id |-> 0]>>
-----------------------------------------------------------------------------
(* The grammar of C.  What follows the token k of a text, as a statement and *)
(* what comes `next`; 0 if there is none.                                    *)
Tokens(text) ==
    FlattenSeq([n \in DOMAIN text |-> [k \in DOMAIN text[n] |-> [t |-> text[n][k], line |-> n]]])

Ill == [next |-> 0]
Parsed(of, ts, k, body, next) ==
    [next |-> next,
     node |-> [is |-> of.is, id |-> of.id, body |-> body, begin |-> ts[k].line, end |-> ts[next - 1].line]]

RECURSIVE Statement(_, _), Statements(_, _)
Statement(ts, k) ==
    IF k > Len(ts) THEN Ill
    ELSE LET t == ts[k].t
         IN  CASE t.is \in {"simple", "return", "flag"} -> Parsed(t, ts, k, <<>>, k + 1)
               [] t.is = "{" ->
                    LET inner == Statements(ts, k + 1)
                    IN  IF inner.next = 0 THEN Ill ELSE Parsed(t, ts, k, inner.nodes, inner.next + 1)
               [] t.is \in {"if", "while", "do"} ->
                    LET then == Statement(ts, k + 1)
                        hasElse == t.is = "if" /\ then.next \in DOMAIN ts /\ ts[then.next].t.is = "else"
                        else == Statement(ts, then.next + 1)
                    IN  IF then.next = 0 \/ (hasElse /\ else.next = 0) THEN Ill
                        ELSE IF hasElse THEN Parsed(t, ts, k, <<then.node, else.node>>, else.next)
                        ELSE Parsed(t, ts, k, <<then.node>>, then.next)
               [] OTHER -> Ill
Statements(ts, k) ==
    IF k > Len(ts) THEN Ill
    ELSE IF ts[k].t.is = "}" THEN [next |-> k, nodes |-> <<>>]
    ELSE LET first == Statement(ts, k)
             rest == Statements(ts, first.next)
         IN  IF first.next = 0 \/ rest.next = 0 THEN Ill
             ELSE [next |-> rest.next, nodes |-> <<first.node>> \o rest.nodes]

Parse(text) == Statement(Tokens(text), 1)
Compiled(text) == Parse(text).next = Len(Tokens(text)) + 1

(* The ways through a statement: what `ran`, and whether it came to a `return`. *)
(* Loops are run at most once.                                                  *)
Way(ran, returned) == [ran |-> ran, returned |-> returned]
Join(a, B) == IF a.returned THEN {a} ELSE {Way(a.ran \o b.ran, b.returned) : b \in B}
RECURSIVE Ways(_)
Ways(node) ==
    LET Chosen(yes, B) == Join(Way(<<<<node.id, yes>>>>, FALSE), B)
    IN  CASE node.is \in {"simple", "return", "flag"} -> {Way(<<<<node.id, TRUE>>>>, node.is = "return")}
          [] node.is = "{" ->
               FoldLeft(LAMBDA A, inner : UNION {Join(a, Ways(inner)) : a \in A}, {Way(<<>>, FALSE)}, node.body)
          [] node.is = "if" ->
               Chosen(TRUE, Ways(node.body[1]))
               \cup Chosen(FALSE, IF Len(node.body) = 2 THEN Ways(node.body[2]) ELSE {Way(<<>>, FALSE)})
          [] node.is \in {"while", "do"} ->
               LET once == UNION {Join(a, {Way(<<<<node.id, FALSE>>>>, FALSE)}) : a \in Ways(node.body[1])}
               IN  IF node.is = "do" THEN once
                   ELSE Chosen(TRUE, once) \cup {Way(<<<<node.id, FALSE>>>>, FALSE)}
-----------------------------------------------------------------------------
containsLine(node, line) == node.begin <= line /\ line <= node.end

(* Mutant of findInner: what is within a loop or a branch is not put in brackets. *)
RECURSIVE FindInnerBare(_, _, _)
FindInnerBare(node, line, info) ==
    LET inner == SelectSeq(node.body, LAMBDA child : containsLine(child, line))
    IN  IF inner = <<>> THEN [info EXCEPT !.begin = node.begin, !.end = node.end]
        ELSE FindInnerBare(inner[1], line, info)

(* BordersFinder::run.  Inward, to the first statement on the line; the head *)
(* of an if, a for or a while is not left.                                   *)
RECURSIVE findInner(_, _, _)
findInner(node, line, info) ==
    LET inner == SelectSeq(node.body, LAMBDA child : containsLine(child, line))
        child == inner[1]
        controls == child.is \in {"if", "while"}
    IN  IF inner = <<>> THEN [info EXCEPT !.begin = node.begin, !.end = node.end]
        ELSE IF controls /\ line = child.begin THEN [info EXCEPT !.begin = child.begin, !.end = child.end]
        ELSE findInner(child, line,
                [info EXCEPT !.wrapInBrackets = @ \/ controls,
                             !.insertAfter = @ /\ ~ controls /\ ~ (child.is = "return" /\ line = child.begin)])

(* LineInfo as it is at first. *)
NoLineInfo == [begin |-> 0, end |-> 0, wrapInBrackets |-> FALSE, insertAfter |-> TRUE, initialized |-> FALSE]

findFunction(text, line) ==
    LET body == Parse(text).node
    IN  IF ~ containsLine(body, line) THEN NoLineInfo
        ELSE [findInner(body, line, NoLineInfo) EXCEPT !.initialized = TRUE]

(* KleePrinter::addTestLineFlag, of a line that is not an assertion's. *)
addTestLineFlag(text, info) ==
    LET at == info.begin + (IF info.insertAfter THEN 1 ELSE 0)
        Before(n) ==
            CASE n = at -> (IF info.wrapInBrackets THEN Added("{") ELSE <<>>) \o Added("flag")
              [] n = at + 1 -> IF info.wrapInBrackets THEN Added("}") ELSE <<>>
              [] OTHER -> <<>>
    IN  [n \in DOMAIN text |-> Before(n) \o text[n]]

FlagSet(way) == <<0, TRUE>> \in ToSet(way.ran)

(* genKleePathSymbolicIfNeeded, genKleePathSymbolicAssumeIfNeeded: the paths *)
(* that go on, with the value that kleePathFlagSymbolic has there.           *)
Kept(ways) == {<<way, symbolic>> \in ways \X {0, 1} : symbolic = 1 /\ (symbolic = 1) = FlagSet(way)}

(* parseTestCases, filterByLineFlag. *)
filterByLineFlag(paths) == {p[1] : p \in {q \in paths : q[2] = 1}}
-----------------------------------------------------------------------------
(* Classes are given by where they begin and end, as <<line, column>>. *)
AtMost(p, q) == p[1] < q[1] \/ (p[1] = q[1] /\ p[2] <= q[2])
Narrower(lhs, rhs) == AtMost(rhs[1], lhs[1]) /\ AtMost(lhs[1], rhs[2])

(* BordersFinder::run for classes, in the order in which they are matched. *)
findClass(classes, line) ==
    FoldLeft(LAMBDA found, c :
                IF c[1][1] <= line /\ line <= c[2][1] /\ (found = <<>> \/ Narrower(c, found)) THEN c ELSE found,
             <<>>, classes)
-----------------------------------------------------------------------------
(* What was written by the source, of a way through the text with the flag. *)
OfSource(way) == Way(SelectSeq(way.ran, LAMBDA step : step[1] # 0), way.returned)

(***************************************************************************)
(* The source with the flag compiles, does what it did, and the tests that  *)
(* are kept are those of the paths that come to the line; for lines with a  *)
(* statement that is neither an if nor a loop.                              *)
(***************************************************************************)
LinesAreReached(lines) ==
    LET text == Source(lines)
    IN  \A line \in {n \in DOMAIN lines : lines[n] \in {<<"simple">>, <<"return">>}} :
            LET flagged == addTestLineFlag(text, findFunction(text, line))
                ways == Ways(Parse(text).node)
            IN  /\ findFunction(text, line).initialized /\ Compiled(flagged)
                /\ LET after == Ways(Parse(flagged).node)
                   IN  /\ {OfSource(w) : w \in after} = ways
                       /\ {OfSource(w) : w \in filterByLineFlag(Kept(after))}
                            = {w \in ways : <<line, TRUE>> \in ToSet(w.ran)}

(***************************************************************************)
(* Of classes within each other, the one that is found for a line is the    *)
(* innermost that has it; there is one if any has it.                       *)
(***************************************************************************)
InnermostClass(classes, line) ==
    LET having == {c \in ToSet(classes) : c[1][1] <= line /\ line <= c[2][1]}
        Within(c, d) == AtMost(d[1], c[1]) /\ AtMost(c[2], d[2])
    IN  IF having = {} THEN findClass(classes, line) = <<>>
        ELSE findClass(classes, line) \in {c \in having : \A d \in having : Within(d, c) => d = c}
=============================================================================
