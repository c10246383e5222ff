---------------------------- MODULE MCPreprocess ----------------------------
(***************************************************************************)
(* Instances of Preprocess, and what C says of them.  A program is a tree: *)
(* definitions, lines of text and conditionals with their branches.        *)
(* Render flattens it to the token list the reader would make of it; the   *)
(* reference CPreprocess walks the tree and expands text with the hide     *)
(* sets of the C standard (6.10.3), arguments expanded before they are     *)
(* substituted.                                                            *)
(*                                                                         *)
(* Left out of the programs, because micro-c is known to differ from C on  *)
(* them: a call of a macro in its own argument, an argument that names a   *)
(* later parameter, an empty argument, a name and its parenthesis on two   *)
(* lines, and an #if with two operators of one of its three levels or a    *)
(* macro whose body is an expression.  README.md says how each one differs.*)
(***************************************************************************)
EXTENDS Preprocess

-----------------------------------------------------------------------------
\* The programs.

Def(name, params, body)  == [k |-> "def", name |-> name, params |-> params, body |-> body]
Undo(name)               == [k |-> "undef", name |-> name]
Text(n, toks)            == [k |-> "text", line |-> n, toks |-> toks]
Cond(branches)           == [k |-> "cond", branches |-> branches]
Ignore                   == [k |-> "pragma"]
Inc(f)                   == [k |-> "include", file |-> f]
Branch(d, test, nodes)   == [d |-> d, test |-> test, nodes |-> nodes]

Toks(n, names) == [i \in DOMAIN names |-> Token(names[i], n)]
Word(x) == <<x>>
Words(xs) == [i \in DOMAIN xs |-> <<xs[i]>>]

RECURSIVE Commas(_)
Commas(xs) == IF Len(xs) < 2 THEN Words(xs) ELSE <<<<xs[1]>>, <<",">>>> \o Commas(Tail(xs))

RECURSIVE Render(_)
Render(nodes) ==
    LET Line(names) == Toks(1, names) \o <<Newline(1)>>
        One(node) ==
        CASE node.k = "def" ->
               Line(<<Word("#define"), node.name>>
                    \o (IF node.params = <<>> THEN <<Word(" ")>>
                        ELSE <<Word("(")>>
                             \o (IF node.params = <<Nameless>> THEN <<>> ELSE Commas(node.params))
                             \o <<Word(")")>>)
                    \o node.body)
          [] node.k = "undef"   -> Line(<<Word("#undef"), node.name>>)
          [] node.k = "pragma"  -> Line(Words(<<"#pragma", "B">>))
          [] node.k = "include" -> Line(Words(<<"#include", node.file>>))
          [] node.k = "text"    -> Toks(node.line, Words(node.toks)) \o <<Newline(node.line)>>
          [] node.k = "cond"    ->
               FlattenSeq([i \in DOMAIN node.branches |->
                   Line(<<Word(node.branches[i].d)>> \o Words(node.branches[i].test))
                   \o Render(node.branches[i].nodes)])
               \o Line(<<Word("#endif")>>)
    IN  FlattenSeq([i \in DOMAIN nodes |-> One(nodes[i])])

-----------------------------------------------------------------------------
\* What C says.  A token is [s, hs]; a macro environment maps names.

NoName == <<"">>
RefMacro(m, s) == IF s \in DOMAIN m THEN m[s] ELSE [params |-> <<>>, body |-> <<NoName>>]
IsRefMacro(m, s) == s \in DOMAIN m

\* The operators of C, loosest first; each level groups to the left.
CLevels == << {"||"}, {"&&"}, {"|"}, {"^"}, {"&"}, {"==", "!="},
              {"<", "<=", ">", ">="}, {"<<", ">>"}, {"+", "-"}, {"*", "/", "%"} >>

RECURSIVE CUnary(_, _), CBinary(_, _, _), CMore(_, _, _)
CUnary(m, t) ==     \* t: spellings after `defined' and macro replacement
    CASE t[1] = <<"!">> -> LET r == CUnary(m, Tail(t)) IN [r EXCEPT !.v = Truth(r.v = 0)]
      [] t[1] = <<"-">> -> LET r == CUnary(m, Tail(t)) IN [r EXCEPT !.v = -r.v]
      [] t[1] = <<"(">> -> LET r == CBinary(m, 1, Tail(t)) IN [v |-> r.v, rest |-> Tail(r.rest)]
      [] OTHER -> [v |-> strtoint(t[1]), rest |-> Tail(t)]
CMore(m, level, l) ==
    IF l.rest # <<>> /\ \E o \in CLevels[level] : l.rest[1] = <<o>>
    THEN LET r == CBinary(m, level + 1, Tail(l.rest))
         IN  CMore(m, level, [v |-> Apply(l.rest[1][1], l.v, r.v), rest |-> r.rest])
    ELSE l
CBinary(m, level, t) ==
    IF level > Len(CLevels) THEN CUnary(m, t)
    ELSE CMore(m, level, CBinary(m, level + 1, t))

RECURSIVE CExpand(_, _, _)
CExpand(m, line, ts) ==
    LET Hide(body, hs) == [i \in DOMAIN body |-> [body[i] EXCEPT !.hs = @ \cup hs]]
        Plain(s) == [s |-> s, hs |-> {}]
        \* split at the top-level commas of t up to the closing parenthesis
        RECURSIVE Split(_, _, _, _)
        Split(t, p, cur, args) ==
            IF t[1].s = <<")">> /\ p = 0
            THEN [args |-> Append(args, cur), hs |-> t[1].hs, rest |-> Tail(t)]
            ELSE IF t[1].s = <<",">> /\ p = 0
            THEN Split(Tail(t), p, <<>>, Append(args, cur))
            ELSE Split(Tail(t), p + (IF t[1].s = <<"(">> THEN 1
                                     ELSE IF t[1].s = <<")">> THEN -1 ELSE 0),
                       IF t[1].s = <<"\n">> THEN cur ELSE Append(cur, t[1]), args)
        RECURSIVE Subst(_, _, _)
        Subst(body, params, args) ==
            LET Param(s) == {i \in DOMAIN params : <<params[i]>> = s}
                Hash(s)  == {i \in DOMAIN params : <<"#", params[i]>> = s}
                Item(i)  ==
                    LET glued == (i > 1 /\ body[i-1] = <<"##">>)
                                 \/ (i < Len(body) /\ body[i+1] = <<"##">>)
                    IN  IF Hash(body[i]) # {}
                        THEN <<Plain(<<"\"">> \o FlattenSeq([j \in DOMAIN args[CHOOSE a \in Hash(body[i]) : TRUE]
                                 |-> args[CHOOSE a \in Hash(body[i]) : TRUE][j].s]))>>
                        ELSE IF Param(body[i]) = {} THEN <<Plain(body[i])>>
                        ELSE LET arg == args[CHOOSE a \in Param(body[i]) : TRUE]
                             IN  IF glued THEN arg ELSE CExpand(m, line, arg)
                RECURSIVE Glue(_)
                Glue(t) == IF Len(t) < 3 THEN t
                           ELSE IF t[2].s = <<"##">>
                                THEN Glue(<<[s |-> t[1].s \o t[3].s, hs |-> t[1].hs \cap t[3].hs]>>
                                          \o SubSeq(t, 4, Len(t)))
                                ELSE <<t[1]>> \o Glue(Tail(t))
            IN  Glue(FlattenSeq([i \in DOMAIN body |-> Item(i)]))
    IN  IF ts = <<>> THEN <<>>
        ELSE LET t == ts[1]
             IN  IF t.s = <<"\n">> THEN CExpand(m, line, Tail(ts))
                 ELSE IF t.s = <<"__LINE__">>
                 THEN <<Plain(<<ToString(line)>>)>> \o CExpand(m, line, Tail(ts))
                 ELSE IF t.s \in t.hs \/ ~IsRefMacro(m, t.s)
                 THEN <<t>> \o CExpand(m, line, Tail(ts))
                 ELSE IF m[t.s].params = <<>>
                 THEN CExpand(m, line, Hide(Subst(m[t.s].body, <<>>, <<>>), t.hs \cup {t.s})
                                       \o Tail(ts))
                 ELSE IF Len(ts) > 1 /\ ts[2].s = <<"(">>
                 THEN LET c == Split(SubSeq(ts, 3, Len(ts)), 0, <<>>, <<>>)
                      IN  CExpand(m, line, Hide(Subst(m[t.s].body, m[t.s].params, c.args),
                                                (t.hs \cap c.hs) \cup {t.s}) \o c.rest)
                 ELSE <<t>> \o CExpand(m, line, Tail(ts))

\* The value of a controlling expression: `defined' first, then expansion.
CTest(m, test) ==
    LET RECURSIVE Undefine(_)
        Undefine(t) ==
            IF t = <<>> THEN <<>>
            ELSE IF t[1] = "defined"
                 THEN LET paren == t[2] = "("
                          name  == IF paren THEN t[3] ELSE t[2]
                      IN  <<ToString(Truth(<<name>> \in DOMAIN m))>>
                          \o Undefine(SubSeq(t, IF paren THEN 5 ELSE 3, Len(t)))
                 ELSE <<t[1]>> \o Undefine(Tail(t))
        toks == CExpand(m, 1, [i \in DOMAIN Undefine(test) |->
                                  [s |-> <<Undefine(test)[i]>>, hs |-> {}]])
    IN  CBinary(m, 1, [i \in DOMAIN toks |-> toks[i].s]).v # 0

RECURSIVE CGroup(_, _, _)
CGroup(files, nodes, m) ==
    IF nodes = <<>> THEN [m |-> m, out |-> <<>>]
    ELSE LET node == nodes[1]
             Holds(b) == CASE b.d = "#ifdef"  -> <<b.test[1]>> \in DOMAIN m
                           [] b.d = "#ifndef" -> <<b.test[1]>> \notin DOMAIN m
                           [] b.d = "#else"   -> TRUE
                           [] OTHER           -> CTest(m, b.test)
             Taken == {i \in DOMAIN node.branches :
                         /\ Holds(node.branches[i])
                         /\ \A j \in 1..i - 1 : ~Holds(node.branches[j])}
             one == CASE node.k = "def" ->
                           [m |-> (node.name :> [params |-> node.params, body |-> node.body]) @@ m,
                            out |-> <<>>]
                      [] node.k = "undef" ->
                           [m |-> [x \in DOMAIN m \ {node.name} |-> m[x]], out |-> <<>>]
                      [] node.k = "text" ->
                           [m |-> m, out |-> CExpand(m, node.line,
                               [i \in DOMAIN node.toks |-> [s |-> <<node.toks[i]>>, hs |-> {}]])]
                      [] node.k = "include" -> CGroup(files, files[node.file], m)
                      [] node.k = "cond" /\ Taken # {} ->
                           CGroup(files, node.branches[CHOOSE i \in Taken : TRUE].nodes, m)
                      [] OTHER -> [m |-> m, out |-> <<>>]
             more == CGroup(files, Tail(nodes), one.m)
         IN  [m |-> more.m, out |-> one.out \o more.out]

-----------------------------------------------------------------------------
\* The instance.

A == <<"A">>
B == <<"B">>
F == <<"F">>
G == <<"G">>
Obj(name, body) == Def(name, <<>>, body)

\* Macros of every kind, and calls of them.  B1 is what x##1 makes of B.
GCall == Words(<<"G", "(", "1", ",", "B", ")">>)
GluedBody == Words(<<"x", "##", "y", "##", "1">>)
ABodies == {Words(<<"1">>), Words(<<"B">>), Words(<<"A", "x">>), <<>>,
            Words(<<"F", "(", "B", ")">>), Words(<<"__LINE__">>),
            GCall}
FBodies == {Words(<<"x">>), Words(<<"x", "+", "x">>), <<<<"#", "x">>>>,
            Words(<<"x", "##", "1">>), Words(<<"B", "x">>), <<>>}
GBodies == {Words(<<"x", "y">>), Words(<<"y", "x">>), GluedBody}
Calls == {<<"A">>, <<"F", "(", "A", ")">>, <<"F", "(", "B", ")", "F">>,
          <<"G", "(", "A", ",", "F", "(", "1", ")", ")">>,
          <<"G", "(", "(", "1", ",", "A", ")", ",", "B", ")">>,
          <<"H", "(", ")", "A">>, <<"A", "F", "(", "B", "A", ")", "__LINE__">>}

Prelude(a, f, g) ==
    <<Obj(A, a), Obj(B, Words(<<"2">>)), Obj(<<"B", "1">>, Words(<<"9">>)),
      Def(F, <<"x">>, f), Def(G, <<"x", "y">>, g),
      Def(<<"H">>, <<Nameless>>, Words(<<"B">>)), Ignore>>

Expansions ==
    {Prelude(a, f, g) \o <<Text(5, c)>> :
        a \in ABodies \ {GCall}, f \in FBodies, g \in GBodies, c \in Calls}
    \cup {Prelude(GCall, f, g) \o <<Text(5, c)>> :
        f \in FBodies, g \in GBodies \ {GluedBody}, c \in Calls}
    \cup {Prelude(a, Words(<<"x", "+", "x">>), Words(<<"x", "y">>))
            \o <<Text(5, <<"F", "(", "\n", "A", ")">>), Text(7, <<"A">>)>> : a \in ABodies}

\* Conditionals, nested, over macros that are numbers or name each other.
Tests == {<<"defined", "A">>, <<"!", "defined", "(", "Z", ")">>, <<"A">>, <<"Z">>,
          <<"A", "==", "2", "&&", "defined", "C">>, <<"C", "-", "1", ">", "0">>,
          <<"(", "A", ">", "1", ")", "||", "Z">>, <<"C", "==", "A">>,
          <<"A", "&", "2">>, <<"(", "C", "-", "1", ")", "/", "2">>}
Inner(test) ==
    <<Cond(<<Branch("#ifdef", <<"Z">>, <<Text(2, <<"p">>)>>),
             Branch("#elif", test, <<Text(2, <<"q">>)>>),
             Branch("#else", <<>>, <<Text(2, <<"r">>)>>)>>), Text(2, <<"s">>)>>
Conditions ==
    {<<Obj(A, Words(<<a>>)), Obj(B, Words(<<"2">>)), Obj(<<"C">>, Words(<<"A">>)),
       Cond(<<Branch("#if", t, Inner(<<"A">>)),
              Branch("#elif", u, Inner(t)),
              Branch("#elif", <<"C">>, <<Text(2, <<"u">>)>>),
              Branch("#else", <<>>, Inner(u))>>),
       Text(3, <<"v">>)>> : a \in {"0", "1", "B"}, t \in Tests, u \in Tests}

\* Redefinition, #undef, #ifndef guards and files.
FileNodes ==
    [f |-> <<Cond(<<Branch("#ifndef", <<"Z">>,
                           <<Obj(<<"Z">>, <<>>), Obj(A, Words(<<"1">>)), Text(1, <<"A", "t">>)>>)>>)>>,
     e |-> <<>>]
FilesVal == [f \in DOMAIN FileNodes |-> Render(FileNodes[f])]
Sequences3 ==
    {<<Obj(A, Words(<<"1">>)), Obj(A, Words(<<"2">>)), Undo(A), Text(2, <<"A">>),
       Cond(<<Branch("#ifdef", <<"A">>, <<Text(2, <<"p">>)>>)>>)>>,
     <<Inc("f"), Inc("e"), Text(2, <<"A">>), Inc("f"), Undo(A), Text(2, <<"A">>)>>}

Agreeing == Expansions \cup Conditions \cup Sequences3
Spellings(toks) == [i \in DOMAIN toks |-> toks[i].s]
Cases == {<<Render(p), Once(CGroup(FileNodes, p, <<>>).out, Spellings)>> : p \in Agreeing}

\* Programs C rejects and the code has a diagnostic for: #error, a directive
\* without its #if, a skipped group without its end, too many arguments, a
\* bad expression, tokens after a directive, no name, no such file.
Rejected ==
    {Toks(1, Words(ws)) :
        ws \in {<<"#error", "x", "\n">>, <<"#else", "\n">>, <<"#endif", "\n">>,
                <<"#elif", "1", "\n">>, <<"#if", "0", "\n", "x", "\n">>,
                <<"#if", "(", "1", "\n">>, <<"#include", "g", "\n", "\n">>,
                <<"#define", "\n">>, <<"#if", "1", ")", "\n", "#endif", "\n">>,
                <<"#define", "F", "(", "x", ")", "x", "\n", "F", "(", "1", ",", "2", ")", "\n">>,
                <<"#if", "1", "/", "0", "\n", "#endif", "\n">>,
                <<"#ifdef", "A", "A", "\n", "#endif", "x", "\n">>}}

\* Lists that end inside a directive, or in the middle of a line.
Cut == {Toks(1, Words(ws)) :
           ws \in {<<"#if", "1">>, <<"#if", "defined">>, <<"#ifdef">>, <<"#define", "A", "1">>,
                   <<"#undef">>, <<"#warning", "x">>, <<"#warning", "\n", "x">>}}

\* Programs C rejects and the code accepts: a group that was taken and never
\* ends, a second #else, a call with too few arguments, no operand (it is 0).
Lax ==
    {Toks(1, Words(ws)) :
        ws \in {<<"#if", "1", "\n", "x", "\n">>, <<"#if", ")", "\n", "#endif", "\n">>,
                <<"#if", "1", "\n", "x", "\n", "#else", "\n", "#else", "\n", "#endif", "\n">>,
                <<"#define", "F", "(", "x", ",", "y", ")", "x", "\n", "F", "(", "1", ")", "\n">>}}

\* Macros that lead back to each other.  C expands them to the name it
\* started with; the code's bound refuses them.
Loops ==
    {Render(<<Obj(A, Words(<<"B">>)), Obj(B, Words(<<"A">>)), Text(2, <<"A">>), Text(3, <<"B">>)>>),
     Render(<<Def(F, <<"x">>, Words(<<"G", "(", "x", ")">>)),
              Def(G, <<"x">>, Words(<<"F", "(", "x", ")">>)),
              Text(2, <<"F", "(", "1", ")">>)>>)}

\* The same pair of macros with an argument that starts on the next line.
HangSources ==
    {Render(<<Def(F, <<"x">>, Words(<<"x", "G", "(", "x", ")">>)),
              Def(G, <<"x">>, Words(<<"x", "F", "(", "x", ")">>)),
              Text(2, <<"F", "(", "\n", ")">>)>>)}

SourcesVal ==
    {c[1] : c \in Cases} \cup Rejected \cup Cut \cup Lax \cup Loops \cup HangSources

-----------------------------------------------------------------------------
(***************************************************************************)
(* When the preprocessor ends, what reaches the parser is what C makes of  *)
(* the program: the branches C selects, every macro expanded as far as C   *)
(* expands it and no further, __LINE__ the line of the call.  It refuses   *)
(* the programs C rejects in a way the code looks for, lists that are cut  *)
(* off, and, unlike C, macros that lead back to each other; it accepts     *)
(* some programs C rejects (Lax).                                          *)
(***************************************************************************)
ExpandsAsC ==
    status # "run" =>
        \/ source \in Rejected \cup Cut \cup Loops /\ status = "error"
        \/ source \in Lax /\ status = "done"
        \/ status = "done" /\ <<source, Spellings(out)>> \in Cases

=============================================================================
