----------------------------- MODULE MCCodegen -----------------------------
(***************************************************************************)
(* Programs for Codegen as trees, their tokens, and what C says they do.   *)
(* A variable in a tree is its name and the number of its declaration; the *)
(* compiler is given the name only and must find the declaration itself.   *)
(***************************************************************************)
EXTENDS Codegen

(* The tokens of a tree.                                                   *)
RECURSIVE Named(_), Render(_)
Named(e) ==
    CASE e[1] \in {"num"} -> e
      [] e[1] \in {"var", "post", "pre"} -> <<e[1], e[2].n>>
      [] e[1] = "set" -> <<"set", e[2].n, Named(e[3])>>
      [] e[1] = "setop" -> <<"setop", e[2], e[3].n, Named(e[4])>>
      [] e[1] = "op" -> <<"op", e[2], Named(e[3]), Named(e[4])>>
      [] e[1] = "call" -> <<"call", e[2], [i \in 1..Len(e[3]) |-> Named(e[3][i])]>>
      [] OTHER -> [i \in 1..Len(e) |-> IF i = 1 THEN e[1] ELSE Named(e[i])]

T(t) == <<[t |-> t]>>
Expr(e) == <<[t |-> "expr", v |-> Named(e)]>>
Opt(e) == IF e = <<"none">> THEN T("none") ELSE Expr(e)
Decl(s) == <<[t |-> "local", v |-> [name |-> s[2].n,
                                   init |-> IF s[3] = <<"none">> THEN s[3] ELSE Named(s[3])]]>>
Label(l) == <<[t |-> "name", v |-> l], [t |-> ":"]>>
RenderAll(ss) == FlattenSeq([i \in 1..Len(ss) |-> Render(ss[i])])

Render(s) ==
    CASE s[1] = "expr" -> Expr(s[2])
      [] s[1] = "decl" -> Decl(s)
      [] s[1] = "static" -> <<[t |-> "static", v |-> [name |-> s[2].n, init |-> s[3]]]>>
      [] s[1] = "block" -> T("{") \o RenderAll(s[2]) \o T("}")
      [] s[1] = "if" -> T("if") \o Expr(s[2]) \o Render(s[3])
      [] s[1] = "ifelse" -> T("if") \o Expr(s[2]) \o Render(s[3]) \o T("else") \o Render(s[4])
      [] s[1] = "while" -> T("while") \o Expr(s[2]) \o Render(s[3])
      [] s[1] = "do" -> T("do") \o Render(s[2]) \o T("while") \o Expr(s[3])
      [] s[1] = "for" -> T("for") \o (IF s[2][1] = "decl" THEN Decl(s[2]) ELSE Opt(s[2]))
                         \o Opt(s[3]) \o Opt(s[4]) \o Render(s[5])
      [] s[1] = "switch" -> T("switch") \o Expr(s[2]) \o T("{") \o RenderAll(s[3]) \o T("}")
      [] s[1] = "case" -> <<[t |-> "case", v |-> s[2]]>>
      [] s[1] = "label" -> Label(s[2]) \o Render(s[3])
      [] s[1] = "mark" -> Label(s[2])
      [] s[1] = "goto" -> T("goto") \o <<[t |-> "name", v |-> s[2]]>>
      [] s[1] = "return" -> T("return") \o Opt(s[2])
      [] OTHER -> T(s[1])

-----------------------------------------------------------------------------
(* What C says.  m holds the values of the variables (those of the         *)
(* activation in env, static ones in glob), the output, and how control    *)
(* goes on: running, leaving by break, continue or return, or looking for  *)
(* the label or the case tgt.  Arguments are evaluated from left to right. *)
RECURSIVE Eval(_, _), EvalAll(_, _), Exec(_, _), ExecAll(_, _), Loop(_, _, _, _, _), Body(_, _)

Get(v, m) == IF v \in DOMAIN m.glob THEN m.glob[v] ELSE m.env[v]
Put(v, x, m) == IF v \in DOMAIN m.glob THEN [m EXCEPT !.glob[v] = x, !.val = x]
                ELSE [m EXCEPT !.env = (v :> x) @@ @, !.val = x]
Val(m, x) == [m EXCEPT !.val = x]
Truth(m) == Val(m, IF m.val # 0 THEN 1 ELSE 0)

EvalAll(es, m) ==
    IF es = <<>> THEN [m |-> m, vals |-> <<>>]
    ELSE LET h == Eval(Head(es), m)
             t == EvalAll(Tail(es), h)
         IN  [m |-> t.m, vals |-> <<h.val>> \o t.vals]

CallOf(f, vals, m) ==
    IF f = "out" THEN [m EXCEPT !.log = Append(@, vals[1]), !.val = vals[1]]
    ELSE LET d == CHOOSE d \in Range(m.prog) : d.name = f
             r == Body(d.body, [m EXCEPT !.env = [v \in Range(d.params) |->
                     vals[CHOOSE i \in 1..Len(d.params) : d.params[i] = v]]])
         IN  [r EXCEPT !.env = m.env, !.mode = "run"]

Eval(e, m) ==
    CASE e[1] = "num" -> Val(m, e[2])
      [] e[1] = "var" -> Val(m, Get(e[2], m))
      [] e[1] = "op" -> LET l == Eval(e[3], m)
                            r == Eval(e[4], l)
                        IN  Val(r, Alu(e[2], l.val, r.val))
      [] e[1] = "not" -> LET r == Eval(e[2], m) IN Val(r, IF r.val = 0 THEN 1 ELSE 0)
      [] e[1] = "and" -> LET l == Eval(e[2], m)
                         IN  IF l.val = 0 THEN l ELSE Truth(Eval(e[3], l))
      [] e[1] = "or" -> LET l == Eval(e[2], m)
                        IN  IF l.val # 0 THEN Truth(l) ELSE Truth(Eval(e[3], l))
      [] e[1] = "cond" -> LET c == Eval(e[2], m)
                          IN  IF c.val # 0 THEN Eval(e[3], c) ELSE Eval(e[4], c)
      [] e[1] = "set" -> LET r == Eval(e[3], m) IN Put(e[2], r.val, r)
      [] e[1] = "setop" -> LET r == Eval(e[4], m)
                           IN  Put(e[3], Alu(e[2], Get(e[3], r), r.val), r)
      [] e[1] = "post" -> Val(Put(e[2], Get(e[2], m) + 1, m), Get(e[2], m))
      [] e[1] = "pre" -> Put(e[2], Get(e[2], m) + 1, m)
      [] e[1] = "comma" -> Eval(e[3], Eval(e[2], m))
      [] e[1] = "call" -> LET a == EvalAll(e[3], m) IN CallOf(e[2], a.vals, a.m)

Found(m, tgt) == IF m.mode = "seek" /\ m.tgt = tgt THEN [m EXCEPT !.mode = "run"] ELSE m
Left(m, how) == IF m.mode \in how THEN [m EXCEPT !.mode = "run"] ELSE m
Seek(m, tgt) == [m EXCEPT !.mode = "seek", !.tgt = tgt]

(* test: whether the condition comes before the body this time.            *)
Loop(cond, step, body, m, test) ==
    LET c == IF m.mode = "run" /\ test /\ cond # <<"none">> THEN Eval(cond, m) ELSE Val(m, 1)
        b == Left(Exec(body, c), {"continue"})
    IN  IF c.val = 0 THEN c
        ELSE IF b.mode # "run" THEN Left(b, {"break"})
        ELSE Loop(cond, step, body, IF step = <<"none">> THEN b ELSE Eval(step, b), TRUE)

ExecAll(ss, m) == IF ss = <<>> THEN m ELSE ExecAll(Tail(ss), Exec(Head(ss), m))

SwitchOn(items, m) ==
    LET r == ExecAll(items, m)
        d == IF r.mode = "seek" /\ m.mode = "seek" /\ r.tgt = m.tgt /\ m.tgt[1] = "case"
             THEN Found(ExecAll(items, Seek(r, <<"default">>)), <<"default">>) ELSE r
    IN  Left(d, {"break"})

Exec(s, m) ==
    CASE m.mode \notin {"run", "seek"} -> m
      [] s[1] = "block" -> ExecAll(s[2], m)
      [] s[1] = "label" -> Exec(s[3], Found(m, <<"label", s[2]>>))
      [] s[1] = "mark" -> Found(m, <<"label", s[2]>>)
      [] s[1] = "case" -> Found(m, <<"case", s[2]>>)
      [] s[1] = "default" -> Found(m, <<"default">>)
      [] s[1] = "while" -> Loop(s[2], <<"none">>, s[3], m, TRUE)
      [] s[1] = "do" -> Loop(s[3], <<"none">>, s[2], m, FALSE)
      [] s[1] = "for" /\ m.mode = "run" ->
            Loop(s[3], s[4], s[5], IF s[2][1] = "decl" THEN Exec(s[2], m)
                                   ELSE IF s[2] = <<"none">> THEN m ELSE Eval(s[2], m), TRUE)
      [] s[1] = "for" -> Loop(s[3], s[4], s[5], m, TRUE)
      [] s[1] = "switch" /\ m.mode = "run" ->
            LET v == Eval(s[2], m) IN SwitchOn(s[3], Seek(v, <<"case", v.val>>))
      [] s[1] = "switch" -> IF m.tgt[1] = "label" THEN SwitchOn(s[3], m) ELSE m
      [] s[1] = "if" /\ m.mode = "run" ->
            LET c == Eval(s[2], m) IN IF c.val # 0 THEN Exec(s[3], c) ELSE c
      [] s[1] = "if" -> Exec(s[3], m)
      [] s[1] = "ifelse" /\ m.mode = "run" ->
            LET c == Eval(s[2], m) IN IF c.val # 0 THEN Exec(s[3], c) ELSE Exec(s[4], c)
      [] s[1] = "ifelse" -> LET r == Exec(s[3], m)
                            IN  IF r.mode = "seek" THEN Exec(s[4], r) ELSE r
      [] m.mode = "seek" -> m
      [] s[1] = "expr" -> Eval(s[2], m)
      [] s[1] = "decl" -> IF s[3] = <<"none">> THEN m ELSE LET r == Eval(s[3], m) IN Put(s[2], r.val, r)
      [] s[1] = "return" -> [(IF s[2] = <<"none">> THEN m ELSE Eval(s[2], m)) EXCEPT !.mode = "return"]
      [] s[1] \in {"break", "continue"} -> [m EXCEPT !.mode = s[1]]
      [] s[1] = "goto" -> Seek(m, <<"label", s[2]>>)
      [] OTHER -> m

(* A goto that leads back looks for its label again from the top.          *)
Body(body, m) == LET r == Exec(body, m) IN IF r.mode = "seek" THEN Body(body, r) ELSE r

Statics(f) == {s \in Range(f.body[2]) : s[1] = "static"}
Outcome(p) ==
    LET main == CHOOSE f \in Range(p) : f.name = "main"
        glob == [v \in {s[2] : s \in UNION {Statics(f) : f \in Range(p)}} |->
                   (CHOOSE s \in UNION {Statics(f) : f \in Range(p)} : s[2] = v)[3]]
        r == Body(main.body, [env |-> <<>>, glob |-> glob, log |-> <<>>, mode |-> "run",
                              tgt |-> <<"none">>, val |-> 0, prog |-> p])
    IN  [log |-> r.log, val |-> IF r.mode = "return" THEN r.val ELSE 0]

-----------------------------------------------------------------------------
(* The programs.                                                           *)

V(n, d) == [n |-> n, d |-> d]
N(n) == <<"num", n>>
R(v) == <<"var", v>>
Less(a, b) == <<"op", "<", a, b>>
Equal(a, b) == <<"op", "==", a, b>>
Minus(a, b) == <<"op", "-", a, b>>
Do(e) == <<"expr", e>>
Say(n) == <<"call", "out", <<N(n)>>>>
Out(e) == Do(<<"call", "out", <<e>>>>)
Block(ss) == <<"block", ss>>
Local(v, n) == <<"decl", v, N(n)>>
Fn(name, params, ss) == [name |-> name, params |-> params, body |-> Block(ss)]
Main(ss) == Fn("main", <<>>, ss)

i1 == V("i", 1)
j1 == V("j", 1)
x1 == V("x", 1)
y1 == V("y", 1)
z1 == V("z", 1)
a1 == V("a", 1)
b1 == V("b", 1)

(* The families of programs are sequences; Each joins what F gives for     *)
(* every member.                                                           *)
Each(s, F(_)) == FlattenSeq([k \in 1..Len(s) |-> F(s[k])])

(* Two rounds of body with the counter c, which is 0 before: every loop,   *)
(* and two switches of which one falls through into its last case.         *)
Loops(c, body) ==
    <<<<"while", Less(<<"post", c>>, N(2)), body>>,
      <<"do", body, Less(<<"pre", c>>, N(2))>>,
      <<"for", <<"set", c, N(0)>>, Less(R(c), N(2)), <<"post", c>>, body>>,
      <<"for", <<"none">>, <<"none">>, <<"none">>,
        Block(<<<<"if", <<"not", Less(<<"post", c>>, N(2))>>, <<"break">>>>, body>>)>>>>
Switches(c, body) ==
    <<<<"switch", R(c), <<<<"case", 0>>, Block(<<body>>), <<"case", 1>>, Out(N(5)),
                          <<"default">>, Out(N(6))>>>>,
      <<"switch", R(c), <<<<"default">>, Block(<<body>>), Out(N(6)), <<"break">>,
                          <<"case", 1>>, Out(N(5))>>>>>>

(* Every way to leave, always, sometimes, or in one of two arms.           *)
Exits == <<<<"break">>, <<"goto", "end">>, <<"return", N(7)>>>>
LoopExits == Append(Exits, <<"continue">>)
Guarded(c, exits) ==
    Each(exits, LAMBDA e : <<e, <<"if", Equal(R(c), N(1)), e>>,
                             <<"ifelse", Equal(R(c), N(1)), e, Out(N(8))>>>>)

Frame(s) == <<Main(<<Local(i1, 0), Local(j1, 0), s, Out(N(9)), <<"label", "end", Out(R(i1))>>>>)>>
Inner(s) == Block(<<Do(<<"set", j1, N(0)>>), s, Out(R(i1))>>)

FlowPrograms ==
    LET bodies == Each(Guarded(j1, LoopExits), LAMBDA e : Loops(j1, e) \o Switches(j1, e))
        loops == Each(Guarded(i1, LoopExits), LAMBDA e : Loops(j1, e))
        all == Each(Guarded(i1, LoopExits), LAMBDA e : Loops(i1, e))
               \o Each(Guarded(i1, Exits), LAMBDA e : Switches(i1, e))
               \o Each(bodies, LAMBDA t : Loops(i1, Inner(t)))
               \o Each(loops, LAMBDA t : Switches(i1, Inner(t)))
    IN  [k \in 1..Len(all) |-> Frame(all[k])]

(* Operands that branch, call or change a variable, in every position of   *)
(* an operator, a call or a conditional.  f has locals and returns a - b.  *)
f2(a, b) == <<"call", "f", <<a, b>>>>
Operands(side) ==
    <<N(0), R(x1), Say(5), side, <<"not", Say(0)>>, f2(Say(1), R(x1)),
      <<"and", Say(1), Say(0)>>, <<"or", Say(0), Say(2)>>, <<"cond", R(x1), Say(3), Say(4)>>>>
Combined(l, r) ==
    <<f2(l, r), Minus(l, r), <<"and", l, r>>, <<"or", l, r>>, <<"comma", l, r>>,
      <<"cond", l, r, Say(6)>>, <<"cond", r, N(1), l>>, f2(N(9), f2(l, r)),
      <<"setop", "-", x1, f2(l, r)>>>>
Helper == Fn("f", <<a1, b1>>,
             <<<<"decl", V("c", 1), R(a1)>>,
               Block(<<<<"decl", V("d", 1), R(b1)>>,
                       Do(<<"setop", "-", V("c", 1), R(V("d", 1))>>)>>),
               <<"return", R(V("c", 1))>>>>)
ExprPrograms ==
    LET all == Each(Operands(<<"post", y1>>), LAMBDA l :
                  Each(Operands(<<"pre", z1>>), LAMBDA r : Combined(l, r)))
    IN  [k \in 1..Len(all) |->
            <<Helper, Main(<<Local(x1, 1), Local(y1, 0), Local(z1, 0), Out(all[k]),
                             Out(R(x1)), Out(R(y1)), <<"return", R(z1)>>>>)>>]

(* Names, labels and calls that the two families above do not reach.       *)
OtherPrograms ==
    <<\* a name declared again in a block, twice, and in the body of a loop
     <<Main(<<Local(x1, 1), Block(<<Local(V("x", 2), 2), Block(<<Local(V("x", 3), 3), Out(R(V("x", 3)))>>),
              Out(R(V("x", 2)))>>), Block(<<Local(y1, 4), Out(R(y1))>>), Out(R(x1)),
              <<"while", Less(<<"post", x1>>, N(3)), Block(<<Local(V("x", 4), 7), Out(R(V("x", 4)))>>)>>,
              Out(R(x1))>>)>>,
     \* a counter declared by the loop
     <<Main(<<<<"for", Local(i1, 0), Less(R(i1), N(2)), <<"post", i1>>, Out(R(i1))>>,
              <<"for", Local(V("i", 2), 5), Less(R(V("i", 2)), N(6)), <<"post", V("i", 2)>>,
                Out(R(V("i", 2)))>>>>)>>,
     \* a goto back, a labelled branch of an if, and a goto into it
     <<Main(<<Local(i1, 0), <<"label", "again", Do(<<"post", i1>>)>>,
              <<"if", Equal(R(i1), N(2)), <<"label", "there", Out(N(1))>>>>,
              <<"if", Less(R(i1), N(2)), <<"goto", "again">>>>,
              <<"if", Less(<<"post", i1>>, N(3)), <<"goto", "there">>>>, Out(R(i1))>>)>>,
     \* a label in front of default, and one label in each of two functions
     <<Fn("g", <<a1>>, <<<<"if", R(a1), <<"goto", "end">>>>, Out(N(1)), <<"label", "end", <<"return", N(2)>>>>>>),
       Main(<<Local(i1, 0),
              <<"while", Less(R(i1), N(3)),
                <<"switch", <<"post", i1>>,
                  <<<<"case", 0>>, Out(N(3)), <<"goto", "other">>, <<"case", 1>>, <<"case", -1>>,
                    Out(<<"call", "g", <<R(i1)>>>>), <<"break">>, <<"mark", "other">>, <<"default">>,
                    Out(<<"call", "g", <<N(0)>>>>)>>>>>>,
              <<"goto", "end">>, Out(N(4)), <<"label", "end", Out(R(i1))>>>>)>>,
     \* recursion with a local that must survive it, and no arguments
     <<Fn("r", <<a1>>, <<<<"decl", V("l", 1), R(a1)>>, <<"if", Less(R(a1), N(1)), <<"return", N(0)>>>>,
                         <<"return", <<"op", "+", <<"call", "r", <<Minus(R(a1), N(1))>>>>,
                                       <<"call", "out", <<R(V("l", 1))>>>>>>>>>>),
       Fn("n", <<>>, <<<<"static", V("s", 1), 5>>, <<"return", <<"post", V("s", 1)>>>>>>),
       Main(<<Out(<<"call", "r", <<N(2)>>>>), Out(<<"call", "n", <<>>>>), Out(<<"call", "n", <<>>>>)>>)>>,
     \* an else belongs to the nearest if; empty statements and returns
     <<Fn("v", <<a1>>, <<<<"if", R(a1), <<"ifelse", Equal(R(a1), N(1)), <<"return", <<"none">>>>, Out(N(2))>>>>,
                         <<";">>, Out(N(3))>>),
       Main(<<Do(<<"call", "v", <<N(0)>>>>), Do(<<"call", "v", <<N(1)>>>>), Do(<<"call", "v", <<N(2)>>>>)>>)>>>>

ProgramsVal == FlowPrograms \o ExprPrograms \o OtherPrograms
Compiled(p) == [k \in 1..Len(p) |-> [name |-> p[k].name,
                                    params |-> [n \in 1..Len(p[k].params) |-> p[k].params[n].n],
                                    toks |-> Render(p[k].body)]]
UnitsVal == {[code |-> Compiled(p), says |-> Outcome(p)] : p \in Range(ProgramsVal)}

(* RunsAsC: on both architectures the emitted code gives the output and    *)
(* the result that C gives the program (cc_core.c, statement and           *)
(* expression).                                                            *)
RunsAsC == pc = 0 => log = unit.says.log /\ reg["R0"] = unit.says.val
=============================================================================
