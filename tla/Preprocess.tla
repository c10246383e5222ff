----------------------------- MODULE Preprocess -----------------------------
(***************************************************************************)
(* The preprocessor of micro-c (stages/3-micro-c/micro-c/cc_macro.c): one  *)
(* walk over the token list that obeys the directives at the start of a    *)
(* line and replaces macro invocations everywhere else.                    *)
(*                                                                         *)
(* A token is [s, line, painted]: its spelling, the line it is reported    *)
(* at, and no_expand.  A spelling is a tuple of fragments, <<"A">>, so     *)
(* that ## is concatenation and the reader's one-token #x is <<"#", "x">>. *)
(* The list is split at macro_token: `rest' starts there, `out' is what    *)
(* the walk has left behind without the newline tokens, which              *)
(* eat_newline_tokens removes before the parser sees the list.             *)
(***************************************************************************)
EXTENDS Integers, Sequences, FiniteSets, SequencesExt, TLC

CONSTANTS Sources,      \* the token lists read_all_tokens may hand over
          Files,        \* Files[f]: the token list of include file f
          MaxDepth      \* 10000 in the code: expansions before giving up

ASSUME BoundAssumption == MaxDepth \in Nat \ {0}

VARIABLES source,   \* the list the walk started with (history)
          rest,     \* the tokens from macro_token on
          out,      \* the tokens behind it, newlines dropped
          env,      \* macro_env: the definitions, newest first
          cond,     \* conditional_inclusion: previous_condition_matched, top first
          bol,      \* start_of_line
          depth,    \* expand_depth
          status    \* "run", "done", or "error": a diagnostic and exit(1)

vars == <<source, rest, out, env, cond, bol, depth, status>>

Token(s, n) == [s |-> s, line |-> n, painted |-> FALSE]

From(t, i) == SubSeq(t, i, Len(t))
First(S) == CHOOSE i \in S : \A j \in S : i <= j

Is(token, name) == token.s = <<name>>
IsNewline(token) == Is(token, "\n")
Newline(n) == Token(<<"\n">>, n)

Opening == {"#if", "#ifdef", "#ifndef"}
Opens(token) == \E d \in Opening : Is(token, d)
Directives == Opening \cup {"#elif", "#else", "#endif", "#define", "#undef",
                            "#error", "#warning", "#include", "#pragma"}

\* '#' == macro_token->s[0]
IsHash(token) == token.s[1] \in Directives \cup {"#", "##"}

-----------------------------------------------------------------------------
(***************************************************************************)
(* The definitions.  #define puts a new entry in front, so lookup finds    *)
(* the newest and #undef has to remove every one.  params is <<>> for an   *)
(* object-like macro (arguments == NULL); F() has the one parameter        *)
(* Nameless (a NULL name), which matches no token.                         *)
(***************************************************************************)

Nameless == "no name"
NoMacro  == [symbol |-> <<>>, params |-> <<>>, body |-> <<>>]

\* lookup_macro: __LINE__ is made up on the spot from the token's own line.
lookup_macro(macros, token) ==
    IF Is(token, "__LINE__")
    THEN [symbol |-> token.s, params |-> <<>>,
          body |-> <<Token(<<ToString(token.line)>>, token.line)>>]
    ELSE LET hits == {i \in DOMAIN macros : macros[i].symbol = token.s}
         IN  IF hits = {} THEN NoMacro
             ELSE macros[First(hits)]

Defined(macros, token) == lookup_macro(macros, token) # NoMacro

remove_macro(macros, token) ==
    SelectSeq(macros, LAMBDA m : m.symbol # token.s)

-----------------------------------------------------------------------------
(***************************************************************************)
(* The #if evaluator.  It reads from the token list and returns the value, *)
(* what is left of the list, and whether it survived its require()s.  The  *)
(* three binary levels have one shape: an operand of the level below, and  *)
(* after an operator the SAME level again, so every level groups to the    *)
(* right and has no precedence inside it.                                  *)
(***************************************************************************)

Result(v, t) == [v |-> v, rest |-> t, ok |-> TRUE]
Died == [v |-> 0, rest |-> <<>>, ok |-> FALSE]
Truth(b) == IF b THEN 1 ELSE 0

\* Op(v), with v evaluated once.
Once(v, Op(_)) == CHOOSE r \in {Op(x) : x \in {v}} : TRUE

\* The require() for the closing parenthesis.
Closed(r) ==
    IF r.rest # <<>> /\ Is(r.rest[1], ")") THEN [r EXCEPT !.rest = Tail(@)]
    ELSE [r EXCEPT !.ok = FALSE]

\* Follow the first tokens of bodies while they name another macro, at most
\* 64 times.
MaxWalk == 64
Walked(macros, token) ==
    LET walk[n \in 0..MaxWalk, m \in {NoMacro} \cup Range(macros) \cup
                                     {lookup_macro(macros, token)}] ==
            IF n = MaxWalk \/ m.body = <<>> THEN m
            ELSE LET next == lookup_macro(macros, m.body[1])
                 IN  IF next = NoMacro \/ next = m THEN m ELSE walk[n + 1, next]
    IN  walk[0, lookup_macro(macros, token)]

\* strtoint, on the numerals of an instance: anything else reads as 0.
Numerals == [i \in 0..9 |-> <<ToString(i)>>]
IsNumeral(s) == \E i \in DOMAIN Numerals : Numerals[i] = s
strtoint(s) ==
    IF IsNumeral(s) THEN CHOOSE i \in DOMAIN Numerals : Numerals[i] = s ELSE 0

\* A name that is no macro is 0; a macro with no body is a diagnostic.
macro_variable(macros, t) ==
    LET m == Walked(macros, t[1])
    IN  [v    |-> IF m.body = <<>> THEN 0 ELSE strtoint(m.body[1].s),
         rest |-> Tail(t),
         ok   |-> m = NoMacro \/ m.body # <<>>]

Levels == << {"+", "-", "*", "/", "%", "<<", ">>"},
             {"<", "<=", ">=", ">", "==", "!="},
             {"&", "&&", "|", "||", "^"} >>

\* Division and remainder round toward zero, as int division does.
Abs(a) == IF a < 0 THEN -a ELSE a
Quotient(a, b) ==
    IF (a < 0) = (b < 0) THEN Abs(a) \div Abs(b) ELSE -(Abs(a) \div Abs(b))

\* Op on the bits of two's complement integers, the sign in bit Width: wide
\* enough for any value an instance computes (31 in the code).
Width == 15
Bit(a, i) == (a \div 2^i) % 2
Bits(Op(_, _), a, b) ==
    MapThenSumSet(LAMBDA i : Op(Bit(a, i), Bit(b, i)) * (IF i = Width THEN -(2^i) ELSE 2^i),
                  0..Width)

Apply(op, a, b) ==
    CASE op = "+"  -> a + b
      [] op = "-"  -> a - b
      [] op = "*"  -> a * b
      [] op = "/"  -> IF b = 0 THEN 0 ELSE Quotient(a, b)
      [] op = "%"  -> IF b = 0 THEN 0 ELSE a - b * Quotient(a, b)
      [] op = "<<" -> a * 2^b
      [] op = ">>" -> a \div 2^b
      [] op = "<"  -> Truth(a < b)
      [] op = "<=" -> Truth(a <= b)
      [] op = ">=" -> Truth(a >= b)
      [] op = ">"  -> Truth(a > b)
      [] op = "==" -> Truth(a = b)
      [] op = "!=" -> Truth(a # b)
      [] op = "&&" -> Truth(a # 0 /\ b # 0)
      [] op = "||" -> Truth(a # 0 \/ b # 0)
      [] op = "&"  -> Bits(LAMBDA x, y : x * y, a, b)
      [] op = "|"  -> Bits(LAMBDA x, y : x + y - x * y, a, b)
      [] op = "^"  -> Bits(LAMBDA x, y : (x + y) % 2, a, b)

RECURSIVE macro_expr(_, _, _)

\* A token that starts with a letter or an underscore.
IsName(token) ==
    /\ token.s[1] \notin UNION Range(Levels) \cup {"(", ")", ",", "!", "\n", "\""}
    /\ ~IsHash(token) /\ ~IsNumeral(token.s)

\* defined X and defined (X).
DefinedExpr(macros, t) ==
    LET paren == t # <<>> /\ Is(t[1], "(")
        arg   == IF paren THEN Tail(t) ELSE t
    IN  IF arg = <<>> THEN Died
        ELSE LET r == Result(Truth(Defined(macros, arg[1])), Tail(arg))
             IN  IF paren THEN Closed(r) ELSE r

\* What is neither an operand nor its prefix is 0, and stays where it is.
macro_primary_expr(macros, t) ==
    CASE t = <<>> -> Died
      [] t # <<>> /\ Is(t[1], "-") ->
            Once(macro_expr(macros, 0, Tail(t)), LAMBDA r : [r EXCEPT !.v = -r.v])
      [] t # <<>> /\ t[1].s[1] \in {"!", "!="} ->
            Once(macro_expr(macros, 0, Tail(t)), LAMBDA r : [r EXCEPT !.v = Truth(r.v = 0)])
      [] t # <<>> /\ Is(t[1], "(") -> Once(macro_expr(macros, 3, Tail(t)), Closed)
      [] t # <<>> /\ Is(t[1], "defined") -> DefinedExpr(macros, Tail(t))
      [] t # <<>> /\ IsNumeral(t[1].s) -> Result(strtoint(t[1].s), Tail(t))
      [] t # <<>> /\ IsName(t[1]) /\ ~Is(t[1], "defined") -> macro_variable(macros, t)
      [] OTHER -> Result(0, t)

\* macro_additive_expr, macro_relational_expr and macro_bitwise_expr.  The
\* first of them requires a token behind its operand.
macro_expr(macros, level, t) ==
    LET Operated(lhs) ==
            IF ~lhs.ok \/ lhs.rest = <<>> THEN Died
            ELSE IF lhs.rest[1].s[1] \notin Levels[level] THEN lhs
            ELSE Once(macro_expr(macros, level, Tail(lhs.rest)),
                      LAMBDA rhs :
                        LET op == lhs.rest[1].s[1]
                        IN  IF ~rhs.ok \/ (op \in {"/", "%"} /\ rhs.v = 0) THEN Died
                            ELSE Result(Apply(op, lhs.v, rhs.v), rhs.rest))
    IN  IF level = 0 THEN macro_primary_expr(macros, t)
        ELSE Once(macro_expr(macros, level - 1, t), Operated)

macro_expression(macros, t) == macro_expr(macros, 3, t)

-----------------------------------------------------------------------------
(***************************************************************************)
(* Skipping.  eat_block drops tokens up to the #elif, #else or #endif that *)
(* belongs to the open conditional, with whole nested conditionals on the  *)
(* way (eat_until_endif), and then rewinds to the newline before it (or    *)
(* makes one up at the start of a file), so that the walk meets the        *)
(* directive at the start of a line.  <<>> is "Unterminated #if block".    *)
(***************************************************************************)

\* Conditionals opened and not closed between macro_token and token i.
Nesting(t, i) ==
    Cardinality({j \in 1..i - 1 : Opens(t[j])})
        - Cardinality({j \in 2..i - 1 : Is(t[j], "#endif")})

Stop(token) == \E d \in {"#elif", "#else", "#endif"} : Is(token, d)

eat_block(t) ==
    LET ends == {i \in 2..Len(t) : Stop(t[i]) /\ Nesting(t, i) = 0}
    IN  IF ends = {} THEN <<>> ELSE <<Newline(1)>> \o From(t, First(ends))

\* Up to the newline, or everything.
EatLine(t) ==
    LET ends == {i \in DOMAIN t : IsNewline(t[i])}
    IN  IF ends = {} THEN <<>> ELSE From(t, First(ends))

-----------------------------------------------------------------------------
(***************************************************************************)
(* One expansion.  The arguments of a function-like macro are cut out of   *)
(* the list at the commas of the outer parentheses; each is put into the   *)
(* body before the next one is looked at.  An argument is the run of       *)
(* tokens from start_token to the comma or parenthesis that ends it.  When *)
(* there is none, start_token IS that token, the cut before it does not    *)
(* end the run, and everything up to the end of the list is taken.         *)
(***************************************************************************)

\* Text of a stringified argument: the opening quote and the spellings.
Quoted(arg) == <<"\"">> \o FlattenSeq([i \in DOMAIN arg |-> arg[i].s])

\* The walk over the body for one parameter.
Substituted(body, name, arg) ==
    FlattenSeq([i \in DOMAIN body |->
        CASE body[i].s = <<"#", name>> -> <<[body[i] EXCEPT !.s = Quoted(arg)]>>
          [] body[i].s = <<name>>      -> arg
          [] OTHER                     -> <<body[i]>>])

\* The open parentheses behind token i of a call, whose first one is gone.
Parens(t, i) ==
    1 + Cardinality({j \in 1..i : Is(t[j], "(")})
      - Cardinality({j \in 1..i : Is(t[j], ")")})

\* The arguments of the call that start at t[1], and the tokens behind it.
Arguments(t, params) ==
    LET closes == {i \in DOMAIN t : Is(t[i], ")") /\ Parens(t, i) = 0}
        Cut(ends) ==
            LET Arg(k) == LET from == IF k = 1 THEN 1 ELSE ends[k - 1] + 1
                          IN  IF from = ends[k] THEN From(t, from)
                              ELSE SubSeq(t, from, ends[k] - 1)
            IN  [ok |-> Last(ends) < Len(t) /\ Len(ends) <= Len(params),
                 args |-> [k \in DOMAIN ends |-> Arg(k)],
                 rest |-> From(t, Last(ends) + 1)]
    IN  IF closes = {} THEN [ok |-> FALSE]
        ELSE Once(SetToSortSeq({i \in 1..First(closes) :
                      i = First(closes) \/ (Is(t[i], ",") /\ Parens(t, i) = 1)}, <), Cut)

\* The body with the arguments put in, one parameter after the other.
Filled(body, params, args) ==
    LET Put[k \in 0..Len(args)] ==
            IF k = 0 THEN body
            ELSE Once(Put[k - 1], LAMBDA b : Substituted(b, params[k], args[k]))
    IN  Put[Len(args)]

\* a ## b becomes one token, which then takes part in the next paste.
RECURSIVE Pasted(_)
Pasted(body) ==
    IF Len(body) < 2 THEN body
    ELSE IF Is(body[2], "##") /\ Len(body) > 2
         THEN Once(<<[body[1] EXCEPT !.s = @ \o body[3].s]>> \o From(body, 4), Pasted)
         ELSE <<body[1]>> \o Once(Tail(body), Pasted)

\* Every occurrence of the macro's own name in what is about to be spliced.
\* (An object-like macro paints its stored body, with the same result the
\* next time.)
Painted(body, symbol) ==
    [i \in DOMAIN body |->
        [body[i] EXCEPT !.painted = @ \/ body[i].s = symbol]]

insert_tokens(body, n, t) ==
    [i \in DOMAIN body |-> [body[i] EXCEPT !.line = n]] \o t

\* Mutant: the expansions are not counted.
DeeperNot(d) == d

\* expand_depth, which more than MaxDepth expansions on one line exhaust.
Deeper(d) == d + 1

IsInvocation(token, macro, next) ==
    /\ ~token.painted
    /\ macro # NoMacro
    /\ macro.params # <<>> => Is(next, "(")

-----------------------------------------------------------------------------
(***************************************************************************)
(* preprocess: the walk.                                                   *)
(***************************************************************************)

Init ==
    /\ source \in Sources
    /\ rest = source
    /\ out = <<>>
    /\ env = <<>>
    /\ cond = <<>>
    /\ bol = TRUE
    /\ depth = 0
    /\ status = "run"

\* A diagnostic and exit(EXIT_FAILURE).
Fail ==
    /\ status' = "error"
    /\ UNCHANGED <<source, rest, out, env, cond, bol, depth>>

Walking == status = "run" /\ rest # <<>>
AtHash  == Walking /\ bol /\ IsHash(rest[1])
At(d)   == AtHash /\ Is(rest[1], d)

\* What preprocess checks when macro_directive returns.
Landed(t) ==
    /\ rest' = t
    /\ status' = IF t = <<>> \/ IsNewline(t[1]) THEN "run" ELSE "error"

Skipped(t) ==
    LET t2 == eat_block(t)
    IN  /\ rest' = t2
        /\ status' = IF t2 = <<>> THEN "error" ELSE "run"

push_conditional_inclusion(b) == cond' = <<b>> \o cond

If ==
    /\ At("#if")
    /\ \E r \in {macro_expression(env, Tail(rest))} :
           \/ ~r.ok /\ Fail
           \/ /\ r.ok
              /\ push_conditional_inclusion(r.v # 0)
              /\ IF r.v # 0 THEN Landed(r.rest) ELSE Skipped(r.rest)
              /\ UNCHANGED <<source, out, env, bol, depth>>

\* #ifdef and #ifndef, whose name is skipped with the block.
Ifdef ==
    \E want \in BOOLEAN :
        /\ At(IF want THEN "#ifdef" ELSE "#ifndef")
        /\ \/ Len(rest) = 1 /\ Fail
           \/ /\ Len(rest) > 1
              /\ LET b == Defined(env, rest[2]) = want
                 IN  /\ push_conditional_inclusion(b)
                     /\ IF b THEN Landed(From(rest, 3)) ELSE Skipped(Tail(rest))
              /\ UNCHANGED <<source, out, env, bol, depth>>

\* Mutant: a matching #elif does not mark the conditional as matched.
ElifForgets ==
    /\ At("#elif")
    /\ \E r \in {macro_expression(env, Tail(rest))} :
           \/ (~r.ok \/ cond = <<>>) /\ Fail
           \/ /\ r.ok /\ cond # <<>>
              /\ IF r.v = 0 \/ cond[1] THEN Skipped(r.rest) ELSE Landed(r.rest)
              /\ UNCHANGED <<source, out, env, cond, bol, depth>>

Elif ==
    /\ At("#elif")
    /\ \E r \in {macro_expression(env, Tail(rest))} :
           \/ (~r.ok \/ cond = <<>>) /\ Fail
           \/ /\ r.ok /\ cond # <<>>
              /\ \/ /\ r.v = 0 \/ cond[1]
                    /\ Skipped(r.rest)
                    /\ UNCHANGED cond
                 \/ /\ r.v # 0 /\ ~cond[1]
                    /\ cond' = [cond EXCEPT ![1] = TRUE]
                    /\ Landed(r.rest)
              /\ UNCHANGED <<source, out, env, bol, depth>>

Else ==
    /\ At("#else")
    /\ \/ (cond = <<>> \/ Len(rest) = 1) /\ Fail
       \/ /\ cond # <<>> /\ Len(rest) > 1
          /\ IF cond[1] THEN Skipped(Tail(rest)) ELSE Landed(Tail(rest))
          /\ UNCHANGED <<source, out, env, cond, bol, depth>>

Endif ==
    /\ At("#endif")
    /\ \/ cond = <<>> /\ Fail
       \/ /\ cond # <<>>
          /\ cond' = Tail(cond)
          /\ Landed(Tail(rest))
          /\ UNCHANGED <<source, out, env, bol, depth>>

\* handle_function_like_macro: the names up to the closing parenthesis.
Params(t) ==
    LET close == First({i \in DOMAIN t : Is(t[i], ")")})
        names == SelectSeq(SubSeq(t, 1, close - 1), LAMBDA x : ~Is(x, ","))
    IN  [names |-> IF names = <<>> THEN <<Nameless>>
                   ELSE [i \in DOMAIN names |-> names[i].s[1]],
         rest  |-> From(t, close + 1)]

\* handle_define.  The reader puts a blank token after the name unless a
\* parenthesis touches it.  A name is required; a parameter list or a body
\* that the list ends in is read past its end, a null pointer.
Define ==
    /\ At("#define")
    /\ \E line \in {SubSeq(rest, 1, Len(rest) - Len(EatLine(rest)))} :
       \E after \in {From(line, 3)} :
       \E call \in {after # <<>> /\ Is(after[1], "(")} :
          \/ /\ \/ EatLine(rest) = <<>> \/ Len(line) = 1
                \/ call /\ \A i \in DOMAIN after : ~Is(after[i], ")")
             /\ Fail
          \/ /\ EatLine(rest) # <<>> /\ Len(line) > 1
             /\ call => \E i \in DOMAIN after : Is(after[i], ")")
             /\ LET head == IF call THEN Params(Tail(after))
                            ELSE [names |-> <<>>,
                                  rest  |-> IF after # <<>> /\ Is(after[1], " ")
                                            THEN Tail(after) ELSE after]
                IN  env' = <<[symbol |-> line[2].s, params |-> head.names,
                              body |-> head.rest]>> \o env
             /\ Landed(EatLine(rest))
             /\ UNCHANGED <<source, out, cond, bol, depth>>

Undef ==
    /\ At("#undef")
    /\ \/ Len(rest) = 1 /\ Fail
       \/ /\ Len(rest) > 1
          /\ env' = remove_macro(env, rest[2])
          /\ Landed(From(rest, 3))
          /\ UNCHANGED <<source, out, cond, bol, depth>>

Error == At("#error") /\ Fail

\* handle_error(TRUE) prints the words while it walks over them, so its
\* second loop finds nothing left to discard: they stay in the list.
Warning ==
    LET left == EatLine(rest)
    IN  /\ At("#warning")
        /\ \/ left = <<>> /\ Fail
           \/ /\ left # <<>>
              /\ out' = out \o SubSeq(rest, 2, Len(rest) - Len(left))
              /\ Landed(left)
              /\ UNCHANGED <<source, env, cond, bol, depth>>

\* handle_include: the tokens of the file go in behind the token after the
\* file name.  With nothing behind that token a null pointer is written to.
Include ==
    LET t == From(rest, 3)
        f == rest[2].s[1]
        found == Len(rest) > 1 /\ f \in DOMAIN Files
        crash == found /\ Files[f] # <<>> /\ Len(t) < 2
    IN  /\ At("#include")
        /\ \/ (~found \/ crash) /\ Fail
           \/ /\ found /\ ~crash
              /\ Landed(EatLine(SubSeq(t, 1, 1) \o Files[f] \o From(t, 2)))
              /\ UNCHANGED <<source, out, env, cond, bol, depth>>

Ignored ==
    /\ AtHash
    /\ \A d \in Directives \ {"#pragma"} : ~Is(rest[1], d)
    /\ Landed(EatLine(rest))
    /\ UNCHANGED <<source, out, env, cond, bol, depth>>

PassNewline ==
    /\ Walking /\ IsNewline(rest[1])
    /\ bol' = TRUE
    /\ depth' = 0
    /\ rest' = Tail(rest)
    /\ UNCHANGED <<source, out, env, cond, status>>

\* maybe_expand, on a token that stays.
Pass ==
    /\ Walking /\ ~AtHash /\ ~IsNewline(rest[1])
    /\ \/ ~rest[1].painted /\ Len(rest) = 1 /\ Fail
       \/ /\ rest[1].painted \/ Len(rest) > 1
          /\ rest[1].painted \/ ~IsInvocation(rest[1], lookup_macro(env, rest[1]), rest[2])
          /\ out' = Append(out, rest[1])
          /\ rest' = Tail(rest)
          /\ bol' = FALSE
          /\ UNCHANGED <<source, env, cond, depth, status>>

\* maybe_expand, on a macro invocation.  The walk resumes AT the first
\* token put in, or, for an empty body, at the token behind the call.
Expand ==
    /\ Walking /\ ~AtHash /\ ~IsNewline(rest[1]) /\ Len(rest) > 1
    /\ \E macro \in {lookup_macro(env, rest[1])} :
       /\ IsInvocation(rest[1], macro, rest[2])
       /\ \E t \in {From(rest, 3)} :
          \E call \in {IF macro.params = <<>>
                       THEN [ok |-> TRUE, args |-> <<>>, rest |-> Tail(rest)]
                       ELSE Arguments(t, macro.params)} :
             \/ /\ ~call.ok \/ (macro.body # <<>> /\ Deeper(depth) > MaxDepth)
                /\ Fail
             \/ /\ call.ok /\ macro.body = <<>>
                /\ rest' = call.rest
                /\ bol' = FALSE
                /\ UNCHANGED <<source, out, env, cond, depth, status>>
             \/ /\ call.ok /\ macro.body # <<>> /\ Deeper(depth) <= MaxDepth
                /\ \E body \in {Once(Filled(macro.body, macro.params, call.args), Pasted)} :
                      rest' = insert_tokens(Painted(body, macro.symbol),
                                            rest[1].line, call.rest)
                /\ depth' = Deeper(depth)
                /\ bol' = FALSE
                /\ UNCHANGED <<source, out, env, cond, status>>

Finish ==
    /\ status = "run" /\ rest = <<>>
    /\ status' = "done"
    /\ UNCHANGED <<source, rest, out, env, cond, bol, depth>>

Next ==
    \/ If \/ Ifdef \/ Elif \/ Else \/ Endif
    \/ Define \/ Undef \/ Error \/ Warning \/ Include \/ Ignored
    \/ PassNewline \/ Pass \/ Expand \/ Finish

Spec == Init /\ [][Next]_vars

(***************************************************************************)
(* The walk is the whole program at that point: nothing keeps it from      *)
(* taking its next step, so weak fairness is what the code guarantees.     *)
(***************************************************************************)
FairSpec == Spec /\ WF_vars(Next)

-----------------------------------------------------------------------------
\* An argument list, or any other parenthesis, that goes on on the next line.
Continued(t) == \E i \in DOMAIN t : IsNewline(t[i]) /\ Parens(t, i) > 1

(***************************************************************************)
(* A run-away expansion is stopped on its line.  The preprocessor ends,    *)
(* with the list or with a diagnostic, whichever way macros lead back to   *)
(* themselves; but every newline resets the bound (preprocess), so an      *)
(* argument that holds one can be copied for ever, and then a newline is   *)
(* passed again and again.  No file of an instance includes itself.        *)
(***************************************************************************)
RunawayStopped ==
    <>(status # "run") \/ (Continued(source) /\ []<><<PassNewline>>_vars)

(***************************************************************************)
(* "MUST NOT HANG" (maybe_expand, on mutual recursion), for every program: *)
(* an argument list that continues on the next line refutes it.            *)
(***************************************************************************)
Ends == <>(status # "run")

=============================================================================
