------------------------------ MODULE Codegen ------------------------------
(***************************************************************************)
(* micro-c's code generator (cc_core.c, cc_emit.c): a recursive descent    *)
(* over the tokens of a function that emits assembly as it reads, with no  *)
(* tree in between.  Registers are few and fixed, so every construct that  *)
(* branches or calls inside an expression has to save what an enclosing    *)
(* one still needs; break, continue and goto reach their labels through    *)
(* globals that are saved and restored around every loop and switch; and   *)
(* names are looked up in lists that grow and shrink with the blocks.      *)
(* The emitted code then runs on a machine with those registers and a      *)
(* stack.                                                                  *)
(*                                                                         *)
(* Abstraction.  An expression arrives as its tree, one token with the     *)
(* delimiter that closes it, so precedence and types are left out: values  *)
(* are integers of one size.  Two of the seven architectures are modelled: *)
(* amd64, whose calls push the return address and whose jumps use no       *)
(* register, and aarch64, whose calls set a link register and whose jumps  *)
(* go through REGISTER_TEMP.  Addresses count words.                       *)
(***************************************************************************)
EXTENDS Integers, Sequences, SequencesExt

CONSTANTS
    Units,          \* a set of translation units: code, a sequence of functions
                    \*   [name, params, toks], and says, what the unit means
    Architectures,  \* a subset of {"amd64", "aarch64"}
    StackWords      \* the size of the stack

ASSUME StackAssumption == StackWords \in Nat

CodeBase == 1000    \* code addresses, apart from every stack address
GlobalBase == 500   \* the words of static variables

-----------------------------------------------------------------------------
(* The compiler's state while it reads one function: f the function, arch, *)
(* pos the place of global_token, code what was emitted, count             *)
(* current_count, brk and cont the targets of break and continue, locals   *)
(* and statics the symbol lists (newest first), depth locals_depth,        *)
(* globals the static variables of the unit so far, err a diagnostic.      *)

Tok(c) == IF c.pos <= Len(c.f.toks) THEN c.f.toks[c.pos] ELSE [t |-> "eof"]
Is(c, t) == Tok(c).t = t
require_extra_token(c) == [c EXCEPT !.pos = @ + 1]
Emit(c, is) == [c EXCEPT !.code = @ \o is]
Fail(c) == [c EXCEPT !.err = TRUE, !.pos = Len(c.f.toks) + 1]

unique_id(c, prefix) == <<prefix, c.f.name, c.count>>
emit_label(l) == <<<<"label", l>>>>

(* On aarch64 the target of a jump is loaded into REGISTER_TEMP.           *)
emit_unconditional_jump(c, l) ==
    IF c.arch = "aarch64" THEN <<<<"la", "TEMP", l>>, <<"br">>>> ELSE <<<<"jmp", l>>>>

emit_jump_if_zero(c, l) ==
    IF c.arch = "aarch64" THEN <<<<"skipnz", 2>>, <<"la", "TEMP", l>>, <<"br">>>>
    ELSE <<<<"jz", l>>>>

emit_jump_if_not_zero(c, l) ==
    IF c.arch = "aarch64" THEN <<<<"skipz", 2>>, <<"la", "TEMP", l>>, <<"br">>>>
    ELSE <<<<"jnz", l>>>>

emit_jump_if_equal(c, l) ==
    IF c.arch = "aarch64" THEN <<<<"la", "TEMP", l>>, <<"skipne", 1>>, <<"br">>>>
    ELSE <<<<"je", l>>>>

JumpIfZero(c, l) == Emit(c, emit_jump_if_zero(c, l))

emit_push(r) == <<<<"push", r>>>>
emit_pop(r) == <<<<"pop", r>>>>
emit_move(d, s) == <<<<"mov", d, s>>>>
emit_load_immediate(n) == <<<<"li", "R0", n>>>>

-----------------------------------------------------------------------------
(* Names.  Statics come first, then locals, then arguments.                *)

sym_lookup(x, list) ==
    LET at == {i \in 1..Len(list) : list[i].s = x}
    IN  list[CHOOSE i \in at : \A j \in at : i <= j]

Declared(x, list) == \E i \in 1..Len(list) : list[i].s = x

load_address_of_variable_into_register(r, x, c) ==
    IF Declared(x, c.statics)
    THEN Emit(c, <<<<"li", r, sym_lookup(x, c.statics).depth>>>>)
    ELSE IF Declared(x, c.locals)
    THEN Emit(c, <<<<"below", r, "LOCALS", sym_lookup(x, c.locals).depth>>>>)
    ELSE IF \E i \in 1..Len(c.f.params) : c.f.params[i] = x
    THEN Emit(c, <<<<"below", r, "BASE",
                     CHOOSE i \in 1..Len(c.f.params) : c.f.params[i] = x>>>>)
    ELSE Fail(c)

-----------------------------------------------------------------------------
(* Expressions leave their value in R0.                                    *)

RECURSIVE expression(_, _), Arguments(_, _)

(* The left operand waits on the stack while the right one is computed.    *)
common_recursion(right, c) ==
    Emit(expression(right, Emit(c, emit_push("R0"))), emit_pop("R1"))

(* && and || jump out of the middle of an expression: REGISTER_TEMP may    *)
(* hold the base pointer of a call whose arguments are being computed.     *)
logical_recursion(is_and, left, right, c0) ==
    LET Settle(c, l) == IF is_and THEN emit_jump_if_zero(c, l) ELSE emit_jump_if_not_zero(c, l)
        Right(a) == expression(right, Emit([a EXCEPT !.count = @ + 1],
                                           emit_push("TEMP") \o Settle(a, unique_id(a, "SC_SETTLED_"))))
        Close(b, settled, end) ==
            Emit(b, Settle(b, settled)
                    \o emit_load_immediate(IF is_and THEN 1 ELSE 0)
                    \o emit_unconditional_jump(b, end)
                    \o emit_label(settled)
                    \o emit_load_immediate(IF is_and THEN 0 ELSE 1)
                    \o emit_label(end)
                    \o emit_pop("TEMP"))
        Whole(a) == Close(Right(a), unique_id(a, "SC_SETTLED_"), unique_id(a, "_SC_END_"))
    IN  Whole(expression(left, c0))

(* Mutant: REGISTER_TEMP is not saved across the arms. *)
TernaryUnprotected(cond, yes, no, c0) ==
    LET Yes(a) == expression(yes, Emit([a EXCEPT !.count = @ + 1],
                                       emit_jump_if_zero(a, unique_id(a, "TERNARY_ELSE_"))))
        No(b, else, end) == expression(no, Emit(b, emit_unconditional_jump(b, end) \o emit_label(else)))
        Close(d, end) == Emit(d, emit_label(end))
        Whole(a) == Close(No(Yes(a), unique_id(a, "TERNARY_ELSE_"), unique_id(a, "_END_TERNARY_")),
                          unique_id(a, "_END_TERNARY_"))
    IN  Whole(expression(cond, c0))

(* c ? a : b, with REGISTER_TEMP saved around both arms.                   *)
Ternary(cond, yes, no, c0) ==
    LET Yes(a) == expression(yes, Emit([a EXCEPT !.count = @ + 1],
                                       emit_push("TEMP") \o emit_jump_if_zero(a, unique_id(a, "TERNARY_ELSE_"))))
        No(b, else, end) == expression(no, Emit(b, emit_unconditional_jump(b, end) \o emit_label(else)))
        Close(d, end) == Emit(d, emit_label(end) \o emit_pop("TEMP"))
        Whole(a) == Close(No(Yes(a), unique_id(a, "TERNARY_ELSE_"), unique_id(a, "_END_TERNARY_")),
                          unique_id(a, "_END_TERNARY_"))
    IN  Whole(expression(cond, c0))

(* x = e: the address waits on the stack.  A compound assignment loads     *)
(* through it and keeps it.                                                *)
Assign(x, e, c) ==
    Emit(common_recursion(e, load_address_of_variable_into_register("R0", x, c)),
         <<<<"store">>>>)

CompoundAssign(op, x, e, c) ==
    Emit(common_recursion(e, load_address_of_variable_into_register("R0", x, c)),
         emit_push("R1") \o <<<<"load", "R1">>, <<"alu", op>>>> \o emit_pop("R1")
         \o <<<<"store">>>>)

postfix_expr_inc_or_dec(x, c) ==
    Emit(load_address_of_variable_into_register("R0", x, c),
         emit_push("R1") \o emit_push("R0") \o <<<<"load", "R0">>>> \o emit_pop("R1")
         \o emit_push("R0") \o emit_push("R1") \o <<<<"addi", "R0", 1>>>>
         \o emit_pop("R1") \o <<<<"store">>>> \o emit_pop("R0") \o emit_pop("R1"))

PrefixInc(x, c) ==
    Emit(load_address_of_variable_into_register("R0", x, Emit(c, emit_push("R0"))),
         emit_pop("R1") \o emit_push("R1") \o emit_push("R0") \o <<<<"load", "R0">>>>
         \o <<<<"addi", "R0", 1>>>> \o emit_pop("R1") \o <<<<"store">>>> \o emit_pop("R1"))

(* A call.  REGISTER_TEMP holds the callee's base pointer while the        *)
(* arguments, expressions with calls of their own, are pushed.             *)
function_call(f, args, c) ==
    LET saved == <<"TEMP">> \o (IF c.arch = "aarch64" THEN <<"LINK">> ELSE <<>>)
                            \o <<"BASE", "LOCALS">>
        Saved == [i \in 1..Len(saved) |-> <<"push", saved[i]>>] \o emit_move("TEMP", "SP")
        Restored == [i \in 1..Len(saved) |-> <<"pop", saved[Len(saved) + 1 - i]>>]
        call == IF c.arch = "aarch64" THEN <<<<"la", "TEMP", <<"FUNCTION_", f>>>>, <<"blr">>>>
                                      ELSE <<<<"call", <<"FUNCTION_", f>>>>>>
    IN  Emit(Arguments(args, Emit(c, Saved)),
             emit_move("BASE", "TEMP") \o call
             \o (IF Len(args) > 0 THEN emit_move("SP", "BASE") ELSE <<>>) \o Restored)

Arguments(args, c) ==
    IF args = <<>> THEN c
    ELSE Arguments(Tail(args), Emit(expression(Head(args), c), emit_push("R0")))

(* comma_expression and everything below it, by the shape of the tree.     *)
expression(e, c) ==
    CASE e[1] = "num" -> Emit(c, emit_load_immediate(e[2]))
      [] e[1] = "var" -> Emit(load_address_of_variable_into_register("R0", e[2], c),
                              <<<<"load", "R0">>>>)
      [] e[1] = "op" -> Emit(common_recursion(e[4], expression(e[3], c)), <<<<"alu", e[2]>>>>)
      [] e[1] = "not" -> Emit(common_recursion(e[2], Emit(c, emit_load_immediate(1))),
                              <<<<"alu", "!">>>>)
      [] e[1] = "and" -> logical_recursion(TRUE, e[2], e[3], c)
      [] e[1] = "or" -> logical_recursion(FALSE, e[2], e[3], c)
      [] e[1] = "cond" -> Ternary(e[2], e[3], e[4], c)
      [] e[1] = "set" -> Assign(e[2], e[3], c)
      [] e[1] = "setop" -> CompoundAssign(e[2], e[3], e[4], c)
      [] e[1] = "post" -> postfix_expr_inc_or_dec(e[2], c)
      [] e[1] = "pre" -> PrefixInc(e[2], c)
      [] e[1] = "comma" -> expression(e[3], expression(e[2], c))
      [] e[1] = "call" -> function_call(e[2], e[3], c)

-----------------------------------------------------------------------------
(* Statements.                                                             *)

RECURSIVE statement(_), UntilBrace(_), process_case(_), SwitchBody(_, _, _)

(* The expression at global_token, and the token after it.                 *)
comma_expression(c) == require_extra_token(expression(Tok(c).v, c))

(* A local variable lies below the newest one still in scope.              *)
collect_local(c0) ==
    LET above == IF c0.locals = <<>> THEN 0 ELSE Head(c0.locals).depth
        Initialised(v, c) ==
            IF v.init = <<"none">> THEN c
            ELSE Emit(load_address_of_variable_into_register("R1", v.name, expression(v.init, c)),
                      <<<<"store">>>>)
    IN  Initialised(Tok(c0).v, [require_extra_token(c0) EXCEPT
                                   !.locals = <<[s |-> Tok(c0).v.name, depth |-> above + 1]>> \o @,
                                   !.depth = @ + 1])

(* A static variable is a word of the unit, found by name in this function *)
(* from here on.                                                           *)
process_static_variable(c) ==
    LET v == Tok(c).v
        at == GlobalBase + Len(c.globals)
    IN  [require_extra_token(c) EXCEPT
            !.statics = <<[s |-> v.name, depth |-> at]>> \o @,
            !.globals = Append(@, v.init)]

process_if(c0) ==
    LET else == unique_id(c0, "ELSE_")
        end == unique_id(c0, "_END_IF_")
        Then(a) == statement(Emit(a, emit_jump_if_zero(a, else)))
        Else(b) ==
            IF Is(b, "else")
            THEN Emit(statement(require_extra_token(
                          Emit(b, emit_unconditional_jump(b, end) \o emit_label(else)))),
                      emit_label(end))
            ELSE Emit(b, emit_label(else) \o emit_label(end))
    IN  Else(Then(comma_expression(require_extra_token([c0 EXCEPT !.count = @ + 1]))))

(* The targets are globals; what the enclosing construct had comes back.   *)
Targets(c, brk, cont) == [c EXCEPT !.brk = brk, !.cont = cont]

process_while(c0) ==
    LET top == unique_id(c0, "WHILE_")
        end == unique_id(c0, "END_WHILE_")
        Top == Emit(Targets([c0 EXCEPT !.count = @ + 1], end, top), emit_label(top))
        Body(a) == statement(Emit(a, emit_jump_if_zero(a, end)))
        Again(b) == Emit(b, emit_unconditional_jump(b, top) \o emit_label(end))
    IN  Targets(Again(Body(comma_expression(require_extra_token(Top)))), c0.brk, c0.cont)

process_do(c0) ==
    LET top == unique_id(c0, "DO_")
        test == unique_id(c0, "DO_TEST_")
        end == unique_id(c0, "DO_END_")
        Top == Emit(Targets([c0 EXCEPT !.count = @ + 1], end, test), emit_label(top))
        Test(a) == IF Is(a, "while")
                   THEN comma_expression(require_extra_token(Emit(a, emit_label(test))))
                   ELSE Fail(a)
        Again(b) == Emit(b, emit_jump_if_not_zero(b, top) \o emit_label(end))
    IN  Targets(Again(Test(statement(require_extra_token(Top)))), c0.brk, c0.cont)

(* for: init, condition and step may each be empty.  A declaration in init *)
(* stays in the list of locals.                                            *)
process_for(c0) ==
    LET top == unique_id(c0, "FOR_")
        iter == unique_id(c0, "FOR_ITER_")
        then == unique_id(c0, "FOR_THEN_")
        end == unique_id(c0, "FOR_END_")
        Clause(c) == IF Is(c, "none") THEN require_extra_token(c) ELSE comma_expression(c)
        Start(c) == Emit(IF Is(c, "local") THEN collect_local(c) ELSE Clause(c), emit_label(top))
        Condition(c) == IF Is(c, "none") THEN require_extra_token(c)
                        ELSE JumpIfZero(comma_expression(c), end)
        Step(c) == Clause(Emit(c, emit_unconditional_jump(c, then) \o emit_label(iter)))
        Body(c) == statement(Emit(c, emit_unconditional_jump(c, top) \o emit_label(then)))
        Again(c) == Emit(c, emit_unconditional_jump(c, iter) \o emit_label(end))
    IN  Targets(Again(Body(Step(Condition(Start(require_extra_token(
                    Targets([c0 EXCEPT !.count = @ + 1], end, iter))))))), c0.brk, c0.cont)

(* The statements of a case, up to the next case, default or closing brace *)
(* or past the first break.                                                *)
process_case(c) ==
    IF Tok(c).t \in {"case", "default", "}", "eof"} THEN c
    ELSE IF Is(c, "break") THEN statement(c)
    ELSE process_case(statement(c))

IsLabel(c) == Is(c, "name") /\ Is(require_extra_token(c), ":")
goto_label_name(c) == <<"_L_", Tok(c).v, c.f.name>>
PlaceLabel(c) ==
    require_extra_token(require_extra_token(Emit(c, emit_label(goto_label_name(c)))))

(* The body of a switch; cases collects the case values, newest first.     *)
SwitchBody(c, cases, id) ==
    IF IsLabel(c) THEN SwitchBody(PlaceLabel(c), cases, id)
    ELSE IF Is(c, "case")
    THEN SwitchBody(process_case(require_extra_token(
             Emit(c, emit_label(<<"_SWITCH_CASE_", Tok(c).v, id>>)))), <<Tok(c).v>> \o cases, id)
    ELSE IF Is(c, "default")
    THEN SwitchBody(process_case(require_extra_token(
             Emit(c, emit_label(<<"_SWITCH_DEFAULT_", id>>)))), cases, id)
    ELSE [c |-> IF Is(c, "}") THEN require_extra_token(c) ELSE Fail(c), cases |-> cases]

(* The value waits in R1 while control goes over the body to the table.    *)
process_switch(c0) ==
    LET id == <<c0.f.name, c0.count>>
        table == unique_id(c0, "_SWITCH_TABLE_")
        end == unique_id(c0, "_SWITCH_END_")
        default == <<"_SWITCH_DEFAULT_", id>>
        Value == comma_expression(require_extra_token(
                     Targets([c0 EXCEPT !.count = @ + 1], end, c0.cont)))
        Over(a) == require_extra_token(
                       Emit(a, emit_move("R1", "R0") \o emit_unconditional_jump(a, table)))
        has_default(c) == \E i \in 1..Len(c.code) : c.code[i] = <<"label", default>>
        Entry(v) == emit_load_immediate(v) \o emit_jump_if_equal(c0, <<"_SWITCH_CASE_", v, id>>)
        Table(c, cases) ==
            Emit(c, emit_unconditional_jump(c, end) \o emit_label(table)
                    \o FlattenSeq([i \in 1..Len(cases) |-> Entry(cases[i])])
                    \o (IF has_default(c) THEN emit_unconditional_jump(c, default) ELSE <<>>)
                    \o emit_label(end))
        Whole(b) == Targets(Table(b.c, b.cases), c0.brk, c0.cont)
    IN  Whole(SwitchBody(Over(Value), <<>>, id))

process_break(c) ==
    IF c.brk = <<>> THEN Fail(c) ELSE require_extra_token(Emit(c, emit_unconditional_jump(c, c.brk)))

process_continue(c) ==
    IF c.cont = <<>> THEN Fail(c) ELSE require_extra_token(Emit(c, emit_unconditional_jump(c, c.cont)))

(* The locals' cleanup is a string that declare_function fills in later.   *)
return_result(c0) ==
    LET Value(c) == IF Is(c, "none") THEN require_extra_token(c) ELSE comma_expression(c)
    IN  Emit(Value(require_extra_token(c0)), <<<<"cleanup">>, <<"ret">>>>)

UntilBrace(c) ==
    IF Is(c, "}") THEN require_extra_token(c)
    ELSE IF Is(c, "eof") THEN Fail(c)
    ELSE UntilBrace(statement(c))

(* Mutant: the locals of a block stay in the list. *)
RecursiveStatementLeaks(c) == UntilBrace(require_extra_token(c))

(* A block: its locals go out of scope with it.                            *)
recursive_statement(c) == [UntilBrace(require_extra_token(c)) EXCEPT !.locals = c.locals]

(* A label is a prefix of the statement that follows, unless that is a     *)
(* case, a default or the end of the block.                                *)
LabelledStatement(c0) ==
    LET Rest(c) == IF Tok(c).t \in {"}", "case", "default"} THEN c ELSE statement(c)
    IN  Rest(PlaceLabel(c0))

statement(c) ==
    CASE Is(c, "{") -> recursive_statement(c)
      [] IsLabel(c) -> LabelledStatement(c)
      [] Is(c, "local") -> collect_local(c)
      [] Is(c, "static") -> process_static_variable(c)
      [] Is(c, "if") -> process_if(c)
      [] Is(c, "switch") -> process_switch(c)
      [] Is(c, "do") -> process_do(c)
      [] Is(c, "while") -> process_while(c)
      [] Is(c, "for") -> process_for(c)
      [] Is(c, "goto") ->
            LET n == require_extra_token(c)
            IN  require_extra_token(Emit(n, emit_unconditional_jump(n, goto_label_name(n))))
      [] Is(c, "return") -> return_result(c)
      [] Is(c, "break") -> process_break(c)
      [] Is(c, "continue") -> process_continue(c)
      [] Is(c, ";") -> require_extra_token(c)
      [] Is(c, "expr") -> comma_expression(c)
      [] OTHER -> Fail(c)

-----------------------------------------------------------------------------
(* Functions and units.                                                    *)

(* What precedes the body, and what return undoes, is known only once the  *)
(* body has been read; both are empty when there are no locals.            *)
Patched(i, depth) ==
    CASE i = <<"prologue">> ->
            IF depth = 0 THEN <<>> ELSE emit_move("LOCALS", "SP") \o <<<<"addi", "SP", -depth>>>>
      [] i = <<"cleanup">> -> IF depth = 0 THEN <<>> ELSE emit_move("SP", "LOCALS")
      [] OTHER -> <<i>>

(* The return that ends a body is left out when the last thing emitted is  *)
(* a return; main returns 0.                                               *)
declare_function(f, arch, globals) ==
    LET Entered == [f |-> f, arch |-> arch, pos |-> 1, count |-> 0, brk |-> <<>>,
                    cont |-> <<>>, locals |-> <<>>, statics |-> <<>>, depth |-> 0,
                    globals |-> globals, err |-> FALSE,
                    code |-> emit_label(<<"FUNCTION_", f.name>>) \o <<<<"prologue">>>>]
        Returned(c) ==
            IF Last(c.code) = <<"ret">> THEN c
            ELSE Emit(c, (IF f.name = "main" THEN emit_load_immediate(0) ELSE <<>>)
                         \o <<<<"cleanup">>, <<"ret">>>>)
        Finished(c) ==
            [code |-> FlattenSeq([i \in 1..Len(c.code) |-> Patched(c.code[i], c.depth)]),
             globals |-> c.globals, err |-> c.err]
    IN  Finished(Returned(statement(Entered)))

(* out(x) stands for the program's output, and start for the code that     *)
(* calls main.                                                             *)
Runtime ==
    emit_label(<<"FUNCTION_", "out">>) \o <<<<"out">>, <<"ret">>>>

RECURSIVE program(_, _, _)
program(fs, arch, u) ==
    LET With(d) == [code |-> u.code \o d.code, globals |-> d.globals, err |-> u.err \/ d.err]
    IN  IF fs = <<>> THEN u
        ELSE program(Tail(fs), arch, With(declare_function(Head(fs), arch, u.globals)))

(* Labels become addresses; a label given twice is an error.               *)
Linked(u) ==
    LET labels == {i \in 1..Len(u.code) : u.code[i][1] = "label"}
    IN  [code |-> u.code, globals |-> u.globals,
         err |-> \/ u.err
                 \/ \E i, j \in labels : i # j /\ u.code[i] = u.code[j],
         at |-> [l \in {u.code[i][2] : i \in labels} |->
                    CodeBase + (CHOOSE i \in labels : u.code[i][2] = l)]]

Image(fs, arch) == Linked(program(fs, arch, [code |-> Runtime, globals |-> <<>>, err |-> FALSE]))

-----------------------------------------------------------------------------
VARIABLES
    unit,    \* which unit runs
    arch,    \* the architecture it was compiled for
    image,   \* its code, never changed
    pc,      \* an index of the code, or 0 when main has returned
    reg,
    mem,     \* the stack, which grows downwards, and the static variables
    log,     \* what out() was given
    fault    \* the code used an address that is none

vars == <<unit, arch, image, pc, reg, mem, log, fault>>

Regs == {"R0", "R1", "TEMP", "BASE", "LOCALS", "SP", "LINK"}
Stack == 0..StackWords
Halt == CodeBase    \* the return address that main is given

(* main is called with no arguments; the other registers hold anything.    *)
Init ==
    /\ unit \in Units /\ arch \in Architectures
    /\ image \in {Image(unit.code, arch)}
    /\ pc = image.at[<<"FUNCTION_", "main">>] - CodeBase
    /\ LET sp == IF arch = "amd64" THEN StackWords - 1 ELSE StackWords
       IN  reg = [r \in Regs |-> IF r = "SP" THEN sp ELSE IF r = "LINK" THEN Halt ELSE -1]
    /\ mem = [a \in Stack \cup {GlobalBase + k : k \in 0..(Len(image.globals) - 1)} |->
                IF a \in Stack THEN IF a = StackWords - 1 THEN Halt ELSE -1
                ELSE image.globals[a - GlobalBase + 1]]
    /\ log = <<>> /\ fault = image.err

Alu(op, left, right) ==
    CASE op = "+" -> left + right
      [] op = "-" -> left - right
      [] op = "<" -> IF left < right THEN 1 ELSE 0
      [] op = "==" -> IF left = right THEN 1 ELSE 0
      [] op = "!" -> IF right = 0 THEN 1 ELSE 0

Instruction == image.code[pc]
Op(names) == pc > 0 /\ ~fault /\ Instruction[1] \in names
Set(r, v) == reg' = [reg EXCEPT ![r] = v]
Goes(a) == IF a = Halt THEN pc' = 0 /\ fault' = fault
           ELSE IF a - CodeBase \in 1..Len(image.code) THEN pc' = a - CodeBase /\ fault' = fault
           ELSE pc' = pc /\ fault' = TRUE
Next1 == pc' = pc + 1 /\ fault' = fault
Skip(n) == pc' = pc + 1 + n /\ fault' = fault
Crash == fault' = TRUE /\ UNCHANGED <<pc, reg, mem, log>>
Same == UNCHANGED <<unit, arch, image>>

(* Register to register, and the constants.                                *)
Compute ==
    /\ Op({"label", "li", "la", "mov", "addi", "below", "alu"}) /\ Next1 /\ Same
    /\ LET i == Instruction
       IN  CASE i[1] = "label" -> reg' = reg
             [] i[1] = "li" -> Set(i[2], i[3])
             [] i[1] = "la" -> Set(i[2], image.at[i[3]])
             [] i[1] = "mov" -> Set(i[2], reg[i[3]])
             [] i[1] = "addi" -> Set(i[2], reg[i[2]] + i[3])
             [] i[1] = "below" -> Set(i[2], reg[i[3]] - i[4])
             [] i[1] = "alu" -> Set("R0", Alu(i[2], reg["R1"], reg["R0"]))
    /\ UNCHANGED <<mem, log>>

Memory ==
    /\ Op({"load", "store", "push", "pop"}) /\ Same
    /\ LET i == Instruction
           a == CASE i[1] = "load" -> reg[i[2]]
                  [] i[1] = "store" -> reg["R1"]
                  [] i[1] = "push" -> reg["SP"] - 1
                  [] i[1] = "pop" -> reg["SP"]
       IN  IF a \notin DOMAIN mem THEN Crash
           ELSE /\ Next1 /\ log' = log
                /\ mem' = CASE i[1] = "store" -> [mem EXCEPT ![a] = reg["R0"]]
                            [] i[1] = "push" -> [mem EXCEPT ![a] = reg[i[2]]]
                            [] OTHER -> mem
                /\ reg' = CASE i[1] = "load" -> [reg EXCEPT ![i[2]] = mem[a]]
                            [] i[1] = "push" -> [reg EXCEPT !["SP"] = a]
                            [] i[1] = "pop" -> [reg EXCEPT !["SP"] = a + 1, ![i[2]] = mem[a]]
                            [] OTHER -> reg

Branch ==
    /\ Op({"jmp", "jz", "jnz", "je", "br", "skipz", "skipnz", "skipne"}) /\ Same
    /\ LET i == Instruction
       IN  CASE i[1] = "jmp" -> Goes(image.at[i[2]])
             [] i[1] = "jz" -> IF reg["R0"] = 0 THEN Goes(image.at[i[2]]) ELSE Next1
             [] i[1] = "jnz" -> IF reg["R0"] # 0 THEN Goes(image.at[i[2]]) ELSE Next1
             [] i[1] = "je" -> IF reg["R0"] = reg["R1"] THEN Goes(image.at[i[2]]) ELSE Next1
             [] i[1] = "br" -> Goes(reg["TEMP"])
             [] i[1] = "skipz" -> IF reg["R0"] = 0 THEN Skip(i[2]) ELSE Next1
             [] i[1] = "skipnz" -> IF reg["R0"] # 0 THEN Skip(i[2]) ELSE Next1
             [] i[1] = "skipne" -> IF reg["R0"] # reg["R1"] THEN Skip(i[2]) ELSE Next1
    /\ UNCHANGED <<reg, mem, log>>

(* amd64 keeps the return address on the stack, aarch64 in LINK.           *)
Call ==
    /\ Op({"call", "blr"}) /\ Same
    /\ LET back == CodeBase + pc + 1
       IN  \/ /\ arch = "aarch64" /\ Goes(reg["TEMP"]) /\ Set("LINK", back)
             /\ UNCHANGED <<mem, log>>
          \/ /\ arch = "amd64"
             /\ IF reg["SP"] - 1 \notin Stack THEN Crash
                ELSE /\ Goes(image.at[Instruction[2]]) /\ Set("SP", reg["SP"] - 1)
                     /\ mem' = [mem EXCEPT ![reg["SP"] - 1] = back] /\ log' = log

Return ==
    /\ Op({"ret"}) /\ Same
    /\ \/ /\ arch = "aarch64" /\ Goes(reg["LINK"]) /\ UNCHANGED <<reg, mem, log>>
       \/ /\ arch = "amd64"
          /\ IF reg["SP"] \notin Stack THEN Crash
             ELSE /\ Goes(mem[reg["SP"]]) /\ Set("SP", reg["SP"] + 1) /\ UNCHANGED <<mem, log>>

Output ==
    /\ Op({"out"}) /\ Same
    /\ IF reg["BASE"] - 1 \notin Stack THEN Crash
       ELSE /\ Next1 /\ Set("R0", mem[reg["BASE"] - 1])
            /\ log' = Append(log, mem[reg["BASE"] - 1]) /\ mem' = mem

Next == Compute \/ Memory \/ Branch \/ Call \/ Return \/ Output

Spec == Init /\ [][Next]_vars
FairSpec == Spec /\ WF_vars(Next)

TypeOK ==
    /\ unit \in Units /\ arch \in Architectures /\ fault \in BOOLEAN
    /\ pc \in 0..Len(image.code)
    /\ reg \in [Regs -> Int] /\ \A a \in DOMAIN mem : mem[a] \in Int

(* Halts: every unit compiles, each label emitted once, and its code runs   *)
(* to the end of main: it never leaves the stack, never returns to         *)
(* anything but a return address and never goes round for ever.            *)
Halts == <>(pc = 0)
=============================================================================
