------------------------------ MODULE Scheme ------------------------------
(***************************************************************************)
(* The Scheme front end and the virtual machine of the C++ library.        *)
(*                                                                         *)
(* Language::compile() matches a form against a grammar of form objects    *)
(* (lpp/core/types/forms); the matches call a Builder, which appends code  *)
(* to the Function of its scope (lpp/scheme).  An alternative that fails   *)
(* leaves what it has called behind.  Continuation::eval() runs the code   *)
(* on a stack of values, one instruction to a step here; an argument that  *)
(* an inner lambda uses is moved to a Reference, of which a function has   *)
(* one for all its calls.                                                  *)
(*                                                                         *)
(* Cells are records with a tag, symbols stand for their names.  A failed  *)
(* assertion ends the program: pc = "failed".  Builders emit no RETURNL.   *)
(***************************************************************************)
EXTENDS Naturals, Sequences, FiniteSets, Functions, SequencesExt, TLC

CONSTANTS
  Scripts   \* sequences of forms that a program compiles and runs; one with the tag
            \* "call" is a list of a function and its arguments for Vm::eval(), and a
            \* cell with the tag "answer" stands for what an earlier form has given

Nil == [tag |-> "nil"]
Undefined == [tag |-> "undefined"]
IllFormed == [tag |-> "ill formed"]
ConsCell(a, d) == [tag |-> "cons", car |-> a, cdr |-> d]
FunctionCell(i) == [tag |-> "function", function |-> i]
ReferenceCell(i) == [tag |-> "reference", reference |-> i]
\* The value of the Reference that a program has before it compiles.
TheReference == [tag |-> "number", number |-> 1]

VARIABLES
  script,    \* the forms the program compiles and runs one after the other
  answers,   \* what the first of them gave
  heap,      \* the Functions and the References
  env,       \* the bindings of the Env
  stack, callStack,   \* of the Continuation
  s,         \* the ContinuationState that eval() works on: [f, itr, stackFramePos]
  pc         \* "compile", "enter", "run" or "failed"

vars == <<script, answers, heap, env, stack, callStack, s, pc>>

---------------------------------------------------------------------------
(* Functions.  Positions in data and in code are counted from 1.           *)

NewFunction == [numArguments |-> 0, shared |-> <<>>, code |-> <<>>, data |-> <<>>]

Emit(h, f, op, n) == [h EXCEPT !.functions[f].code = Append(@, [op |-> op, n |-> n])]
AppendData(h, f, c) == [h EXCEPT !.functions[f].data = Append(@, c)]
\* addPUSHV(), addPUSHL() and addDEFINES(): an instruction and its data.
EmitData(h, f, op, c) == AppendData(Emit(h, f, op, Len(h.functions[f].data) + 1), f, c)

AddArgument(h, f, c) ==
  AppendData([h EXCEPT !.functions[f].numArguments = @ + 1,
                       !.functions[f].shared = Append(@, 0)], f, c)

\* getArgumentPos(), 0 for notFound.
ArgumentPos(h, f, c) ==
  LET g == h.functions[f]
      at == {k \in 1 .. g.numArguments : g.data[k] = c}
  IN  IF at = {} THEN 0 ELSE CHOOSE k \in at : \A j \in at : k <= j

\* Mutant: every use of an argument makes a Reference of its own.
SharedAnew(h, f, k) ==
  LET r == ReferenceCell(Len(h.references) + 1)
  IN  AppendData([h EXCEPT !.functions[f].shared[k] = Len(h.functions[f].data) + 1,
                           !.references = Append(@, Nil)], f, r)

\* shareArgument(): a Reference for argument k, made when first asked for.
SharedArgument(h, f, k) ==
  IF h.functions[f].shared[k] # 0 THEN h
  ELSE LET r == ReferenceCell(Len(h.references) + 1)
       IN  AppendData([h EXCEPT !.functions[f].shared[k] = Len(h.functions[f].data) + 1,
                                !.references = Append(@, Nil)], f, r)

\* getValue(): a Reference stands for its value.
Value(h, c) == IF c.tag = "reference" THEN h.references[c.reference] ELSE c

---------------------------------------------------------------------------
(* What the Builder appends to the function of its scope.  scopes are the  *)
(* functions of the builder, its parent and so on.                         *)

\* Builder::symbol().
Symbol(h, scopes, c) ==
  LET owners == {j \in DOMAIN scopes : ArgumentPos(h, scopes[j], c) # 0}
      j == CHOOSE k \in owners : \A l \in owners : k <= l
      f == scopes[j]
      k == ArgumentPos(h, f, c)
      shared == SharedArgument(h, f, k)
  IN  IF owners = {} THEN EmitData(h, scopes[1], "PUSHL", c)
      ELSE IF j = 1 THEN Emit(h, f, "RETURNS", h.functions[f].numArguments - k + 1)
      ELSE EmitData(shared, scopes[1], "PUSHV",
                    shared.functions[f].data[shared.functions[f].shared[k]])

RECURSIVE ListLength(_)
ListLength(c) == IF c = Nil THEN 0 ELSE 1 + ListLength(c.cdr)

Funcall(h, f, c) ==
  IF ListLength(c) = 0 THEN EmitData(h, f, "PUSHV", Nil)
  ELSE Emit(h, f, "FUNCALL", ListLength(c) - 1)

\* The member function of Builder that a form was given, for the cell matched.
Callback(func, h, scopes, c) ==
  CASE func = "none" -> h
    [] func \in {"idempotent", "reference"} -> EmitData(h, scopes[1], "PUSHV", c)
    [] func = "symbol" -> Symbol(h, scopes, c)
    [] func = "lambdaArgument" -> AddArgument(h, scopes[1], c)
    [] func = "funcall" -> Funcall(h, scopes[1], c)
    [] func = "define" -> EmitData(h, scopes[1], "DEFINES", c.car)

---------------------------------------------------------------------------
(* The grammar that Language::init() builds.                               *)

TypeOf(types, func) == [form |-> "typeOf", types |-> types, func |-> func]
SymbolEq(n) == [form |-> "symbolEq", name |-> n]
ConsOf(a, d, func) == [form |-> "consOf", car |-> a, cdr |-> d, func |-> func]
ListOf(m, func, eol) == [form |-> "listOf", member |-> m, func |-> func, eol |-> eol]
ChoiceOf(fs) == [form |-> "choiceOf", forms |-> fs]
LambdaForm(args, body) == [form |-> "lambda", argList |-> args, body |-> body]
ExpressionForm == [form |-> "expression"]

AnExpression == ConsOf(ExpressionForm, TypeOf({"nil"}, "none"), "none")
Expression ==
  ChoiceOf(<<
    TypeOf({"nil", "undefined", "number", "string", "function"}, "idempotent"),
    TypeOf({"reference"}, "reference"),
    TypeOf({"symbol"}, "symbol"),
    ConsOf(SymbolEq("lambda"),
           LambdaForm(ListOf(TypeOf({"symbol"}, "none"), "lambdaArgument", "none"),
                      AnExpression), "none"),
    ListOf(ExpressionForm, "none", "funcall")>>)
TopLevelForm ==
  ChoiceOf(<<
    ConsOf(SymbolEq("define"), ConsOf(TypeOf({"symbol"}, "none"), AnExpression, "define"), "none"),
    Expression>>)

\* isInstance() of the forms.
RECURSIVE IsInstance(_, _)
IsSymbolEq(f, c) == c.tag = "symbol" /\ c.name = f.name
IsConsOf(f, c) == c.tag = "cons" /\ IsInstance(f.car, c.car) /\ IsInstance(f.cdr, c.cdr)
IsListOf(f, c) ==
  \/ c.tag = "nil"
  \/ c.tag = "cons" /\ IsInstance(f.member, c.car) /\ IsInstance(f, c.cdr)
IsChoiceOf(f, c) == \E i \in DOMAIN f.forms : IsInstance(f.forms[i], c)
IsLambdaForm(f, c) == IsInstance(f.argList, c.car) /\ IsInstance(f.body, c.cdr)
IsInstance(f, c) ==
  CASE f.form = "typeOf" -> c.tag \in f.types
    [] f.form = "symbolEq" -> IsSymbolEq(f, c)
    [] f.form = "consOf" -> IsConsOf(f, c)
    [] f.form = "listOf" -> IsListOf(f, c)
    [] f.form = "choiceOf" -> IsChoiceOf(f, c)
    [] f.form = "lambda" -> IsLambdaForm(f, c)
    [] f.form = "expression" -> IsInstance(Expression, c)

Matched(h) == [ok |-> TRUE, heap |-> h]
Failed(h) == [ok |-> FALSE, heap |-> h]

\* match() of the forms: whether c matches, and the heap its callbacks leave.
RECURSIVE Match(_, _, _, _)
RECURSIVE MatchList(_, _, _, _, _)

MatchTypeOf(f, c, scopes, h) ==
  IF c.tag \in f.types THEN Matched(Callback(f.func, h, scopes, c)) ELSE Failed(h)

MatchSymbolEq(f, c, scopes, h) == [ok |-> IsInstance(f, c), heap |-> h]

MatchConsOf(f, c, scopes, h) ==
  IF c.tag # "cons" THEN Failed(h)
  ELSE LET a == Match(f.car, c.car, scopes, h)
           d == Match(f.cdr, c.cdr, scopes, a.heap)
       IN  IF ~a.ok THEN a ELSE IF ~d.ok THEN d
           ELSE Matched(Callback(f.func, d.heap, scopes, c))

\* The first alternative that matches, and what those before it have left.
MatchChoiceOf(f, c, scopes, h) ==
  FoldLeft(LAMBDA m, g : IF m.ok THEN m ELSE Match(g, c, scopes, m.heap), Failed(h), f.forms)

\* A builder of its own, with a function of its own, for the lambda.
MatchLambda(f, c, scopes, h) ==
  LET i == Len(h.functions) + 1
      inner == <<i>> \o scopes
      a == Match(f.argList, c.car, inner, [h EXCEPT !.functions = Append(@, NewFunction)])
      b == Match(f.body, c.cdr, inner, a.heap)
  IN  IF ~a.ok THEN a ELSE IF ~b.ok THEN b
      ELSE Matched(EmitData(b.heap, scopes[1], "PUSHV", FunctionCell(i)))

Match(f, c, scopes, h) ==
  CASE f.form = "typeOf" -> MatchTypeOf(f, c, scopes, h)
    [] f.form = "symbolEq" -> MatchSymbolEq(f, c, scopes, h)
    [] f.form = "consOf" -> MatchConsOf(f, c, scopes, h)
    [] f.form = "listOf" -> MatchList(f, c, c, scopes, h)
    [] f.form = "choiceOf" -> MatchChoiceOf(f, c, scopes, h)
    [] f.form = "lambda" -> MatchLambda(f, c, scopes, h)
    [] f.form = "expression" -> Match(Expression, c, scopes, h)

\* Mutant: any cell that is no cons ends the list.
MatchUpToEnd(f, c, whole, scopes, h) ==
  CASE c.tag = "nil" -> Matched(Callback(f.eol, h, scopes, whole))
    [] c.tag = "cons" -> LET m == Match(f.member, c.car, scopes, h)
                         IN  IF ~m.ok THEN m
                             ELSE MatchList(f, c.cdr, whole, scopes,
                                            Callback(f.func, m.heap, scopes, c.car))
    [] OTHER -> Matched(h)

MatchList(f, c, whole, scopes, h) ==
  CASE c.tag = "nil" -> Matched(Callback(f.eol, h, scopes, whole))
    [] c.tag = "cons" -> LET m == Match(f.member, c.car, scopes, h)
                         IN  IF ~m.ok THEN m
                             ELSE MatchList(f, c.cdr, whole, scopes,
                                            Callback(f.func, m.heap, scopes, c.car))
    [] OTHER -> Failed(h)

---------------------------------------------------------------------------
(* Continuation::eval().                                                   *)

Function(f) == heap.functions[f]

\* makeReference(): the shared arguments on the stack st become References.
MakeReference(f, st) ==
  LET g == Function(f)
      base == Len(st) - g.numArguments
      moved == {k \in 1 .. g.numArguments : g.shared[k] # 0 /\ st[base + k].tag # "reference"}
      refs == [k \in moved |-> g.data[g.shared[k]]]
  IN  /\ stack' = [i \in DOMAIN st |-> IF i - base \in moved THEN refs[i - base] ELSE st[i]]
      /\ heap' = [heap EXCEPT !.references =
                    [r \in DOMAIN @ |-> IF \E k \in moved : refs[k].reference = r
                                        THEN st[base + CHOOSE k \in moved : refs[k].reference = r]
                                        ELSE @[r]]]

\* A form of a script, with the values that it takes from earlier ones.
RECURSIVE With(_, _)
With(c, values) ==
  CASE c.tag = "answer" -> values[c.answer]
    [] c.tag = "cons" -> ConsCell(With(c.car, values), With(c.cdr, values))
    [] c.tag = "call" -> [c EXCEPT !.list = With(@, values)]
    [] OTHER -> c
RECURSIVE ToSequence(_)
ToSequence(c) == IF c.tag = "cons" THEN <<c.car>> \o ToSequence(c.cdr) ELSE <<>>

NextForm == With(script[Len(answers) + 1], answers)
IsNext(isCall) ==
  pc = "compile" /\ Len(answers) < Len(script) /\ (NextForm.tag = "call") = isCall

\* Language::compile() of the next form, and a Continuation for its function.
Compile ==
  /\ IsNext(FALSE)
  /\ LET f == Len(heap.functions) + 1
         m == Match(TopLevelForm, NextForm, <<f>>,
                    [heap EXCEPT !.functions = Append(@, NewFunction)])
     IN  IF m.ok
         THEN /\ heap' = m.heap
              /\ stack' = <<FunctionCell(f)>>
              /\ callStack' = <<[f |-> f, itr |-> 1, stackFramePos |-> 1]>>
              /\ pc' = "enter" /\ UNCHANGED answers
         ELSE /\ answers' = Append(answers, IllFormed)
              /\ UNCHANGED <<heap, stack, callStack, pc>>
  /\ UNCHANGED <<script, env, s>>

\* Vm::eval() of a function and arguments: a Continuation with that stack, which
\* asserts that they are as many as the function takes.
Eval ==
  /\ IsNext(TRUE)
  /\ LET args == ToSequence(NextForm.list)
         f == args[1].function
     IN  IF Function(f).numArguments + 1 # Len(args) THEN pc' = "failed" /\ UNCHANGED <<stack, callStack>>
         ELSE /\ stack' = args
              /\ callStack' = <<[f |-> f, itr |-> 1, stackFramePos |-> 1]>>
              /\ pc' = "enter"
  /\ UNCHANGED <<script, answers, heap, env, s>>

\* The head of the outer loop, for a function that is called first or resumed.
Enter ==
  /\ pc = "enter"
  /\ s' = Last(callStack)
  /\ MakeReference(s'.f, stack)
  /\ pc' = "run"
  /\ UNCHANGED <<script, answers, env, callStack>>

\* An instruction op is next.
Instruction == Function(s.f).code[s.itr]
At(op) == pc = "run" /\ s.itr <= Len(Function(s.f).code) /\ Instruction.op = op
Datum == Function(s.f).data[Instruction.n]
Continue == s' = [s EXCEPT !.itr = @ + 1] /\ UNCHANGED <<script, answers, callStack, pc>>
Fail == pc' = "failed" /\ UNCHANGED <<script, answers, heap, env, stack, callStack, s>>

PUSHV ==
  /\ At("PUSHV")
  /\ stack' = Append(stack, Value(heap, Datum))
  /\ Continue /\ UNCHANGED <<heap, env>>

PUSHL ==
  /\ At("PUSHL")
  /\ stack' = Append(stack, IF Datum.name \in DOMAIN env THEN env[Datum.name] ELSE Undefined)
  /\ Continue /\ UNCHANGED <<heap, env>>

RETURNS ==
  /\ At("RETURNS")
  /\ IF Instruction.n > Len(stack) THEN Fail
     ELSE /\ stack' = Append(SubSeq(stack, 1, s.stackFramePos - 1),
                             stack[Len(stack) - Instruction.n + 1])
          /\ Continue /\ UNCHANGED <<heap, env>>

DEFINES ==
  /\ At("DEFINES")
  /\ env' = (Datum.name :> Last(stack)) @@ env
  /\ Continue /\ UNCHANGED <<heap, stack>>

\* Where the function that FUNCALL calls is on the stack.
Callee == Len(stack) - Instruction.n
Callable == Callee >= 1 /\ stack[Callee].tag = "function"

\* FUNCALL as the last instruction: in the frame of the caller.
TailCall ==
  /\ At("FUNCALL") /\ s.itr = Len(Function(s.f).code)
  /\ IF ~Callable THEN Fail
     ELSE /\ s' = [s EXCEPT !.f = stack[Callee].function, !.itr = 1]
          /\ MakeReference(s'.f, stack)
          /\ UNCHANGED <<script, answers, env, callStack, pc>>

\* ... and otherwise: the caller is resumed after it.
Call ==
  /\ At("FUNCALL") /\ s.itr < Len(Function(s.f).code)
  /\ IF ~Callable THEN Fail
     ELSE LET callee == [f |-> stack[Callee].function, itr |-> 1, stackFramePos |-> Callee]
          IN  /\ callStack' = Append(Front(callStack) \o <<[s EXCEPT !.itr = @ + 1]>>, callee)
              /\ s' = callee
              /\ MakeReference(callee.f, stack)
              /\ UNCHANGED <<script, answers, env, pc>>

\* Mutant: the values of the function are left on the stack.
ReturnKeepsFrame ==
  /\ pc = "run" /\ s.itr > Len(Function(s.f).code)
  /\ callStack' = Front(callStack)
  /\ IF Len(callStack) > 1
     THEN pc' = "enter" /\ UNCHANGED answers
     ELSE pc' = "compile" /\ answers' = Append(answers, Last(stack))
  /\ UNCHANGED <<script, heap, env, s, stack>>

\* The end of the code: the value on top replaces the frame.
Return ==
  /\ pc = "run" /\ s.itr > Len(Function(s.f).code)
  /\ IF Len(stack) < s.stackFramePos THEN Fail
     ELSE /\ stack' = Append(SubSeq(stack, 1, s.stackFramePos - 1), Last(stack))
          /\ callStack' = Front(callStack)
          /\ IF Len(callStack) > 1
             THEN pc' = "enter" /\ UNCHANGED answers
             ELSE pc' = "compile" /\ answers' = Append(answers, Last(stack))
          /\ UNCHANGED <<script, heap, env, s>>

Init ==
  /\ script \in Scripts
  /\ answers = <<>> /\ env = <<>>
  /\ heap = [functions |-> <<>>, references |-> <<TheReference>>]
  /\ stack = <<>> /\ callStack = <<>>
  /\ s = [f |-> 0, itr |-> 0, stackFramePos |-> 0]
  /\ pc = "compile"

Next ==
  \/ Compile \/ Eval \/ Enter \/ Return
  \/ PUSHV \/ PUSHL \/ RETURNS \/ DEFINES \/ TailCall \/ Call

Spec == Init /\ [][Next]_vars

---------------------------------------------------------------------------
(* What a form means: values, closures and lexical scope.                  *)

Error == [tag |-> "error"]
RECURSIVE WellFormed(_)
WellFormed(c) ==
  LET RECURSIVE proper(_)
      proper(d) == d.tag = "nil" \/ (d.tag = "cons" /\ WellFormed(d.car) /\ proper(d.cdr))
  IN  c.tag = "cons" => proper(c)

IsSymbol(c, n) == c.tag = "symbol" /\ c.name = n
IsLambda(e) == /\ Len(e) = 3 /\ IsSymbol(e[1], "lambda")
               /\ \A i \in DOMAIN ToSequence(e[2]) : ToSequence(e[2])[i].tag = "symbol"
               /\ e[2].tag \in {"cons", "nil"}
IsDefinition(e) == Len(e) = 3 /\ IsSymbol(e[1], "define") /\ e[2].tag = "symbol"

\* The meaning of c where local and global are the values of names.
RECURSIVE Meaning(_, _, _)
Meaning(c, local, global) ==
  LET e == ToSequence(c)
      v == [i \in DOMAIN e |-> Meaning(e[i], local, global)]
      f == v[1]
      position(n) == CHOOSE i \in DOMAIN f.arguments :
                       f.arguments[i].name = n /\ \A j \in 1 .. i - 1 : f.arguments[j].name # n
      given == [n \in {a.name : a \in Range(f.arguments)} |-> v[1 + position(n)]]
  IN  CASE c.tag = "symbol" -> IF c.name \in DOMAIN (local @@ global) THEN (local @@ global)[c.name]
                               ELSE Undefined
        [] c.tag = "reference" -> TheReference
        [] c.tag = "cons" ->
             IF IsLambda(e)
             THEN [tag |-> "closure", arguments |-> ToSequence(e[2]), body |-> e[3], local |-> local]
             ELSE IF Error \in Range(v) \/ f.tag # "closure" THEN Error
             ELSE IF Len(f.arguments) # Len(v) - 1 THEN Error
             ELSE Meaning(f.body, given @@ f.local, global)
        [] OTHER -> c

\* The meanings of the forms of a script, each with the definitions before it
\* and the meanings it takes from those before.
RECURSIVE MeaningsFrom(_, _, _)
MeaningsFrom(forms, values, global) ==
  IF Len(values) = Len(forms) THEN values
  ELSE LET next == With(forms[Len(values) + 1], values)
           form == IF next.tag = "call" THEN next.list ELSE next
           e == ToSequence(form)
           defines == WellFormed(form) /\ IsDefinition(e)
           v == IF ~WellFormed(form) THEN IllFormed
                ELSE Meaning(IF defines THEN e[3] ELSE form, <<>>, global)
       IN  MeaningsFrom(forms, Append(values, v),
                        IF defines THEN (e[2].name :> v) @@ global ELSE global)
Meanings(forms) == MeaningsFrom(forms, <<>>, <<>>)

---------------------------------------------------------------------------
(* Properties.                                                             *)

TypeOK ==
  /\ Len(answers) <= Len(script)
  /\ pc \in {"compile", "enter", "run", "failed"}
  /\ \A i \in DOMAIN heap.functions : Len(Function(i).shared) = Function(i).numArguments

\* A form compiles exactly if isInstance() says so, whatever the alternatives
\* that failed have left behind, and that is if it is well formed.
CompilesWhatItAccepts ==
  pc = "compile" =>
    \A i \in DOMAIN answers : script[i].tag # "call" =>
      LET form == With(script[i], answers) IN
      /\ (answers[i] = IllFormed) = ~IsInstance(TopLevelForm, form)
      /\ IsInstance(TopLevelForm, form) = WellFormed(form)

\* What the machine computes is what the forms mean, calls by value in lexical
\* scope; no assertion fails where there is a meaning, and a value alone is
\* left on the stack.
MeansWhatItSays ==
  pc \in {"compile", "failed"} =>
    LET m == Meanings(script)
        upTo(i) == {m[j] : j \in 1 .. i}
    IN  /\ \A i \in DOMAIN answers :
             Error \in upTo(i)
             \/ answers[i] = m[i] \/ (m[i].tag = "closure" /\ answers[i].tag = "function")
        /\ pc = "failed" => Error \in upTo(Len(answers) + 1)
        /\ pc = "compile" => Len(stack) <= 1
=============================================================================
