---------------------------- MODULE SchemeTests ----------------------------
(***************************************************************************)
(* The tests of src/test_scheme/language.cpp as scripts for Scheme: what   *)
(* each hands to compile() and to eval(), and the answers it requires.  A  *)
(* C++ variable that holds an evaluated function is an answer.             *)
(***************************************************************************)
EXTENDS SchemeScripts

a == Name("a")  b == Name("b")  c == Name("c")  d == Name("d")
Answer(i) == [tag |-> "answer", answer |-> i]
Call(e) == [tag |-> "call", list |-> AList(e)]
Hello == [tag |-> "string", string |-> "hello"]
UnboundValue == [tag |-> "undefined"]
Numbers(m, n) == <<Number(m), Number(n)>>

\* A test: a script, and the answers by their positions in it.
Test(forms, required) == [script |-> forms, required |-> required]

scm_primitive ==
  Test(<<Number(10), Hello>>, <<Number(10), Hello>>)

scm_reference ==
  Test(<<Cell("reference", 1)>>, <<Number(1)>>)

scm_symbol_lookup ==
  Test(<<a>>, <<UnboundValue>>)

scm_define_primitive ==
  Test(<<ADefine("a", Number(10)), a>>, <<Number(10), Number(10)>>)

\* The first answer of the others is a function.
scm_lambda_constant ==
  Test(<<ALambda(<<a, b>>, One), AList(<<Answer(1)>> \o Numbers(2, 3))>>, [i \in {2} |-> One])

scm_lambda_lookup ==
  Test(<<ADefine("f", ALambda(<<a, b>>, a)), AList(<<f>> \o Numbers(1, 2))>>, [i \in {2} |-> One])

scm_nested_lambdas ==
  LET first(m, n) == AList(<<Answer(1), m, n>>)
      second(m, n) == AList(<<Answer(2), m, n>>)
      Three == Number(3)
  IN  Test(<<ALambda(<<a, b>>, a), ALambda(<<a, b>>, b),
             first(One, Two), first(Three, second(One, Two)), second(second(One, Two), Three),
             first(first(One, Two), Three), second(second(One, Two), first(Three, Number(4)))>>,
           [i \in 3 .. 7 |-> IF i \in {3, 6} THEN One ELSE Three])

scm_nested_scopes_1 ==
  Test(<<ALambda(<<a, b>>, ALambda(<<c, d>>, a)),
         Call(<<Answer(1)>> \o Numbers(1, 2)), Call(<<Answer(2)>> \o Numbers(3, 4))>>,
       [i \in {3} |-> One])

scm_nested_scopes_2 ==
  Test(<<ALambda(<<a, b>>, ALambda(<<c, d>>, ALambda(<<c, d>>, a))),
         Call(<<Answer(1)>> \o Numbers(1, 2)), Call(<<Answer(2)>> \o Numbers(5, 6)),
         Call(<<Answer(3)>> \o Numbers(3, 4))>>,
       [i \in {4} |-> One])

scm_car_lambda ==
  Test(<<AList(<<ALambda(<<a, b>>, b)>> \o Numbers(1, 2))>>, <<Two>>)

scm_car_lambda_2 ==
  Test(<<AList(<<AList(<<ALambda(<<a, b>>, ALambda(<<c, d>>, a))>> \o Numbers(1, 2))>>
               \o Numbers(3, 4))>>, <<One>>)

scm_car_lambda_3 ==
  Test(<<AList(<<AList(<<ALambda(<<a, b>>, ALambda(<<c, d>>, d))>> \o Numbers(1, 2))>>
               \o Numbers(3, 4))>>, <<Number(4)>>)

Tests ==
  {scm_primitive, scm_reference, scm_symbol_lookup, scm_define_primitive, scm_lambda_constant,
   scm_lambda_lookup, scm_nested_lambdas, scm_nested_scopes_1, scm_nested_scopes_2,
   scm_car_lambda, scm_car_lambda_2, scm_car_lambda_3}
TestScripts == {t.script : t \in Tests}
=============================================================================
