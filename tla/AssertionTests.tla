--------------------------- MODULE AssertionTests ---------------------------
(***************************************************************************)
(* What the tests of the C library require of its assertions:              *)
(* unit_tests/util/assertion.c and the test_check_* of                     *)
(* unit_tests/util/test.c, one definition for each test.                   *)
(***************************************************************************)
EXTENDS Assertions

---------------------------------------------------------------------------
(* The tests go through the operators for (a, a), (a, b) and (b, a), where *)
(* a is the smaller one.                                                   *)

OfA(ops, a, b) ==
  {<<op, a, a, op \in {"==", "<=", ">="}>> : op \in ops} \cup {<<op, a, b, op \in {"!=", "<", "<="}>> : op \in ops}
Verdicts(ops, a, b) == OfA(ops, a, b) \cup {<<op, b, a, op \in {"!=", ">", ">="}>> : op \in ops}

\* success() and ASSERTS_CMP: no assertion is as good as one that is a success.
Success(assertion) == assertion = <<>> \/ Head(assertion)
Creates(type, a, b) ==
  \A v \in Verdicts(Ops \ {"!="}, a, b), onFailure \in BOOLEAN :
    Success(CreateCmp(type, v[1], v[2], v[3], onFailure)) = v[4]
CreatesArr(type, a, b) ==
  \A v \in Verdicts(Ops \ {"!="}, a, b), onFailure \in BOOLEAN :
    Success(CreateCmpArr(type, v[1], v[2], v[3], onFailure)) = v[4]

\* REQUIRE_* and ASSERT_SIGNAL: the cancelling handler is called, or it is not.
Raises(type, verdicts) ==
  \A v \in verdicts :
    Raise(Made(Statement("REQUIRE", type, v[1], v[2], v[3])), "cancel") = [handled |-> ~v[4], aborts |-> FALSE]

\* ASSERT_* of what holds, and CHECK_* of both.
Checks(type, a, b) ==
  \A v \in Verdicts(Ops, a, b) :
    /\ AddAssertion(Made(Statement("CHECK", type, v[1], v[2], v[3]))).ok = v[4]
    /\ v[4] => AddAssertion(Made(Statement("ASSERT", type, v[1], v[2], v[3]))).ok

---------------------------------------------------------------------------
(* unit_tests/util/assertion.c.                                            *)

InvertTwice == Invert(FALSE) = TRUE /\ Invert(Invert(FALSE)) = FALSE

CreateTrueTest  == \A e \in {0, 1}, onFailure \in BOOLEAN : Success(CreateTrue(e, onFailure)) = (e = 1)
CreateFalseTest == \A e \in {0, 1}, onFailure \in BOOLEAN : Success(CreateFalse(e, onFailure)) = (e = 0)
RaiseBoolean    == \A t \in {"true", "false"}, e \in {0, 1} :
                     Raise(Made(Statement("REQUIRE", t, "", e, 0)), "cancel").handled = ((t = "true") # (e = 1))

\* "abc", "def" and "ghi"; strings of one character.
abc == <<1, 2, 3>>
def == <<4, 5, 6>>
ghi == <<7, 8, 9>>
One(w) == [j \in DOMAIN w |-> <<w[j]>>]

CmpInt      == CompareAs("i", -1, 2) < 0 /\ CompareAs("i", 2, -1) > 0 /\ CompareAs("i", -1, -1) = 0
CmpUnsigned == CompareAs("u", 1, 2) < 0 /\ CompareAs("u", 2, 1) > 0 /\ CompareAs("u", 1, 1) = 0
CmpPointer  == CompareAs("ptr", 1, 2) < 0 /\ CompareAs("ptr", 2, 1) > 0 /\ CompareAs("ptr", 1, 1) = 0
CmpString   == CompareAs("cstr", abc, def) < 0 /\ CompareAs("cstr", def, abc) > 0 /\ CompareAs("cstr", abc, abc) = 0

\* A prefix is smaller, and the first difference decides.
CmpArrays(type, a1, a2, a3) ==
  /\ CompareAs(type, SubSeq(a1, 1, 2), a1) < 0 /\ CompareAs(type, a1, SubSeq(a1, 1, 2)) > 0
  /\ \A a \in {a2, a3} : CompareAs(type, a1, a) < 0 /\ CompareAs(type, a, a1) > 0
  /\ CompareAs(type, a1, a1) = 0
CmpIntArray      == CmpArrays("i[]", <<1, 2, 3>>, <<1, 2, 4>>, <<4, 5, 6>>)
CmpUnsignedArray == CmpArrays("u[]", <<1, 2, 3>>, <<1, 2, 4>>, <<4, 5, 6>>)
CmpPointerArray  == CmpArrays("ptr[]", <<1, 2, 3>>, <<1, 2, 4>>, <<4, 5, 6>>)
CmpStringArray   == CmpArrays("cstr[]", One(<<1, 2, 3>>), One(<<1, 2, 4>>), One(<<4, 5, 6>>))

CreateInt           == Creates("i", -1, 2)
CreateIntArray      == CreatesArr("i[]", <<1, 2, 3>>, <<4, 5, 6>>)
CreateUnsigned      == Creates("u", 1, 2)
CreateUnsignedArray == CreatesArr("u[]", <<1, 2, 3>>, <<4, 5, 6>>)
CreatePointer       == Creates("ptr", 1, 2)
CreatePointerArray  == CreatesArr("ptr[]", <<1, 2, 3>>, <<4, 5, 6>>)
CreateString        == Creates("cstr", abc, def)
CreateStringArray   == CreatesArr("cstr[]", One(<<1, 2, 3>>), One(<<4, 5, 6>>))

RaiseInt           == Raises("i", Verdicts(Ops, -1, 2))
RaiseIntArray      == Raises("i[]", Verdicts(Ops \ {"!="}, <<1, 2, 3>>, <<4, 5, 6>>))
RaiseUnsigned      == Raises("u", Verdicts(Ops, 1, 2))
RaiseUnsignedArray == Raises("u[]", Verdicts(Ops \ {"!="}, <<1, 2, 3>>, <<4, 5, 6>>))
RaisePointer       == Raises("ptr", Verdicts(Ops, 1, 2))
RaisePointerArray  == Raises("ptr[]", OfA(Ops \ {"!="}, <<1, 2, 3>>, <<4, 5, 6>>))
RaiseString        == Raises("cstr", Verdicts(Ops, abc, def))
RaiseStringArray   == Raises("cstr[]", OfA(Ops \ {"!="}, One(<<1, 2, 3>>), One(<<4, 5, 6>>)))

\* A success is not raised; a handler that does not cancel goes on to SIGABRT.
DoNotRaise == Raise(<<TRUE>>, "none") = [handled |-> FALSE, aborts |-> FALSE]
RaiseTest  == Raise(<<FALSE>>, "go on") = [handled |-> TRUE, aborts |-> TRUE]

---------------------------------------------------------------------------
(* unit_tests/util/test.c.                                                 *)

CheckBoolean ==
  /\ \A t \in {"true", "false"}, e \in {0, 1} :
       AddAssertion(Made(Statement("CHECK", t, "", e, 0))).ok = ((t = "true") = (e = 1))
  /\ \A e \in {0, 1} : AddAssertion(Made(Statement("CHECK", "u", "==", e, 1))).ok = (e = 1)
CheckInt           == Checks("i", -1, 2)
CheckIntArray      == Checks("i[]", <<1, 2, 3>>, <<4, 5>>)
CheckUnsigned      == Checks("u", 1, 2)
CheckUnsignedArray == Checks("u[]", <<1, 2, 3>>, <<4, 5>>)
CheckPointer       == Checks("ptr", 1, 2)
CheckPointerArray  == Checks("ptr[]", <<0, 1, 2>>, <<3, 4>>)
CheckString        == Checks("cstr", abc, def)
CheckStringArray   == Checks("cstr[]", <<abc, def, ghi>>, <<abc, ghi>>)

TestsPass ==
  /\ InvertTwice /\ CreateTrueTest /\ CreateFalseTest /\ RaiseBoolean
  /\ CmpInt /\ CmpUnsigned /\ CmpPointer /\ CmpString
  /\ CmpIntArray /\ CmpUnsignedArray /\ CmpPointerArray /\ CmpStringArray
  /\ CreateInt /\ CreateUnsigned /\ CreatePointer /\ CreateString
  /\ CreateIntArray /\ CreateUnsignedArray /\ CreatePointerArray /\ CreateStringArray
  /\ RaiseInt /\ RaiseUnsigned /\ RaisePointer /\ RaiseString
  /\ RaiseIntArray /\ RaiseUnsignedArray /\ RaisePointerArray /\ RaiseStringArray
  /\ DoNotRaise /\ RaiseTest
  /\ CheckBoolean /\ CheckInt /\ CheckUnsigned /\ CheckPointer /\ CheckString
  /\ CheckIntArray /\ CheckUnsignedArray /\ CheckPointerArray /\ CheckStringArray
===========================================================================
