----------------------------- MODULE Assertions -----------------------------
(***************************************************************************)
(* The assertions of the C library, lisp/util/assertion.c and .h, without  *)
(* their texts, and the macros of unit_test.h that make them.  An          *)
(* assertion is whether it is a success, the list a constructor returns is *)
(* a sequence of them.  A statement of a test is [macro, type, op, lhs,    *)
(* rhs]: a comparison of two values of the type, or of two arrays.         *)
(***************************************************************************)
EXTENDS Integers, Sequences, FiniteSets, SequencesExt, FiniteSetsExt

CONSTANTS UnsignedSize,             \* the number of values of an unsigned
          Ints, Pointers, Strings   \* operands; a string is a sequence of characters

Ops == {"==", "!=", "<", ">", "<=", ">="}

\* assertion_cmp_i(), assertion_cmp_u(), assertion_cmp_ptr().
CompareValues(lhs, rhs) == IF lhs = rhs THEN 0 ELSE IF lhs < rhs THEN -1 ELSE 1

\* The loop over two arrays, of which sign[j] compares the elements: the first
\* difference decides, then the length.
FirstDifference(sign, lhs, rhs) ==
  LET differs == {j \in DOMAIN lhs \cap DOMAIN rhs : sign[j] # 0}
  IN  IF differs # {} THEN sign[Min(differs)] ELSE CompareValues(Len(lhs), Len(rhs))

\* assertion_cmp_arr_i(), assertion_cmp_arr_u(), assertion_cmp_arr_ptr().
CompareArrays(lhs, rhs) ==
  FirstDifference([j \in DOMAIN lhs \cap DOMAIN rhs |-> CompareValues(lhs[j], rhs[j])], lhs, rhs)

\* assertion_cmp_cstr(): strcmp().
CompareStrings(lhs, rhs) == CompareArrays(lhs, rhs)

\* assertion_cmp_arr_cstr().
CompareStringArrays(lhs, rhs) ==
  FirstDifference([j \in DOMAIN lhs \cap DOMAIN rhs |-> CompareStrings(lhs[j], rhs[j])], lhs, rhs)

\* The comparison of a type; an int passed for an unsigned is converted.
CompareAs(type, lhs, rhs) ==
  CASE type \in {"i", "ptr"} -> CompareValues(lhs, rhs)
    [] type = "u"            -> CompareValues(lhs % UnsignedSize, rhs % UnsignedSize)
    [] type = "cstr"         -> CompareStrings(lhs, rhs)
    [] type = "cstr[]"       -> CompareStringArrays(lhs, rhs)
    [] type \in {"i[]", "u[]", "ptr[]"} -> CompareArrays(lhs, rhs)

\* The operator op of a comparison's result.
Fulfils(op, c) == \/ op = "==" /\ c = 0
                  \/ op = "!=" /\ c # 0
                  \/ op = "<"  /\ c < 0
                  \/ op = ">"  /\ c > 0
                  \/ op = "<=" /\ c <= 0
                  \/ op = ">=" /\ c >= 0

\* What a constructor returns: nothing, if the assertion is only wanted on failure.
Assertion(success, onFailure) == IF success /\ onFailure THEN <<>> ELSE <<success>>

\* assertion_create_cmp_*().
CreateCmp(type, op, lhs, rhs, onFailure) ==
  Assertion(Fulfils(op, CompareAs(type, lhs, rhs)), onFailure)

\* assertion_create_cmp_arr_*().
CreateCmpArr(type, op, lhs, rhs, onFailure) ==
  Assertion(Fulfils(op, CompareAs(type, lhs, rhs)), onFailure)

CreateTrue(expr, onFailure)  == Assertion(expr # 0, onFailure)
CreateFalse(expr, onFailure) == Assertion(expr = 0, onFailure)

Invert(assertion) == ~assertion

\* assertion_raise(): the answer of the registered handler is 0 ("cancel") or
\* not ("go on"), or there is none ("none").
Raise(assertion, handler) ==
  LET fails == assertion # <<>> /\ ~Head(assertion)
  IN  [handled |-> fails /\ handler # "none", aborts |-> fails /\ handler # "cancel"]

\* unit_add_assertion(): what it counts in the test, and what it returns.
AddAssertion(list) ==
  [passed |-> Cardinality({j \in DOMAIN list : list[j]}),
   failed |-> Cardinality({j \in DOMAIN list : ~list[j]}),
   ok     |-> \A j \in DOMAIN list : list[j]]

---------------------------------------------------------------------------
(* The macros.                                                             *)

Statement(macro, type, op, lhs, rhs) ==
  [macro |-> macro, type |-> type, op |-> op, lhs |-> lhs, rhs |-> rhs]
StatementsOf(macros, type, operands) ==
  {Statement(m, type, op, l, r) : m \in macros, op \in Ops, l \in operands, r \in operands}
OneAndMany(macros, type, many, operands) ==
  StatementsOf(macros, type, operands) \cup StatementsOf(macros, many, BoundedSeq(operands, 2))

Unsigneds == 0 .. UnsignedSize - 1

\* ASSERT_EQ_I to CHECK_GE_ARR_I, and so on for the other types.
BooleanStatements  == {Statement(m, t, "", e, 0) : m \in {"ASSERT", "CHECK"}, t \in {"true", "false"}, e \in Ints}
IntStatements      == OneAndMany({"ASSERT", "CHECK"}, "i", "i[]", Ints)
UnsignedStatements == StatementsOf({"ASSERT", "CHECK"}, "u", Ints)
                      \cup StatementsOf({"ASSERT", "CHECK"}, "u[]", BoundedSeq(Unsigneds, 1))
PointerStatements  == OneAndMany({"ASSERT", "CHECK"}, "ptr", "ptr[]", Pointers)
StringStatements   == OneAndMany({"ASSERT", "CHECK"}, "cstr", "cstr[]", Strings)

\* REQUIRE and REQUIRE_FALSE, REQUIRE_EQ_I to REQUIRE_GE_ARR_I, and so on.
BooleanRequires  == {Statement("REQUIRE", t, "", e, 0) : t \in {"true", "false"}, e \in Ints}
IntRequires      == OneAndMany({"REQUIRE"}, "i", "i[]", Ints)
UnsignedRequires == StatementsOf({"REQUIRE"}, "u", Ints)
                    \cup StatementsOf({"REQUIRE"}, "u[]", BoundedSeq(Unsigneds, 1))
PointerRequires  == OneAndMany({"REQUIRE"}, "ptr", "ptr[]", Pointers)
StringRequires   == OneAndMany({"REQUIRE"}, "cstr", "cstr[]", Strings)

\* ASSERT_MEMCHECK: memcheck_finalize() has found lhs errors.
MemcheckStatement(macro, errors) == Statement(macro, "memcheck", "", errors, 0)

AllStatements ==
  UNION {BooleanStatements, IntStatements, UnsignedStatements, PointerStatements, StringStatements,
         BooleanRequires, IntRequires, UnsignedRequires, PointerRequires, StringRequires}

\* The list that a statement makes: an ASSERT wants its assertion in any case,
\* a CHECK and a REQUIRE on failure.
Made(st) ==
  LET onFailure == st.macro # "ASSERT" IN
  CASE st.type = "memcheck" -> [j \in 1 .. st.lhs |-> FALSE]
    [] st.type = "true"     -> CreateTrue(st.lhs, onFailure)
    [] st.type = "false"    -> CreateFalse(st.lhs, onFailure)
    [] st.type \in {"i", "u", "ptr", "cstr"} -> CreateCmp(st.type, st.op, st.lhs, st.rhs, onFailure)
    [] OTHER -> CreateCmpArr(st.type, st.op, st.lhs, st.rhs, onFailure)

\* What a macro can be given: it converts its operands to the type.
OperandsOf(type) == CASE type \in {"i", "u", "ptr"} -> Int
                      [] type \in {"cstr", "i[]", "u[]", "ptr[]"} -> Seq(Int)
                      [] type = "cstr[]" -> Seq(Seq(Int))
CmpTypes == {"i", "u", "ptr", "cstr", "i[]", "u[]", "ptr[]", "cstr[]"}
WellFormed(st) ==
  /\ st.macro \in {"ASSERT", "CHECK", "REQUIRE"}
  /\ \/ st.type \in CmpTypes /\ st.op \in Ops /\ {st.lhs, st.rhs} \subseteq OperandsOf(st.type)
     \/ st.type \in {"true", "false"} /\ st.op = "" /\ st.lhs \in Int
     \/ st.type = "memcheck" /\ st.op = "" /\ st.macro # "REQUIRE" /\ st.lhs \in Nat

---------------------------------------------------------------------------
(* What a statement is meant to say.                                       *)

\* lhs comes before rhs in the lexicographic order, of ints and of strings.
Precedes(lhs, rhs) ==
  \/ IsStrictPrefix(lhs, rhs)
  \/ \E j \in DOMAIN lhs \cap DOMAIN rhs :
       SubSeq(lhs, 1, j - 1) = SubSeq(rhs, 1, j - 1) /\ lhs[j] < rhs[j]
StringsPrecede(lhs, rhs) ==
  \/ IsStrictPrefix(lhs, rhs)
  \/ \E j \in DOMAIN lhs \cap DOMAIN rhs :
       SubSeq(lhs, 1, j - 1) = SubSeq(rhs, 1, j - 1) /\ Precedes(lhs[j], rhs[j])
Before(type, lhs, rhs) ==
  CASE type \in {"i", "ptr"} -> lhs < rhs
    [] type = "u"            -> lhs % UnsignedSize < rhs % UnsignedSize
    [] type = "cstr"         -> Precedes(lhs, rhs)
    [] type = "cstr[]"       -> StringsPrecede(lhs, rhs)
    [] OTHER                 -> Precedes(lhs, rhs)
Same(type, lhs, rhs) == IF type = "u" THEN (lhs - rhs) % UnsignedSize = 0 ELSE lhs = rhs

IsTrue(st) == CASE st.type = "memcheck" -> st.lhs = 0
               [] st.type = "true"     -> st.lhs # 0
               [] st.type = "false"    -> st.lhs = 0
               [] st.op = "==" -> Same(st.type, st.lhs, st.rhs)
               [] st.op = "!=" -> ~Same(st.type, st.lhs, st.rhs)
               [] st.op = "<"  -> Before(st.type, st.lhs, st.rhs)
               [] st.op = ">"  -> Before(st.type, st.rhs, st.lhs)
               [] st.op = "<=" -> ~Before(st.type, st.rhs, st.lhs)
               [] st.op = ">=" -> ~Before(st.type, st.lhs, st.rhs)
===========================================================================
