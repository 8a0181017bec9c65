--------------------------- MODULE SchemeScripts ---------------------------
(***************************************************************************)
(* Scripts for Scheme: f is defined as a lambda that hands its argument    *)
(* on, g and h are defined for it to call, and then they are used.         *)
(***************************************************************************)
EXTENDS Naturals, Sequences, FiniteSets

Cell(tag, v) == CASE tag = "number" -> [tag |-> tag, number |-> v]
                  [] tag = "symbol" -> [tag |-> tag, name |-> v]
                  [] tag = "reference" -> [tag |-> tag, reference |-> v]
Number(n) == Cell("number", n)
Name(n) == Cell("symbol", n)
EmptyList == [tag |-> "nil"]
Dotted(a, d) == [tag |-> "cons", car |-> a, cdr |-> d]

RECURSIVE AList(_)
AList(e) == IF e = <<>> THEN EmptyList ELSE Dotted(Head(e), AList(Tail(e)))
ALambda(args, body) == AList(<<Name("lambda"), AList(args), body>>)
ADefine(n, e) == AList(<<Name("define"), Name(n), e>>)

x == Name("x")  y == Name("y")  z == Name("z")
f == Name("f")  g == Name("g")  h == Name("h")
One == Number(1)  Two == Number(2)
First == ALambda(<<x, y>>, x)
Second == ALambda(<<x, y>>, y)

\* What a lambda of x gives back: a lambda of one argument or of none.  Those
\* that capture run once in a script.
Given ==
  {ALambda(<<y>>, x), ALambda(<<y>>, y), ALambda(<<x>>, x), ALambda(<<y>>, AList(<<g, x, x>>)),
   ALambda(<<y>>, AList(<<g, AList(<<g, x, Two>>), x>>)), ALambda(<<y>>, AList(<<x, Two, One>>))}
GivenCapturing ==
  {ALambda(<<y>>, ALambda(<<z>>, x)), ALambda(<<y>>, ALambda(<<z>>, y)), ALambda(<<x>>, ALambda(<<z>>, x))}
GivenThunks == {ALambda(<<>>, x), ALambda(<<>>, Two), ALambda(<<>>, AList(<<g, x, One>>))}

\* Bodies that call.
Calling ==
  {AList(<<g, One, Two>>), AList(<<g, AList(<<g, One, Two>>), One>>),
   AList(<<ALambda(<<y>>, x), Two>>), AList(<<ALambda(<<>>, AList(<<g, x, x>>))>>),
   AList(<<ALambda(<<y>>, ALambda(<<z>>, x)), Two>>)}

Arguments == {One, g, Cell("reference", 1), AList(<<g, One, Two>>)}
Uses(c) == {c, AList(<<g, c, One>>), AList(<<g, One, c>>), AList(<<ALambda(<<z>>, z), c>>),
            AList(<<c, One>>)}

Prepared(body, a) == <<ADefine("f", ALambda(<<x>>, body)), ADefine("h", AList(<<f, a>>))>>
Small ==
  {One, EmptyList, x, Cell("reference", 1), AList(<<One>>), Dotted(x, y), Dotted(f, One),
   Dotted(Name("define"), Dotted(x, One)), ADefine("x", Dotted(One, One)),
   AList(<<Name("define"), x, One, Two>>), AList(<<Name("lambda"), AList(<<One>>), Two>>),
   AList(<<Name("lambda"), AList(<<x>>), One, Two>>),
   Dotted(Name("lambda"), Dotted(AList(<<x>>), One)), AList(<<Second, One, Two>>),
   AList(<<AList(<<ALambda(<<x, y>>, ALambda(<<z>>, x)), One, Two>>), Two>>)}

RegularScripts ==
  {<<ADefine("g", k)>> \o Prepared(b, a) \o <<u, AList(<<h, One>>)>> :
     k \in {First, Second}, b \in Given, a \in Arguments, u \in Uses(AList(<<h, Two>>))}
  \cup {<<ADefine("g", k)>> \o Prepared(b, a) \o <<u>> :
     k \in {First, Second}, b \in GivenCapturing, a \in Arguments, u \in Uses(AList(<<h, Two>>))}
  \cup {<<ADefine("g", k)>> \o Prepared(b, a) \o <<u, AList(<<h>>)>> :
     k \in {First, Second}, b \in GivenThunks, a \in Arguments, u \in Uses(AList(<<h>>))}
  \cup {<<ADefine("g", k), ADefine("f", ALambda(<<x>>, b)), u>> :
     k \in {First, Second}, b \in Calling, u \in UNION {Uses(AList(<<f, a>>)) : a \in Arguments}}
  \cup {<<c, ADefine("x", Two), x>> : c \in Small}

\* ... and one whose lambda hands its own argument to a call.
OwnArgumentScripts ==
  {<<ADefine("g", First), ADefine("f", ALambda(<<x>>, AList(<<g, a, b>>))), AList(<<f, One>>)>> :
     a, b \in {x, Two}}
=============================================================================
