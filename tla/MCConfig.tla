------------------------------ MODULE MCConfig ------------------------------
(***************************************************************************)
(* Instances of Config for TLC: objects, names and YAML documents.         *)
(***************************************************************************)
EXTENDS Config, TLC

CONSTANTS
  n0, n1, n2,           \* numbers
  a, b, upper,          \* parts of names; upper has an upper-case letter
  i1, w1, m1            \* ConfigVar<T> objects

Scalar(x) == [kind |-> "scalar", number |-> x]
Sequence(items) == [kind |-> "seq", items |-> items]
Map(items) == [kind |-> "map", items |-> items]
Entry(key, value) == [key |-> key, value |-> value]

SomeTypes == i1 :> "int" @@ w1 :> "vec" @@ m1 :> "map"
SomeNames == {<<a>>, <<a, b>>}

\* {a: {b: 1}, a.b: 2, a: [1, 2]}: names that are given twice.
Twice == Map(<<Entry(<<a>>, Map(<<Entry(<<b>>, Scalar(n1))>>)),
               Entry(<<a, b>>, Scalar(n2)),
               Entry(<<a>>, Sequence(<<Scalar(n1), Scalar(n2)>>))>>)
\* {a: 1, A: {b: 1}, a.b: text, a: [1, text]}: what is refused or cannot be
\* converted.
Faulty == Map(<<Entry(<<a>>, Scalar(n1)),
                Entry(<<upper>>, Map(<<Entry(<<a>>, Scalar(n2))>>)),
                Entry(<<a, b>>, Scalar(Null)),
                Entry(<<a>>, Sequence(<<Scalar(n1), Scalar(Null)>>))>>)
SomeDocuments == {Twice, Faulty}
=============================================================================
