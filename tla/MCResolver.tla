----------------------------- MODULE MCResolver -----------------------------
(***************************************************************************)
(* The instance of Resolver for TLC: the schemas it resolves.              *)
(***************************************************************************)
EXTENDS Constraints

CONSTANTS M1, M2, M3,      \* modules
          A, B, C, P,      \* types
          D,               \* a type that is an alias or an instance
          K,               \* a class
          v,               \* a value
          X,               \* a formal parameter
          U,               \* a name that is defined nowhere
          INTEGER          \* a primitive

AllNames == {M1, M2, M3, A, B, C, D, K, P, X, U, v, INTEGER}

OnePrimitive == {INTEGER}

OneClass == {K}

OneValue == {v}

OneAlias == {D}

To(x) == [name |-> x, args |-> <<>>]

(* Bodies of at most k references to the names of S.                       *)
Bodies(S, k) == UNION {[1 .. i -> {To(x) : x \in S}] : i \in 0 .. k}

Plain(x, bodies) == [name : {x}, params : {<<>>}, refs : bodies]

(* One module with three types that refer to each other and to what is not *)
(* defined, at most twice each.                                            *)
OneModule ==
  {<<[name |-> M1, imports |-> <<>>, assigns |-> <<a, b, c>>]>> :
     a \in Plain(A, Bodies({A, B, C, U}, 2)),
     b \in Plain(B, Bodies({A, B, C}, 2)),
     c \in Plain(C, Bodies({A, INTEGER}, 1))}

(* M1 imports from M2 what is there, what it imports already, what it has  *)
(* itself or what does not exist.  Both have a type C, or only M2 has it,  *)
(* and either may come first.                                              *)
TwoModules ==
  LET ms == {[name |-> M1, imports |-> i, assigns |-> <<a, c>>] :
               i \in {<<<<M2, B>>>>, <<<<M2, B>>, <<M2, B>>>>, <<<<M2, C>>>>, <<<<M2, U>>>>},
               a \in Plain(A, Bodies({A, B, C}, 1)),
               c \in Plain(C, Bodies({A, B}, 2))}
            \cup {[name |-> M1, imports |-> <<<<M2, B>>>>, assigns |-> <<a>>] :
                    a \in Plain(A, Bodies({A, B, C}, 1))}
      ns == {[name |-> M2, imports |-> <<>>, assigns |-> <<b, c>>] :
               b \in Plain(B, Bodies({A, B, C}, 2)),
               c \in Plain(C, Bodies({B, U}, 1))}
  IN  {<<m, n>> : m \in ms, n \in ns} \cup {<<n, m>> : m \in ms, n \in ns}

(* Two modules define a C that the first has not imported, so its search   *)
(* through all modules may find either, for a reference of its own and for *)
(* one of the B it imports.                                                *)
ThreeModules ==
  LET m(refs) == [name |-> M1, imports |-> <<<<M2, B>>>>,
                  assigns |-> <<[name |-> A, params |-> <<>>, refs |-> refs]>>]
      n(refs) == [name |-> M2, imports |-> <<>>,
                  assigns |-> <<[name |-> B, params |-> <<>>, refs |-> refs],
                                [name |-> C, params |-> <<>>, refs |-> <<To(B)>>]>>]
      o == [name |-> M3, imports |-> <<>>,
            assigns |-> <<[name |-> C, params |-> <<>>, refs |-> <<To(INTEGER)>>]>>]
  IN  UNION {{<<m(r), n(s), o>>, <<n(s), m(r), o>>} :
               r \in Bodies({B, C}, 2), s \in Bodies({C, INTEGER}, 2)}

With(x, y) == [name |-> x, args |-> <<y>>]

(* A parameterized type, before or after a type that uses it, and a third  *)
(* type; actual parameters may lead back to the type they occur in, be     *)
(* undefined, or be missing.  Of two parameterized types one may use the   *)
(* other through a type that gives it no arguments.                        *)
WithParameters ==
  LET ps == [name : {P}, params : {<<X>>}, refs : Bodies({X, A, B, U}, 2)]
      as == Plain(A, {<<r, s>> : r \in {With(P, B), With(P, A), With(P, U), With(B, B), To(P)},
                                 s \in {To(B), To(A)}})
      bs == Plain(B, {<<>>, <<To(A)>>, <<To(B)>>, <<To(P)>>, <<To(U)>>, <<To(INTEGER)>>, <<With(P, INTEGER)>>})
      list(assigns) == <<[name |-> M1, imports |-> <<>>, assigns |-> assigns]>>
  IN  {list(<<p, a, b>>) : p \in ps, a \in as, b \in bs}
        \cup {list(<<a, p, b>>) : p \in ps, a \in as, b \in bs}
        \cup {list(<<p, a, b, c>>) :
                 p \in {[name |-> P, params |-> <<X>>, refs |-> <<To(A)>>]},
                 a \in Plain(A, {<<r, To(INTEGER)>> : r \in {To(C), With(C, INTEGER)}}),
                 b \in Plain(B, {<<To(A)>>}),
                 c \in {[name |-> C, params |-> <<X>>, refs |-> <<To(X)>>]}}

Value == [name |-> v, params |-> <<>>, refs |-> <<To(INTEGER)>>]

(* D in M1 stands for M2's B or for an instance of M2's P; their bodies    *)
(* have a bound that names v.  M1, M2 and M3 may each define v, and M2 may *)
(* have imported M3's; M1 may come first or last.                          *)
WithBounds ==
  LET b(refs) == [name |-> B, params |-> <<>>, refs |-> refs]
      p(refs) == [name |-> P, params |-> <<X>>, refs |-> refs]
      m(x, ref, own) ==
        [name |-> M1, imports |-> <<<<M2, x>>>>,
         assigns |-> <<[name |-> D, params |-> <<>>, refs |-> <<ref>>]>> \o own]
      n(bound, refs, imports, own) ==
        [name |-> M2, imports |-> imports, assigns |-> <<b(bound), p(refs)>> \o own]
      o(own) == [name |-> M3, imports |-> <<>>,
                 assigns |-> <<[name |-> C, params |-> <<>>, refs |-> <<>>]>> \o own]
      values == {<<>>, <<Value>>}
      ms == {m(x[1], x[2], own) : own \in values,
               x \in {<<B, To(B)>>, <<P, With(P, v)>>, <<P, With(P, INTEGER)>>}}
      ns == {n(bound, refs, imports, own) : bound \in {<<>>, <<To(v)>>},
               refs \in {<<To(v), To(X)>>, <<To(X), To(v)>>}, imports \in {<<>>, <<<<M3, v>>>>}, own \in values}
  IN  UNION {{<<x, y, z>>, <<z, y, x>>} :
               x \in ms, y \in ns, z \in {o(own) : own \in values}}

(* M2's B, which M1 imports, refers to a field of a class of M2; M1 may    *)
(* import the class as well, or have one of the same name.  The type of    *)
(* the field is M2's C or a primitive.                                     *)
WithClasses ==
  LET k(x) == [name |-> K, params |-> <<>>, refs |-> <<To(x)>>]
      m(imports, own) ==
        [name |-> M1, imports |-> imports,
         assigns |-> <<[name |-> A, params |-> <<>>, refs |-> <<To(B), To(K)>>]>> \o own]
      n(x, own) == [name |-> M2, imports |-> <<>>,
               assigns |-> <<[name |-> B, params |-> own, refs |-> <<With(K, X), To(C)>>],
                             [name |-> C, params |-> <<>>, refs |-> <<To(INTEGER)>>], k(x)>>]
      ms == {m(i, own) : i \in {<<<<M2, B>>>>, <<<<M2, B>>, <<M2, K>>>>,
                                <<<<M2, B>>, <<M2, K>>, <<M2, C>>>>},
                        own \in {<<>>, <<k(INTEGER)>>, <<k(U)>>}}
      ns == {n(x, own) : x \in {INTEGER, C, U}, own \in {<<>>, <<X>>}}
  IN  UNION {{<<x, y>>, <<y, x>>} : x \in ms, y \in ns}

(* Two modules have the same name; what the second defines is in the scope *)
(* of the first too.                                                       *)
SameName ==
  LET m(refs) == [name |-> M1, imports |-> <<>>,
                  assigns |-> <<[name |-> A, params |-> <<>>, refs |-> refs]>>]
      n(imports, refs) ==
        [name |-> M1, imports |-> imports,
         assigns |-> <<[name |-> B, params |-> <<>>, refs |-> refs]>>]
      o == [name |-> M2, imports |-> <<>>,
            assigns |-> <<[name |-> C, params |-> <<>>, refs |-> <<To(INTEGER)>>]>>]
  IN  UNION {{<<m(r), n(i, s), o>>, <<n(i, s), m(r), o>>} :
               r \in Bodies({B, C}, 2), s \in Bodies({A, C}, 2), i \in {<<>>, <<<<M2, C>>>>}}

AllSchemas ==
  OneModule \cup TwoModules \cup ThreeModules \cup WithParameters \cup WithBounds
  \cup WithClasses \cup SameName

=============================================================================
