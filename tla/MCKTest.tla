------------------------------ MODULE MCKTest ------------------------------
(* Structures with every content of their cells, and graphs of objects. *)
EXTENDS KTest

Plain(kind, size) == [kind |-> kind, size |-> size]
PointerTo(t) == [kind |-> "pointer", size |-> 1, to |-> t]
F(at, t) == [at |-> at, type |-> t, anonymous |-> FALSE]
Anonymous(at, t) == [at |-> at, type |-> t, anonymous |-> TRUE]
Composite(kind, size, named, fields) == [kind |-> kind, size |-> size, named |-> named, fields |-> fields]

MCLayout ==
    [int     |-> Plain("primitive", 1), long |-> Plain("primitive", 3), void |-> Plain("void", 0),
     bytes2  |-> Plain("array", 2),
     gap     |-> Composite("struct", 4, TRUE, <<F(0, "int"), F(2, "int")>>),
     views   |-> Composite("union", 4, TRUE, <<F(0, "int"), F(0, "gap"), F(0, "bytes2")>>),
     either  |-> Composite("union", 4, TRUE, <<F(0, "gap"), F(0, "long")>>),
     inner   |-> Composite("union", 3, TRUE, <<F(0, "int"), F(0, "bytes2")>>),
     tagged  |-> Composite("struct", 4, TRUE, <<F(0, "int"), Anonymous(1, "inner")>>),
     holder  |-> Composite("struct", 5, TRUE, <<F(0, "tagged"), F(4, "int")>>),
     nested  |-> Composite("union", 4, TRUE, <<F(0, "tagged"), F(0, "bytes2")>>),
     ptrNode |-> PointerTo("node"), ptrInt |-> PointerTo("int"), ptrPair |-> PointerTo("pair"),
     ptrVoid |-> PointerTo("void"),
     pair    |-> Composite("struct", 2, TRUE, <<F(0, "int"), F(1, "int")>>),
     node    |-> Composite("struct", 4, TRUE,
                           <<F(0, "ptrNode"), F(1, "int"), F(2, "ptrInt"), F(3, "ptrPair")>>),
     nodes   |-> [kind |-> "grid", size |-> 8, to |-> "node"],
     buffer  |-> Composite("struct", 3, TRUE, <<F(0, "ptrInt"), F(1, "bytes2")>>),
     opaque  |-> Composite("struct", 1, TRUE, <<F(0, "ptrVoid")>>)]

MCAddress(o) == 10 + o

Zeros(n) == [c \in 0 .. (n - 1) |-> 0]
Object(lazy, cells, pointers) == [lazy |-> lazy, cells |-> cells, pointers |-> pointers]
To(at, o, in) == [at |-> at, object |-> o, in |-> in]
Param(t) == <<[object |-> 1, type |-> t]>>

Values == {[params |-> Param(t), objects |-> <<Object(FALSE, cells, <<>>)>>] :
              <<t, cells>> \in UNION {{t} \X [0 .. (MCLayout[t].size - 1) -> {0, 1}] :
                                        t \in {"gap", "views", "either", "tagged", "holder", "nested"}}}

(* A node p, and lazily a node, a number and a pair. *)
NextNode(s) == IF s = 0 THEN <<>> ELSE <<To(0, s, 0)>>
Leaf(s) == CASE s = 0 -> <<>>          [] s = 1 -> <<To(2, 3, 0)>> [] s = 2 -> <<To(2, 1, 1)>>
             [] s = 3 -> <<To(2, 2, 1)>> [] s = 4 -> <<To(2, 4, 0)>> [] s = 5 -> <<To(2, 4, 1)>>
PairTo(s) == IF s = 0 THEN <<>> ELSE <<To(3, 4, 0)>>
Node(lazy, next, leaf, pair) == Object(lazy, Zeros(4), NextNode(next) \o Leaf(leaf) \o PairTo(pair))

(* Every object is led to by a pointer to the whole of it. *)
Typed(n, l, q) ==
    LET nodes == IF n[1] = 2 THEN {1, 2} ELSE {1}
    IN  /\ \A i \in nodes : /\ l[i] \in {4, 5} => \E j \in nodes : q[j] = 1
                            /\ l[i] = 3 => 2 \in nodes
        /\ 2 \notin nodes => n[2] = 0 /\ l[2] = 0 /\ q[2] = 0

Graphs ==
    {[params |-> Param("node"),
      objects |-> <<Node(FALSE, g[1][1], g[2][1], g[3][1]), Node(TRUE, g[1][2], g[2][2], g[3][2]),
                    Object(TRUE, Zeros(1), <<>>), Object(TRUE, Zeros(2), <<>>)>>] :
        g \in {g \in ((0 .. 2) \X (0 .. 2)) \X ((0 .. 5) \X (0 .. 5)) \X ((0 .. 1) \X (0 .. 1)) :
                 Typed(g[1], g[2], g[3])}}

(* Two nodes p and q, some of whose pointers are stored by address. *)
Stores(a) == [Zeros(4) EXCEPT ![0] = IF a = 0 THEN 0 ELSE MCAddress(a)]
Addressed(lazy, s) == IF s = 4 THEN Object(lazy, Zeros(4), <<To(0, 3, 0)>>) ELSE Object(lazy, Stores(s), <<>>)
ByAddress ==
    {[params |-> <<[object |-> 1, type |-> "node"], [object |-> 2, type |-> "node"]>>,
      objects |-> <<Addressed(FALSE, s[1]), Addressed(FALSE, s[2]), Addressed(TRUE, s[3])>>] :
        s \in {s \in (0 .. 4) \X (0 .. 4) \X (0 .. 4) : 3 \in {s[1], s[2]} => 4 \in {s[1], s[2]}}}

(* A pointer to pointers to two nodes; a buffer pointed into; a void pointer. *)
Others ==
    {[params |-> Param("nodes"),
      objects |-> <<Object(FALSE, Zeros(8), <<To(a, 2, 0)>> \o (IF b = 0 THEN <<>> ELSE <<To(b, 1, 5)>>)),
                    Object(TRUE, Zeros(4), IF c = 0 THEN <<>> ELSE <<To(0, c, 4 * (2 - c))>>)>>] :
        a \in {0, 4}, b \in {0, 2, 6}, c \in 0 .. 2}
    \cup {[params |-> Param("buffer"), objects |-> <<Object(FALSE, Zeros(3), <<To(0, 1, i)>>)>>] : i \in 1 .. 2}
    \cup {[params |-> Param("opaque"),
           objects |-> <<Object(FALSE, Zeros(1), <<To(0, 2, 0)>>), Object(TRUE, Zeros(1), <<>>)>>]}

MCKTests == Values \cup Graphs \cup ByAddress \cup Others
=============================================================================
