------------------------------ MODULE MCMiddleEnd ------------------------------
(* Functions of two arguments with a loop or a choice in the middle and    *)
(* statements from a small vocabulary in every place of it, and functions  *)
(* that call others of their unit.                                         *)
EXTENDS MiddleEnd

a == 1
n == 2
x == 3
y == 4
p == 5
i == 6
s == 7
v == 8
j == 10
G == 9      \* a global: no value of the procedure

Whole == [kind |-> "int", temp |-> FALSE, volatile |-> FALSE]

Function(statements) ==
    [name |-> 21, arguments |-> <<a, n>>, locals |-> <<x, y, p, i, j, s, v>>, pointsToPointer |-> {},
     values |-> [id \in {a, n, x, y, p, i, j, s, v} |->
                    CASE id = p -> [Whole EXCEPT !.kind = "pointer"]
                      [] id = v -> [Whole EXCEPT !.volatile = TRUE]
                      [] OTHER -> Whole],
     statements |-> statements]

Let(id, e) == Do(Set(Var(id), e))
Less(l, r) == Cmp("IF_BELOW", l, r)
Plus(l, r) == Bin("Add", l, r)
Times(l, r) == Bin("Mul", l, r)

Start0 == <<Let(p, Addr(y)), Let(x, Num(2)), Let(y, Num(1)), Let(s, Var(a))>>
Result == Plus(Plus(Var(x), Var(y)), Var(s))

Vocabulary == {
    Let(x, Plus(Var(y), Var(a))),                       \* kills what is known of x
    Let(y, Num(3)),
    Let(s, Times(Var(i), Var(a))),                      \* a product to reduce
    Let(s, Plus(Times(Var(x), Var(a)), Times(Var(x), Var(a)))),
    Do(Set(At(Var(p)), Plus(Var(a), Num(1)))),          \* a store through a pointer
    Let(s, At(Var(p))),                                 \* and a load
    Let(s, CallOf(20, <<Var(p)>>)),
    Let(v, Plus(Var(v), Var(s))),
    Let(p, Addr(x)),
    Let(x, Bin("Div", Var(s), Var(n))) }

Few == {Let(s, Times(Var(i), Var(a))), Do(Set(At(Var(p)), Plus(Var(a), Num(1)))),
        Let(s, At(Var(p))), Let(p, Addr(x)), Let(y, Num(3))}

Turns(body) == For(Set(Var(i), Num(0)), Less(Var(i), Var(n)), Post(Var(i), 1), Block(body))
Inner(body) == For(Set(Var(j), Num(0)), Less(Var(j), Var(i)), Pre(Var(j), 1), Block(body))
Again == Less(Var(i), Var(n))
Next0 == Do(Post(Var(i), 1))

(* Loops of every kind around two statements ... *)
LoopsWith(f, g) == {
    <<Turns(<<f, g>>)>>,
    <<Let(i, Num(0)), While(Again, Block(<<f, Next0, g>>))>>,
    <<Let(i, Num(0)), DoWhile(Block(<<f, g, Next0>>), Again)>>,
    <<Turns(<<f, Inner(<<g>>)>>)>>,
    <<Turns(<<f, If(Cmp("IF_EQUAL", Var(s), Var(x)), Block(<<Break>>), <<>>), g>>)>> }

(* ... and the other ways there are through two statements. *)
ChoicesOf(f, g) == {
    <<Turns(<<If(Cmp("IF_ABOVE_OR_EQUAL", Var(a), Num(3)), Block(<<f, Continue>>), <<>>), g>>)>>,
    <<If(Both(Less(Var(a), Var(n)), NotE(Var(y))), Block(<<f>>), <<g>>),
      Let(y, Cond(Either(Less(Var(a), Var(n)), Var(x)), Neg(Var(x)), Var(s)))>>,
    <<Turns(<<Switch(Var(i), <<Case(0, Block(<<f>>)), Case(1, Block(<<g, Break>>)), Default(f)>>)>>)>>,
    <<Let(i, Num(0)), Labeled(1, Block(<<f, g>>)), Next0, If(Again, Block(<<Goto(1)>>), <<>>)>>,
    <<If(Less(Var(a), Var(n)), Block(<<ReturnV, f>>), <<>>), g,
      Do(Change("Sub", At(Var(p)), Var(G))), f>>,
    <<If(Less(Num(1), Var(x)), Block(<<f, If(Cmp("IF_EQUAL", Var(s), Var(s)), Block(<<g>>), <<>>)>>),
         <<g>>)>> }

Bodies == UNION {LoopsWith(f, g) : f \in Vocabulary, g \in Vocabulary}
            \cup UNION {ChoicesOf(f, g) : f \in Few, g \in Few}

Whole0(body) == Function(Start0 \o body \o <<ReturnE(Result)>>)

(* --- units of several functions ---------------------------------------------- *)

b == 11
c == 12
z == 13
q == 14
w == 15     \* volatile
d == 16
e == 17

(* int 22(int b, int *c), called by the first function, and int 23(int d,   *)
(* int *e), called by it.                                                  *)
Callee(qualified, statements) ==
    [name |-> 22, arguments |-> <<b, c>>, locals |-> <<z, q, w>>, pointsToPointer |-> {},
     values |-> [id \in {b, c, z, q, w} |->
                    CASE id \in {c, q} -> [Whole EXCEPT !.kind = "pointer"]
                      [] id = w -> [Whole EXCEPT !.volatile = TRUE]
                      [] id = b -> [Whole EXCEPT !.volatile = qualified]
                      [] OTHER -> Whole],
     statements |-> statements]
Callee23(statements) ==
    [name |-> 23, arguments |-> <<d, e>>, locals |-> <<>>, pointsToPointer |-> {},
     values |-> [id \in {d, e} |-> IF id = e THEN [Whole EXCEPT !.kind = "pointer"] ELSE Whole],
     statements |-> statements]

CalleeBodies == {
    <<ReturnE(Times(Var(b), Plus(Var(b), At(Var(c)))))>>,
    <<Let(b, Plus(Var(b), Num(1))), ReturnE(Plus(Var(b), At(Var(c))))>>,        \* its argument changed
    <<Let(q, Addr(b)), Do(Set(At(Var(q)), At(Var(c)))), ReturnE(Var(b))>>,      \* and through a pointer
    <<Do(Set(At(Var(c)), Num(5))), ReturnE(Plus(Var(b), At(Var(c))))>>,         \* what the caller named changed
    <<Let(G, Plus(Var(G), Num(1))), ReturnE(Plus(Var(b), Var(G)))>>,            \* or a global
    <<Let(z, CallOf(20, <<Var(c)>>)), ReturnE(Plus(Var(z), Var(b)))>>,          \* or what it calls does
    <<If(Less(Var(b), At(Var(c))), Block(<<ReturnE(Var(b))>>), <<>>), ReturnE(At(Var(c)))>>,
    <<Let(z, Num(0)), While(Less(Var(z), Var(b)), Block(<<Do(Pre(Var(z), 2))>>)), ReturnE(Var(z))>>,
    <<Let(w, Var(b)), ReturnE(Bin("Sub", Var(w), Var(w)))>>,
    <<If(Less(Num(0), Var(b)), Block(<<ReturnE(CallOf(22, <<Bin("Sub", Var(b), Num(1)), Var(c)>>))>>), <<>>),
      ReturnE(At(Var(c)))>> }
TwiceThrough23 == <<Let(z, CallOf(23, <<Var(b), Var(c)>>)), ReturnE(Plus(CallOf(23, <<Var(z), Addr(b)>>), Var(b)))>>
InnerBodies == {
    <<ReturnE(Plus(Var(d), At(Var(e))))>>,
    <<Do(Set(At(Var(e)), Plus(Var(d), Num(1)))), ReturnE(Var(d))>>,
    <<If(Less(Num(0), Var(d)), Block(<<ReturnE(CallOf(22, <<Bin("Div", Var(d), Num(2)), Var(e)>>))>>), <<>>),
      ReturnE(Num(2))>> }

Callees == {<<Callee(FALSE, body)>> : body \in CalleeBodies}
           \cup {<<Callee(TRUE, <<ReturnE(Bin("Sub", Var(b), Var(b)))>>)>>}
           \cup {<<Callee(FALSE, TwiceThrough23), Callee23(inner)>> : inner \in InnerBodies}

CallsOf22 == {
    Let(x, CallOf(22, <<Var(x), Addr(x)>>)),
    Let(s, CallOf(22, <<Plus(Var(a), Num(1)), Var(p)>>)),
    Let(s, CallOf(22, <<Var(G), Var(p)>>)),
    Let(y, CallOf(22, <<Var(y), Var(p)>>)),                                 \* p points to y
    Let(s, CallOf(22, <<CallOf(22, <<Var(x), Var(p)>>), Addr(s)>>)),
    Do(VoidCall(22, <<Var(s), Var(p)>>)) }

CallersOf22 ==
    {<<f>> : f \in CallsOf22} \cup {<<Turns(<<f>>)>> : f \in CallsOf22}
    \cup {<<f, If(Less(Var(x), Var(s)), Block(<<g>>), <<>>)>> : f \in CallsOf22, g \in CallsOf22}

(* void 23(void) {}, and an int 22 that does nothing but call it. *)
Empty23 == [Callee23(<<>>) EXCEPT !.arguments = <<>>, !.values = <<>>]
CallsEmpty23 == Do(VoidCall(23, <<>>))
EmptyOnes ==
    {<<Whole0(<<CallsEmpty23, f>>), Callee(FALSE, <<ReturnE(Var(b))>>), Empty23>> : f \in CallsOf22}
    \cup {<<Whole0(<<f>>), Callee(FALSE, <<CallsEmpty23, ReturnE(Var(b))>>), Empty23>> : f \in CallsOf22}

MCUnits == {<<Whole0(body)>> : body \in Bodies}
           \cup {<<Whole0(body)>> \o callees : body \in CallersOf22, callees \in Callees}
           \cup EmptyOnes
MCInlineCaps == [calleeInsts |-> 24, callerInsts |-> 60, perCaller |-> 3, total |-> 4]

(* --- folding around a loop ----------------------------------------------------- *)

(* Loops that assign x, store through p, read x and let p point to x, in    *)
(* every order.                                                            *)
Steps == <<Let(x, Num(5)), Do(Set(At(Var(p)), Num(7))), Let(s, Plus(Var(x), Num(1))), Let(p, Addr(x))>>
Orders == {o \in [1..4 -> 1..4] : \A k, l \in 1..4 : o[k] = o[l] => k = l}
MCAliasing == {<<Whole0(<<Turns([k \in 1..4 |-> Steps[o[k]]])>>)>> : o \in Orders}

MCInputs == {(a :> 3) @@ (n :> 0) @@ (G :> 1), (a :> 15) @@ (n :> 2) @@ (G :> 5)}
================================================================================
