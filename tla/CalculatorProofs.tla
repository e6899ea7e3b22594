-------------------------- MODULE CalculatorProofs --------------------------
(***************************************************************************)
(* The calculator, for every input and all operands: what the parser makes *)
(* of an input is the input as it is written, every expression is parsed,  *)
(* and the loops compute what they are for.                                *)
(*                                                                         *)
(* The recursive functions of the model are defined for the arguments of   *)
(* one call; that each exists is proved by induction, and that what it     *)
(* gives has the properties wanted, by another.                            *)
(***************************************************************************)
EXTENDS Calculator, DataProofs, FunctionTheorems

-----------------------------------------------------------------------------
(* Recursions and loops                                                    *)

\* The rounds of a recursion: the value at a, from the values at arguments of less measure, is
\* one of V[a] if those are.
Typed(A, V, g) == \A b \in A : g[b] \in V[b]
Keeps(A, U, V, G) == \A a \in A : \A g \in [A -> U] : Typed(A, V, g) => G[a][g] \in V[a]
LooksBack(A, U, V, m, G) ==
  \A a \in A : \A g, h \in [A -> U] :
    Typed(A, V, g) /\ Typed(A, V, h) /\ (\A b \in A : m[b] < m[a] => g[b] = h[b]) =>
      G[a][g] = G[a][h]

Measures(A, m) == \E M \in Nat : m \in [A -> 0 .. M]
SomeOf(A, U, V) == V \in [A -> SUBSET U] /\ \A a \in A : V[a] # {}

\* A function that is defined from its values at smaller arguments, by what G makes of them:
\* there is one, of the type V.
LEMMA RecursionExists ==
  ASSUME NEW A, NEW U, NEW V, SomeOf(A, U, V), NEW m, Measures(A, m),
         NEW G, Keeps(A, U, V, G), LooksBack(A, U, V, m, G)
  PROVE  \E f \in [A -> U] : Typed(A, V, f) /\ \A a \in A : f[a] = G[a][f]
<1>0. /\ \A a \in A : \A g \in [A -> U] : (\A b \in A : g[b] \in V[b]) => G[a][g] \in V[a]
      /\ \A a \in A : \A g, h \in [A -> U] :
           /\ \A b \in A : g[b] \in V[b] /\ h[b] \in V[b]
           /\ \A b \in A : m[b] < m[a] => g[b] = h[b]
           => G[a][g] = G[a][h]
  BY DEF Keeps, LooksBack, Typed
<1> PICK M \in Nat : m \in [A -> 0 .. M]
  BY DEF Measures
<1> V \in [A -> SUBSET U] /\ \A a \in A : V[a] # {}
  BY DEF SomeOf
<1> DEFINE F == {g \in [A -> U] : \A b \in A : g[b] \in V[b]}
           Right(n) == \E f \in F : \A a \in A : m[a] < n => f[a] = G[a][f]
           P == {n \in 0 .. M + 1 : Right(n)}
<1>1. 0 \in P
  <2>1. [a \in A |-> CHOOSE x : x \in V[a]] \in F
    OBVIOUS
  <2>2. \A a \in A : ~(m[a] < 0)
    OBVIOUS
  <2> HIDE DEF F
  <2> QED BY <2>1, <2>2
<1>2. ASSUME NEW n \in 0 .. M, n \in P PROVE n + 1 \in P
  <2>1. PICK f \in F : \A a \in A : m[a] < n => f[a] = G[a][f]
    BY <1>2
  <2> DEFINE g == [a \in A |-> IF m[a] <= n THEN G[a][f] ELSE f[a]]
  <2>2. \A a \in A : G[a][f] \in V[a] /\ f[a] \in V[a]
    BY <1>0, <2>1
  <2>3. g \in F
    BY <2>2
  <2>4. \A b \in A : m[b] < n => g[b] = f[b]
    BY <2>1
  <2>5. ASSUME NEW a \in A, m[a] < n + 1 PROVE g[a] = G[a][g]
    <3>1. m[a] <= n
      BY <2>5
    <3>2. \A b \in A : m[b] < m[a] => g[b] = f[b]
      BY <2>4, <3>1
    <3>3. G[a][g] = G[a][f]
      <4> HIDE DEF g
      <4> QED BY <1>0, <2>1, <2>3, <3>2
    <3> QED BY <3>1, <3>3
  <2>6. n + 1 \in 0 .. M + 1
    OBVIOUS
  <2> HIDE DEF g, F
  <2> QED BY <2>3, <2>5, <2>6
<1>3. M + 1 \in P
  <2>1. M + 1 \in Nat /\ \A k \in 0 .. M + 1 - 1 : k \in 0 .. M
    OBVIOUS
  <2> HIDE DEF P
  <2>2. 0 .. M + 1 \subseteq P
    BY <1>1, <1>2, <2>1, ByCounting
  <2> QED BY <2>2
<1>4. PICK f \in F : \A a \in A : m[a] < M + 1 => f[a] = G[a][f]
  BY <1>3
<1>5. \A a \in A : m[a] < M + 1
  OBVIOUS
<1> QED BY <1>4, <1>5 DEF Typed

\* The rounds of a loop stay in U.
StaysIn(U, n, step) == \A i \in 1 .. n : \A u \in U : step[i][u] \in U

\* The values of a loop that counts to n and makes of every value the next one.
Runs(U, n, start, step, f) ==
  f \in [0 .. n -> U] /\ f[0] = start /\ \A i \in 1 .. n : f[i] = step[i][f[i - 1]]

\* Such a loop has a last value.
LEMMA LoopExists ==
  ASSUME NEW n \in Nat, NEW U, NEW start \in U, NEW step, StaysIn(U, n, step)
  PROVE  \E f : Runs(U, n, start, step, f)
<1> DEFINE To(k) == \E f \in [0 .. k -> U] :
                      f[0] = start /\ \A i \in 1 .. k : f[i] = step[i][f[i - 1]]
           P == {k \in 0 .. n : To(k)}
<1>1. 0 \in P
  <2>1. [i \in 0 .. 0 |-> start] \in [0 .. 0 -> U] /\ [i \in 0 .. 0 |-> start][0] = start
    OBVIOUS
  <2>2. \A i : i \notin 1 .. 0
    OBVIOUS
  <2>3. To(0)
    BY <2>1, <2>2
  <2> QED BY <2>3
<1>2. ASSUME NEW k \in 0 .. n - 1, k \in P PROVE k + 1 \in P
  <2>1. PICK f \in [0 .. k -> U] : f[0] = start /\ \A i \in 1 .. k : f[i] = step[i][f[i - 1]]
    BY <1>2
  <2> DEFINE g == [i \in 0 .. k + 1 |-> IF i = k + 1 THEN step[k + 1][f[k]] ELSE f[i]]
  <2>2. step[k + 1][f[k]] \in U
    <3>1. f[k] \in U /\ k + 1 \in 1 .. n
      OBVIOUS
    <3> QED BY <3>1 DEF StaysIn
  <2>3. g \in [0 .. k + 1 -> U]
    BY <2>2
  <2>4. \A i \in 0 .. k : g[i] = f[i]
    OBVIOUS
  <2>5. g[k + 1] = step[k + 1][f[k]]
    OBVIOUS
  <2> HIDE DEF g
  <2>6. \A i \in 1 .. k + 1 : i - 1 \in 0 .. k /\ (i \in 1 .. k \/ i = k + 1) /\ 0 \in 0 .. k
    OBVIOUS
  <2>7. \A i \in 1 .. k + 1 : g[i] = step[i][g[i - 1]]
    <3> SUFFICES ASSUME NEW i \in 1 .. k + 1 PROVE g[i] = step[i][g[i - 1]]
      OBVIOUS
    <3>1. CASE i = k + 1
      BY <2>4, <2>5, <2>6, <3>1
    <3>2. CASE i \in 1 .. k
      BY <2>1, <2>4, <2>6, <3>2
    <3> QED BY <2>6, <3>1, <3>2
  <2>8. g[0] = start /\ k + 1 \in 0 .. n
    BY <2>1, <2>4, <2>6
  <2> QED BY <2>3, <2>7, <2>8
<1>3. n \in P
  <2> HIDE DEF P
  <2>1. 0 .. n \subseteq P
    BY <1>1, <1>2, ByCounting
  <2> QED BY <2>1
<1> QED BY <1>3 DEF Runs

-----------------------------------------------------------------------------
(* Trees that are read as they are written                                 *)

Places(s) == 1 .. Len(s) + 1
Tokens(s) == 1 .. Len(s)
Bps == 0 .. 5

Infixes == {"+", "-", "*", "%", "^", "C", "!"}

\* The left binding power of the operation at k, and whether the loop ends there.
LeftOf(s, k) == IF IsPercent(s, k) THEN precPostfix ELSE InfixBp[s[k]].left
Ends(s, k, minBP) == k > Len(s) \/ s[k] \notin Infixes \/ LeftOf(s, k) <= minBP

\* How tight operations bind to the left and to the right.
LEMMA BindingPowers ==
  /\ precLowest = 0 /\ precUnary = 3 /\ precPostfix = 5 /\ PercentBp.left = 5
  /\ DOMAIN InfixBp = Infixes
  /\ \A tok \in Infixes : /\ InfixBp[tok].left \in 1 .. 5 /\ InfixBp[tok].right \in 0 .. 5
                          /\ InfixBp[tok].right <= InfixBp[tok].left
  /\ InfixBp["+"].left = 1 /\ InfixBp["+"].right = 1
  /\ InfixBp["-"].left = 1 /\ InfixBp["-"].right = 1
  /\ InfixBp["*"].left = 2 /\ InfixBp["*"].right = 2
  /\ InfixBp["%"].left = 2 /\ InfixBp["%"].right = 2
  /\ InfixBp["^"].left = 4 /\ InfixBp["^"].right = 3
  /\ InfixBp["C"].left = 5 /\ InfixBp["C"].right = 5
  /\ InfixBp["!"].left = 5 /\ InfixBp["!"].right = 5
BY DEF InfixBp, Infixes, PercentBp, precLowest, precAdd, precMul, precUnary, precPow, precPostfix

\* What the operand after the token of a node is read with.
RightBp(s, u) == IF u.kind = "prefix" THEN 3 ELSE InfixBp[s[u.pos]].right

\* What ends where an operation is read binds tighter than it, if it was read to its end.
LEMMA TighterLeft ==
  ASSUME NEW s, NEW T, NEW t, NEW u, u.kind \in {"infix", "prefix"}, Spelled(s, T, u),
         Level(s, t) <= RightBp(s, u), Level(s, t) \in 0 .. 5, s[t.pos] = "^" => Level(s, t) = 4
  PROVE  Level(s, u) > Level(s, t) \/ (Level(s, u) = Level(s, t) /\ s[t.pos] # "^")
<1> DEFINE n == Level(s, t)
           hat == s[t.pos] = "^"
<1>1. n \in 0 .. 5 /\ n <= RightBp(s, u) /\ (hat => n = 4)
  OBVIOUS
<1> HIDE DEF n, hat
<1>2. Level(s, u) > n \/ (Level(s, u) = n /\ ~hat)
  <2>1. CASE u.kind = "prefix"
    <3>1. RightBp(s, u) = 3 /\ Level(s, u) = 3
      BY <2>1 DEF RightBp, Level
    <3> QED BY <1>1, <3>1
  <2>2. CASE u.kind = "infix"
    <3>1. s[u.pos] \in {"+", "-", "*", "%", "^", "C"}
      BY <2>2 DEF Spelled
    <3>2. CASE s[u.pos] \in {"+", "-"}
      <4>1. RightBp(s, u) = 1 /\ Level(s, u) = 1
        BY <2>2, <3>2, BindingPowers DEF RightBp, Level
      <4> QED BY <1>1, <4>1
    <3>3. CASE s[u.pos] \in {"*", "%"}
      <4>1. RightBp(s, u) = 2 /\ Level(s, u) = 2
        BY <2>2, <3>3, BindingPowers DEF RightBp, Level
      <4> QED BY <1>1, <4>1
    <3>4. CASE s[u.pos] = "^"
      <4>1. RightBp(s, u) = 3 /\ Level(s, u) = 4
        BY <2>2, <3>4, BindingPowers DEF RightBp, Level
      <4> QED BY <1>1, <4>1
    <3>5. CASE s[u.pos] = "C"
      <4>1. RightBp(s, u) = 5 /\ Level(s, u) = 5
        BY <2>2, <3>5, BindingPowers DEF RightBp, Level
      <4> QED BY <1>1, <4>1
    <3> QED BY <3>1, <3>2, <3>3, <3>4, <3>5
  <2> QED BY <2>1, <2>2
<1> QED BY <1>2 DEF n, hat

\* What begins after an operation and was read with its power binds tighter than it.
LEMMA TighterRight ==
  ASSUME NEW s, NEW T, NEW t, NEW u, t.kind \in {"infix", "prefix"}, Spelled(s, T, t),
         Level(s, u) > RightBp(s, t), Level(s, u) \in 0 .. 5
  PROVE  Level(s, u) > Level(s, t) \/ (Level(s, u) = Level(s, t) /\ s[t.pos] = "^")
<1> DEFINE n == Level(s, u)
<1>1. n \in 0 .. 5 /\ n > RightBp(s, t)
  OBVIOUS
<1> HIDE DEF n
<1>2. n > Level(s, t) \/ (n = Level(s, t) /\ s[t.pos] = "^")
  <2>1. CASE t.kind = "prefix"
    <3>1. RightBp(s, t) = 3 /\ Level(s, t) = 3
      BY <2>1 DEF RightBp, Level
    <3> QED BY <1>1, <3>1
  <2>2. CASE t.kind = "infix"
    <3>1. s[t.pos] \in {"+", "-", "*", "%", "^", "C"}
      BY <2>2 DEF Spelled
    <3>2. CASE s[t.pos] \in {"+", "-"}
      <4>1. RightBp(s, t) = 1 /\ Level(s, t) = 1
        BY <2>2, <3>2, BindingPowers DEF RightBp, Level
      <4> QED BY <1>1, <4>1
    <3>3. CASE s[t.pos] \in {"*", "%"}
      <4>1. RightBp(s, t) = 2 /\ Level(s, t) = 2
        BY <2>2, <3>3, BindingPowers DEF RightBp, Level
      <4> QED BY <1>1, <4>1
    <3>4. CASE s[t.pos] = "^"
      <4>1. RightBp(s, t) = 3 /\ Level(s, t) = 4
        BY <2>2, <3>4, BindingPowers DEF RightBp, Level
      <4> QED BY <1>1, <3>4, <4>1
    <3>5. CASE s[t.pos] = "C"
      <4>1. RightBp(s, t) = 5 /\ Level(s, t) = 5
        BY <2>2, <3>5, BindingPowers DEF RightBp, Level
      <4> QED BY <1>1, <4>1
    <3> QED BY <3>1, <3>2, <3>3, <3>4, <3>5
  <2> QED BY <2>1, <2>2
<1> QED BY <1>2 DEF n

\* A tree that parseExpression has read with minBP: a node that begins with its first token
\* binds tighter, and one that ends with its last one was read to its end.
LeftTight(s, u, from, minBP) ==
  u.kind \in {"infix", "postfix"} /\ u.from = from => Level(s, u) \in 0 .. 5 /\ Level(s, u) > minBP
RightTight(s, u, to) ==
  u.kind \in {"infix", "prefix"} /\ u.to = to => Ends(s, to, RightBp(s, u))

Inside(t, from, to) == from <= t.from /\ t.from <= t.pos /\ t.pos < t.to /\ t.to <= to

WellRead(s, T, root, minBP) ==
  /\ T \subseteq Nodes(s) /\ root \in T
  /\ \A t \in T : Inside(t, root.from, root.to)
  /\ Spells(s, T) /\ Binds(s, T)
  /\ \A t \in T : LeftTight(s, t, root.from, minBP) /\ RightTight(s, t, root.to)

\* The parts of a node are positions of the input.
LEMMA NodesAre ==
  ASSUME NEW s, Len(s) \in Nat, NEW t \in Nodes(s)
  PROVE  /\ t.pos \in 1 .. Len(s) /\ t.from \in 1 .. Len(s) /\ t.to \in 1 .. Len(s) + 1
         /\ t.left \in 0 .. Len(s) /\ t.right \in 0 .. Len(s)
         /\ t.kind \in {"leaf", "group", "prefix", "postfix", "infix"}
BY DEF Nodes

\* The operand that a node has among some it has among more.
LEMMA StillSpelled ==
  ASSUME NEW s, NEW T, NEW U, T \subseteq U, NEW t, Spelled(s, T, t),
         t.kind \in {"leaf", "group", "prefix", "postfix", "infix"}
  PROVE  Spelled(s, U, t)
<1>1. \A pos, from, to : Operand(T, pos, from, to) => Operand(U, pos, from, to)
  BY DEF Operand
<1>2. Operand(T, t.left, t.from, t.pos) => Operand(U, t.left, t.from, t.pos)
  BY <1>1
<1>3. Operand(T, t.right, t.pos + 1, t.to) => Operand(U, t.right, t.pos + 1, t.to)
  BY <1>1
<1>4. Operand(T, t.right, t.pos + 1, t.to - 1) => Operand(U, t.right, t.pos + 1, t.to - 1)
  BY <1>1
<1>5. CASE t.kind = "leaf"
  BY <1>5 DEF Spelled
<1>6. CASE t.kind = "group"
  BY <1>4, <1>6 DEF Spelled
<1>7. CASE t.kind = "prefix"
  BY <1>3, <1>7 DEF Spelled
<1>8. CASE t.kind = "postfix"
  BY <1>2, <1>8 DEF Spelled
<1>9. CASE t.kind = "infix"
  BY <1>2, <1>3, <1>9 DEF Spelled
<1> QED BY <1>5, <1>6, <1>7, <1>8, <1>9

\* Nodes that do not touch have no say in each other's operands.
LEMMA FarApart ==
  ASSUME NEW s, NEW t, NEW u, u.to # t.pos, u.from # t.pos + 1
  PROVE  Tighter(s, t, u)
BY DEF Tighter

\* A node and the trees of its operands are a tree.
LEMMA Joined ==
  ASSUME NEW s, Len(s) \in Nat, NEW x \in Nodes(s),
         NEW A \in SUBSET Nodes(s), NEW B \in SUBSET Nodes(s),
         x.from <= x.pos, x.pos < x.to,
         \A t \in A : Inside(t, x.from, x.pos) /\ Tighter(s, x, t),
         \A t \in B : Inside(t, x.pos + 1, x.to) /\ Tighter(s, x, t),
         Spells(s, A), Spells(s, B), Binds(s, A), Binds(s, B), Spelled(s, A \cup B \cup {x}, x)
  PROVE  /\ Spells(s, A \cup B \cup {x}) /\ Binds(s, A \cup B \cup {x})
         /\ \A t \in A \cup B \cup {x} : Inside(t, x.from, x.to)
<1> DEFINE T == A \cup B \cup {x}
<1>1. \A t \in A \cup B \cup {x} : /\ t.pos \in Int /\ t.from \in Int /\ t.to \in Int
                                   /\ t.kind \in {"leaf", "group", "prefix", "postfix", "infix"}
  BY NodesAre
<1>2. \A t \in A : x.from <= t.from /\ t.from <= t.pos /\ t.pos < t.to /\ t.to <= x.pos
  BY DEF Inside
<1>3. \A t \in B : x.pos + 1 <= t.from /\ t.from <= t.pos /\ t.pos < t.to /\ t.to <= x.to
  BY DEF Inside
<1>4. x.pos \in Int /\ x.from \in Int /\ x.to \in Int
  BY <1>1
<1>5. Spells(s, T)
  <2>1. ASSUME NEW t \in T, NEW u \in T, t.pos = u.pos PROVE t = u
    <3>1. \A a \in A : a.pos < x.pos
      BY <1>1, <1>2, <1>4
    <3>2. \A b \in B : b.pos > x.pos
      BY <1>1, <1>3, <1>4
    <3>3. \A a, b \in A : a.pos = b.pos => a = b
      BY DEF Spells
    <3>4. \A a, b \in B : a.pos = b.pos => a = b
      BY DEF Spells
    <3> QED BY <1>1, <1>4, <2>1, <3>1, <3>2, <3>3, <3>4
  <2>2. \A t \in A : Spelled(s, T, t)
    BY <1>1, StillSpelled DEF Spells
  <2>3. \A t \in B : Spelled(s, T, t)
    BY <1>1, StillSpelled DEF Spells
  <2> QED BY <2>1, <2>2, <2>3 DEF Spells
<1>6. Binds(s, T)
  <2>1. \A t, u \in A : Tighter(s, t, u)
    BY DEF Binds
  <2>2. \A t, u \in B : Tighter(s, t, u)
    BY DEF Binds
  <2>3. \A t \in A, u \in B \cup {x} : Tighter(s, t, u)
    <3> SUFFICES ASSUME NEW t \in A, NEW u \in B \cup {x} PROVE u.to # t.pos /\ u.from # t.pos + 1
      BY FarApart
    <3>1. t.pos \in Int /\ u.from \in Int /\ u.to \in Int
      BY <1>1
    <3>2. x.from <= t.pos /\ t.pos < x.pos
      BY <1>1, <1>2, <1>4
    <3>5. x.to # t.pos /\ x.from # t.pos + 1
      BY <1>4, <3>1, <3>2
    <3>3. CASE u = x
      BY <3>3, <3>5
    <3>4. CASE u \in B
      <4>1. x.pos + 1 <= u.from /\ u.from < u.to
        BY <1>1, <1>3, <3>4
      <4> QED BY <1>4, <3>1, <3>2, <4>1
    <3> QED BY <3>3, <3>4
  <2>4. \A t \in B, u \in A \cup {x} : Tighter(s, t, u)
    <3> SUFFICES ASSUME NEW t \in B, NEW u \in A \cup {x} PROVE u.to # t.pos /\ u.from # t.pos + 1
      BY FarApart
    <3>1. t.pos \in Int /\ u.from \in Int /\ u.to \in Int
      BY <1>1
    <3>2. x.pos < t.pos /\ t.pos < x.to
      BY <1>1, <1>3, <1>4
    <3>5. x.to # t.pos /\ x.from # t.pos + 1
      BY <1>4, <3>1, <3>2
    <3>3. CASE u = x
      BY <3>3, <3>5
    <3>4. CASE u \in A
      <4>1. u.from < u.to /\ u.to <= x.pos
        BY <1>1, <1>2, <3>4
      <4> QED BY <1>4, <3>1, <3>2, <4>1
    <3> QED BY <3>3, <3>4
  <2>5. Tighter(s, x, x)
    BY <1>4, FarApart
  <2> QED BY <2>1, <2>2, <2>3, <2>4, <2>5 DEF Binds
<1>7. \A t \in T : Inside(t, x.from, x.to)
  <2>1. \A t \in A : t.to <= x.to
    BY <1>1, <1>2, <1>4
  <2>2. \A t \in B : x.from <= t.from
    BY <1>1, <1>3, <1>4
  <2> QED BY <1>1, <1>2, <1>3, <1>4, <2>1, <2>2 DEF Inside
<1> QED BY <1>5, <1>6, <1>7

\* The empty tree is as it is written.
LEMMA NothingRead ==
  ASSUME NEW s
  PROVE  Spells(s, {}) /\ Binds(s, {})
BY DEF Spells, Binds

\* A number is a tree.
LEMMA LeafTree ==
  ASSUME NEW s, Len(s) \in Nat, NEW i \in 1 .. Len(s), s[i] = "n", NEW minBP
  PROVE  WellRead(s, {Leaf(i)}, Leaf(i), minBP) /\ Leaf(i) \in Nodes(s)
         /\ Leaf(i).from = i /\ Leaf(i).to = i + 1
<1> DEFINE x == Leaf(i)
<1>1. x.kind = "leaf" /\ x.pos = i /\ x.from = i /\ x.to = i + 1
  BY DEF Leaf
<1>2. x \in Nodes(s)
  <2>1. i \in 1 .. Len(s) + 1 /\ i + 1 \in 1 .. Len(s) + 1 /\ 0 \in 0 .. Len(s)
    OBVIOUS
  <2> QED BY <2>1 DEF Leaf, Nodes
<1> HIDE DEF x
<1>3. Spelled(s, {} \cup {} \cup {x}, x)
  BY <1>1 DEF Spelled
<1>4. {} \cup {} \cup {x} = {x}
  OBVIOUS
<1>5. x.from <= x.pos /\ x.pos < x.to
  BY <1>1
<1>6. Spells(s, {x}) /\ Binds(s, {x}) /\ \A t \in {x} : Inside(t, x.from, x.to)
  <2> DEFINE none == {}
  <2>1. /\ none \in SUBSET Nodes(s) /\ Spells(s, none) /\ Binds(s, none)
        /\ \A t \in none : Inside(t, x.from, x.pos) /\ Tighter(s, x, t)
        /\ \A t \in none : Inside(t, x.pos + 1, x.to) /\ Tighter(s, x, t)
        /\ Spelled(s, none \cup none \cup {x}, x)
        /\ none \cup none \cup {x} = {x}
    BY <1>3, NothingRead
  <2> HIDE DEF none
  <2>2. /\ Spells(s, none \cup none \cup {x}) /\ Binds(s, none \cup none \cup {x})
        /\ \A t \in none \cup none \cup {x} : Inside(t, x.from, x.to)
    BY <1>2, <1>5, <2>1, Joined
  <2> QED BY <2>1, <2>2
<1>7. LeftTight(s, x, x.from, minBP) /\ RightTight(s, x, x.to)
  BY <1>1 DEF LeftTight, RightTight
<1> QED BY <1>1, <1>2, <1>6, <1>7 DEF WellRead, x

\* A node before its operand.
LEMMA BeforeTree ==
  ASSUME NEW s, Len(s) \in Nat, NEW i \in 1 .. Len(s), NEW R, NEW right, NEW bp,
         WellRead(s, R, right, bp), right.from = i + 1,
         NEW x \in Nodes(s), x.pos = i, x.from = i, x.right = right.pos,
         \/ /\ x.kind = "prefix" /\ s[i] \in {"+", "-", "sqrt"} /\ x.to = right.to /\ bp = precUnary
            /\ Ends(s, x.to, precUnary)
         \/ /\ x.kind = "group" /\ s[i] \in {"(", "|"} /\ x.to = right.to + 1
            /\ s[right.to] = Closing(s[i]),
         NEW minBP
  PROVE  WellRead(s, R \cup {x}, x, minBP)
<1> DEFINE kind == x.kind
           to == x.to
<1>0. precUnary = 3
  BY DEF precUnary
<1>1. x.kind = kind /\ x.pos = i /\ x.from = i /\ x.to = to /\ x.right = right.pos
  OBVIOUS
<1>2. /\ R \subseteq Nodes(s) /\ right \in R /\ Spells(s, R) /\ Binds(s, R)
      /\ \A t \in R : Inside(t, right.from, right.to) /\ LeftTight(s, t, right.from, bp)
                      /\ RightTight(s, t, right.to)
  BY DEF WellRead
<1>3. /\ right.pos \in 1 .. Len(s) /\ right.to \in 1 .. Len(s) + 1 /\ right.from < right.to
      /\ right.from \in Int
  <2>1. right.pos \in 1 .. Len(s) /\ right.to \in 1 .. Len(s) + 1 /\ right.from \in 1 .. Len(s)
    BY <1>2, NodesAre
  <2>2. right.from <= right.pos /\ right.pos < right.to
    BY <1>2 DEF Inside
  <2> QED BY <2>1, <2>2
<1>4. to \in Int /\ right.to <= to /\ kind \in {"prefix", "group"}
  BY <1>3
<1>5. x \in Nodes(s)
  OBVIOUS
<1> DEFINE T == R \cup {x}
<1>6. Spelled(s, T, x)
  <2>1. Operand(T, x.right, x.pos + 1, right.to)
    BY <1>1, <1>2 DEF Operand
  <2>2. CASE kind = "prefix"
    BY <1>1, <2>1, <2>2 DEF Spelled
  <2>3. CASE kind = "group"
    <3>1. x.to - 1 = right.to
      BY <1>1, <1>3, <2>3
    <3> QED BY <1>1, <2>1, <2>3, <3>1 DEF Spelled
  <2> QED BY <1>4, <2>2, <2>3
<1>7. \A t \in R : Inside(t, x.pos + 1, x.to) /\ Tighter(s, x, t)
  <2> SUFFICES ASSUME NEW t \in R PROVE Inside(t, x.pos + 1, x.to) /\ Tighter(s, x, t)
    OBVIOUS
  <2>1. t.from \in Int /\ t.pos \in Int /\ t.to \in Int
    BY <1>2, NodesAre
  <2>2. i + 1 <= t.from /\ t.from <= t.pos /\ t.pos < t.to /\ t.to <= right.to
    BY <1>2 DEF Inside
  <2>3. Inside(t, x.pos + 1, x.to)
    BY <1>1, <1>3, <1>4, <2>1, <2>2 DEF Inside
  <2>4. t.to # x.pos
    BY <1>1, <2>1, <2>2
  <2>5. x.kind \in {"infix", "prefix"} /\ t.kind \in {"infix", "postfix"} /\ t.from = x.pos + 1 =>
          Level(s, t) > Level(s, x) \/ (Level(s, t) = Level(s, x) /\ s[x.pos] = "^")
    <3> SUFFICES ASSUME x.kind \in {"infix", "prefix"}, t.kind \in {"infix", "postfix"},
                        t.from = x.pos + 1
                 PROVE  Level(s, t) > Level(s, x) \/ (Level(s, t) = Level(s, x) /\ s[x.pos] = "^")
      OBVIOUS
    <3>1. kind = "prefix" /\ bp = 3
      BY <1>0, <1>1, <1>4
    <3>2. Level(s, t) \in 0 .. 5 /\ Level(s, t) > bp
      BY <1>1, <1>2 DEF LeftTight
    <3>3. RightBp(s, x) = 3
      BY <1>1, <3>1 DEF RightBp
    <3> QED BY <1>6, <3>1, <3>2, <3>3, TighterRight
  <2> QED BY <2>3, <2>4, <2>5 DEF Tighter
<1>8. Spells(s, T) /\ Binds(s, T) /\ \A t \in T : Inside(t, x.from, x.to)
  <2> DEFINE none == {}
  <2>1. /\ none \in SUBSET Nodes(s) /\ Spells(s, none) /\ Binds(s, none)
        /\ \A t \in none : Inside(t, x.from, x.pos) /\ Tighter(s, x, t)
        /\ none \cup R \cup {x} = T
    BY NothingRead
  <2> HIDE DEF none, T
  <2>2. x.from <= x.pos /\ x.pos < x.to
    BY <1>1, <1>3, <1>4
  <2>4. Spelled(s, none \cup R \cup {x}, x)
    BY <1>6, <2>1
  <2>3. /\ Spells(s, none \cup R \cup {x}) /\ Binds(s, none \cup R \cup {x})
        /\ \A t \in none \cup R \cup {x} : Inside(t, x.from, x.to)
    BY <1>2, <1>5, <1>7, <2>1, <2>2, <2>4, Joined
  <2> QED BY <2>1, <2>3
<1>9. \A t \in T : LeftTight(s, t, x.from, minBP) /\ RightTight(s, t, x.to)
  <2> SUFFICES ASSUME NEW t \in T PROVE LeftTight(s, t, x.from, minBP) /\ RightTight(s, t, x.to)
    OBVIOUS
  <2>1. CASE t = x
    <3>1. LeftTight(s, t, x.from, minBP)
      BY <1>1, <1>4, <2>1 DEF LeftTight
    <3>2. kind = "prefix" => Ends(s, x.to, RightBp(s, x))
      BY <1>0, <1>1 DEF RightBp
    <3> QED BY <1>1, <1>4, <2>1, <3>1, <3>2 DEF RightTight
  <2>2. CASE t \in R
    <3>1. t.from \in Int /\ t.to \in Int /\ i + 1 <= t.from /\ t.to <= right.to
      BY <1>2, <2>2, NodesAre DEF Inside
    <3>2. t.from # x.from
      BY <1>1, <3>1
    <3>3. RightTight(s, t, right.to)
      BY <1>2, <2>2
    <3>4. right.to = x.to \/ t.to # x.to
      BY <1>1, <1>3, <3>1
    <3> QED BY <3>2, <3>3, <3>4 DEF LeftTight, RightTight
  <2> QED BY <2>1, <2>2
<1>10. x \in T /\ T \subseteq Nodes(s)
  BY <1>2, <1>5
<1> QED BY <1>8, <1>9, <1>10 DEF WellRead

\* A postfix after its operand.
LEMMA PostfixTree ==
  ASSUME NEW s, Len(s) \in Nat, NEW i \in 1 .. Len(s), NEW A, NEW left, NEW minBP \in Bps,
         WellRead(s, A, left, minBP), left.to = i, s[i] \in {"!", "%"}, LeftOf(s, i) = 5, minBP < 5
  PROVE  /\ WellRead(s, A \cup {Postfix(left, i)}, Postfix(left, i), minBP)
         /\ Postfix(left, i) \in Nodes(s)
         /\ Postfix(left, i).from = left.from /\ Postfix(left, i).to = i + 1
<1> DEFINE x == Postfix(left, i)
<1>1. x.kind = "postfix" /\ x.pos = i /\ x.from = left.from /\ x.to = i + 1 /\ x.left = left.pos
  BY DEF Postfix
<1>2. /\ A \subseteq Nodes(s) /\ left \in A /\ Spells(s, A) /\ Binds(s, A)
      /\ \A t \in A : Inside(t, left.from, left.to) /\ LeftTight(s, t, left.from, minBP)
                      /\ RightTight(s, t, left.to)
  BY DEF WellRead
<1>3. left.pos \in 1 .. Len(s) /\ left.from \in 1 .. Len(s) /\ left.from < i
  <2>1. left.pos \in 1 .. Len(s) /\ left.from \in 1 .. Len(s)
    BY <1>2, NodesAre
  <2>2. left.from <= left.pos /\ left.pos < left.to
    BY <1>2 DEF Inside
  <2> QED BY <2>1, <2>2
<1>4. x \in Nodes(s)
  <2>1. i + 1 \in 1 .. Len(s) + 1 /\ 0 \in 0 .. Len(s) /\ left.pos \in 0 .. Len(s)
    BY <1>3
  <2> QED BY <1>3, <2>1 DEF Postfix, Nodes
<1> HIDE DEF x
<1> DEFINE T == A \cup {x}
<1>5. Spelled(s, T, x)
  <2>1. Operand(T, x.left, x.from, x.pos)
    BY <1>1, <1>2 DEF Operand
  <2> QED BY <1>1, <2>1 DEF Spelled
<1>6. Level(s, x) = 5
  BY <1>1 DEF Level
<1>7. \A t \in A : Inside(t, x.from, x.pos) /\ Tighter(s, x, t)
  <2> SUFFICES ASSUME NEW t \in A PROVE Inside(t, x.from, x.pos) /\ Tighter(s, x, t)
    OBVIOUS
  <2>1. Inside(t, x.from, x.pos)
    BY <1>1, <1>2
  <2>2. t.kind \in {"infix", "prefix"} /\ t.to = x.pos =>
          Level(s, t) > Level(s, x) \/ (Level(s, t) = Level(s, x) /\ s[x.pos] # "^")
    <3> SUFFICES ASSUME t.kind \in {"infix", "prefix"}, t.to = x.pos
                 PROVE  Level(s, t) > Level(s, x) \/ (Level(s, t) = Level(s, x) /\ s[x.pos] # "^")
      OBVIOUS
    <3>1. Ends(s, i, RightBp(s, t))
      BY <1>1, <1>2 DEF RightTight
    <3>2. ~(i > Len(s)) /\ s[i] \in Infixes
      BY DEF Infixes
    <3>3. Level(s, x) <= RightBp(s, t)
      BY <1>6, <3>1, <3>2 DEF Ends
    <3>4. Level(s, x) \in 0 .. 5 /\ s[x.pos] # "^"
      BY <1>1, <1>6
    <3>5. Spelled(s, A, t)
      BY <1>2 DEF Spells
    <3> QED BY <3>3, <3>4, <3>5, TighterLeft
  <2> QED BY <1>1, <2>1, <2>2 DEF Tighter
<1>8. Spells(s, T) /\ Binds(s, T) /\ \A t \in T : Inside(t, x.from, x.to)
  <2> DEFINE none == {}
  <2>1. /\ none \in SUBSET Nodes(s) /\ Spells(s, none) /\ Binds(s, none)
        /\ \A t \in none : Inside(t, x.pos + 1, x.to) /\ Tighter(s, x, t)
        /\ A \cup none \cup {x} = T
    BY NothingRead
  <2> HIDE DEF none, T
  <2>2. x.from <= x.pos /\ x.pos < x.to
    BY <1>1, <1>3
  <2>4. Spelled(s, A \cup none \cup {x}, x)
    BY <1>5, <2>1
  <2>3. /\ Spells(s, A \cup none \cup {x}) /\ Binds(s, A \cup none \cup {x})
        /\ \A t \in A \cup none \cup {x} : Inside(t, x.from, x.to)
    BY <1>2, <1>4, <1>7, <2>1, <2>2, <2>4, Joined
  <2> QED BY <2>1, <2>3
<1>9. \A t \in T : LeftTight(s, t, x.from, minBP) /\ RightTight(s, t, x.to)
  <2> SUFFICES ASSUME NEW t \in T PROVE LeftTight(s, t, x.from, minBP) /\ RightTight(s, t, x.to)
    OBVIOUS
  <2>1. CASE t = x
    <3>1. Level(s, x) \in 0 .. 5 /\ Level(s, x) > minBP
      BY <1>6
    <3> QED BY <1>1, <2>1, <3>1 DEF LeftTight, RightTight
  <2>2. CASE t \in A
    <3>1. LeftTight(s, t, x.from, minBP)
      BY <1>1, <1>2, <2>2
    <3>2. t.to \in Int /\ t.to <= i
      BY <1>2, <2>2, NodesAre DEF Inside
    <3>3. t.to # x.to
      BY <1>1, <3>2
    <3> QED BY <3>1, <3>3 DEF RightTight
  <2> QED BY <2>1, <2>2
<1>10. x \in T /\ T \subseteq Nodes(s)
  BY <1>2, <1>4
<1> QED BY <1>1, <1>4, <1>8, <1>9, <1>10 DEF WellRead, x

\* A token with two operands that binds tighter than minBP.
Binary(s, i, minBP, bp) ==
  /\ s[i] \in {"+", "-", "*", "%", "^", "C"} /\ LeftOf(s, i) = InfixBp[s[i]].left
  /\ LeftOf(s, i) > minBP /\ bp = InfixBp[s[i]].right

\* An operation between its operands.
LEMMA InfixTree ==
  ASSUME NEW s, Len(s) \in Nat, NEW i \in Tokens(s), NEW A, NEW left, NEW minBP \in Bps,
         WellRead(s, A, left, minBP), left.to = i,
         NEW bp, Binary(s, i, minBP, bp), NEW B, NEW right, WellRead(s, B, right, bp),
         right.from = i + 1, Ends(s, right.to, bp)
  PROVE  /\ WellRead(s, A \cup B \cup {Infix(left, i, right)}, Infix(left, i, right), minBP)
         /\ Infix(left, i, right) \in Nodes(s)
         /\ Infix(left, i, right).from = left.from /\ Infix(left, i, right).to = right.to
<1> DEFINE x == Infix(left, i, right)
<1>0. /\ s[i] \in {"+", "-", "*", "%", "^", "C"} /\ LeftOf(s, i) = InfixBp[s[i]].left
      /\ LeftOf(s, i) > minBP /\ bp = InfixBp[s[i]].right /\ i \in 1 .. Len(s) /\ minBP \in 0 .. 5
  BY DEF Binary, Tokens, Bps
<1>1. x.kind = "infix" /\ x.pos = i /\ x.from = left.from /\ x.to = right.to
      /\ x.left = left.pos /\ x.right = right.pos
  BY DEF Infix
<1>2. /\ A \subseteq Nodes(s) /\ left \in A /\ Spells(s, A) /\ Binds(s, A)
      /\ \A t \in A : Inside(t, left.from, left.to) /\ LeftTight(s, t, left.from, minBP)
                      /\ RightTight(s, t, left.to)
  BY DEF WellRead
<1>3. /\ B \subseteq Nodes(s) /\ right \in B /\ Spells(s, B) /\ Binds(s, B)
      /\ \A t \in B : Inside(t, right.from, right.to) /\ LeftTight(s, t, right.from, bp)
                      /\ RightTight(s, t, right.to)
  BY DEF WellRead
<1>4. left.pos \in 1 .. Len(s) /\ left.from \in 1 .. Len(s) /\ left.from < i
  <2>1. left.pos \in 1 .. Len(s) /\ left.from \in 1 .. Len(s)
    BY <1>0, <1>2, NodesAre
  <2>2. left.from <= left.pos /\ left.pos < left.to
    BY <1>0, <1>2 DEF Inside
  <2> QED BY <1>0, <2>1, <2>2
<1>5. right.pos \in 1 .. Len(s) /\ right.to \in 1 .. Len(s) + 1 /\ i + 1 < right.to
  <2>1. right.pos \in 1 .. Len(s) /\ right.to \in 1 .. Len(s) + 1
    BY <1>0, <1>3, NodesAre
  <2>2. right.from <= right.pos /\ right.pos < right.to
    BY <1>0, <1>3 DEF Inside
  <2> QED BY <1>0, <2>1, <2>2
<1>6. x \in Nodes(s)
  <2>1. left.pos \in 0 .. Len(s) /\ right.pos \in 0 .. Len(s)
    BY <1>0, <1>4, <1>5
  <2> QED BY <1>0, <1>4, <1>5, <2>1 DEF Infix, Nodes
<1> HIDE DEF x
<1> DEFINE T == A \cup B \cup {x}
<1>7. Spelled(s, T, x)
  <2>1. Operand(T, x.left, x.from, x.pos)
    BY <1>0, <1>1, <1>2 DEF Operand
  <2>2. Operand(T, x.right, x.pos + 1, x.to)
    BY <1>0, <1>1, <1>3 DEF Operand
  <2> QED BY <1>0, <1>1, <2>1, <2>2 DEF Spelled
<1>8. Level(s, x) = LeftOf(s, i) /\ Level(s, x) \in 1 .. 5 /\ RightBp(s, x) = bp
      /\ (s[i] = "^" => Level(s, x) = 4)
  <2>1. Level(s, x) = InfixBp[s[i]].left
    <3>1. CASE s[i] \in {"+", "-"}
      BY <1>0, <1>1, <3>1, BindingPowers DEF Level
    <3>2. CASE s[i] \in {"*", "%"}
      BY <1>0, <1>1, <3>2, BindingPowers DEF Level
    <3>3. CASE s[i] = "^"
      BY <1>0, <1>1, <3>3, BindingPowers DEF Level
    <3>4. CASE s[i] = "C"
      BY <1>0, <1>1, <3>4, BindingPowers DEF Level
    <3> QED BY <1>0, <3>1, <3>2, <3>3, <3>4
  <2>2. InfixBp[s[i]].left \in 1 .. 5 /\ (s[i] = "^" => InfixBp[s[i]].left = 4)
    BY <1>0, BindingPowers DEF Infixes
  <2>3. RightBp(s, x) = bp
    BY <1>0, <1>1 DEF RightBp
  <2> QED BY <1>0, <2>1, <2>2, <2>3
<1>9. \A t \in A : Inside(t, x.from, x.pos) /\ Tighter(s, x, t)
  <2> SUFFICES ASSUME NEW t \in A PROVE Inside(t, x.from, x.pos) /\ Tighter(s, x, t)
    OBVIOUS
  <2>1. Inside(t, x.from, x.pos)
    BY <1>0, <1>1, <1>2
  <2>2. t.kind \in {"infix", "prefix"} /\ t.to = x.pos =>
          Level(s, t) > Level(s, x) \/ (Level(s, t) = Level(s, x) /\ s[x.pos] # "^")
    <3> SUFFICES ASSUME t.kind \in {"infix", "prefix"}, t.to = x.pos
                 PROVE  Level(s, t) > Level(s, x) \/ (Level(s, t) = Level(s, x) /\ s[x.pos] # "^")
      OBVIOUS
    <3>1. Ends(s, i, RightBp(s, t))
      BY <1>0, <1>1, <1>2 DEF RightTight
    <3>2. ~(i > Len(s)) /\ s[i] \in Infixes
      BY <1>0 DEF Infixes
    <3>3. Level(s, x) <= RightBp(s, t)
      BY <1>0, <1>8, <3>1, <3>2 DEF Ends
    <3>4. Level(s, x) \in 0 .. 5 /\ (s[x.pos] = "^" => Level(s, x) = 4)
      BY <1>0, <1>1, <1>8
    <3>5. Spelled(s, A, t)
      BY <1>0, <1>2 DEF Spells
    <3> QED BY <3>3, <3>4, <3>5, TighterLeft
  <2>3. t.from # x.pos + 1
    <3>1. t.from \in Int /\ t.to \in Int /\ t.pos \in Int /\ t.from <= t.pos /\ t.pos < t.to
          /\ t.to <= i
      BY <1>0, <1>2, NodesAre DEF Inside
    <3> QED BY <1>0, <1>1, <3>1
  <2> QED BY <2>1, <2>2, <2>3 DEF Tighter
<1>10. \A t \in B : Inside(t, x.pos + 1, x.to) /\ Tighter(s, x, t)
  <2> SUFFICES ASSUME NEW t \in B PROVE Inside(t, x.pos + 1, x.to) /\ Tighter(s, x, t)
    OBVIOUS
  <2>1. Inside(t, x.pos + 1, x.to)
    BY <1>0, <1>1, <1>3
  <2>2. t.to # x.pos
    <3>1. t.from \in Int /\ t.to \in Int /\ t.pos \in Int /\ t.from <= t.pos /\ t.pos < t.to
          /\ i + 1 <= t.from
      BY <1>0, <1>3, NodesAre DEF Inside
    <3> QED BY <1>0, <1>1, <3>1
  <2>3. t.kind \in {"infix", "postfix"} /\ t.from = x.pos + 1 =>
          Level(s, t) > Level(s, x) \/ (Level(s, t) = Level(s, x) /\ s[x.pos] = "^")
    <3> SUFFICES ASSUME t.kind \in {"infix", "postfix"}, t.from = x.pos + 1
                 PROVE  Level(s, t) > Level(s, x) \/ (Level(s, t) = Level(s, x) /\ s[x.pos] = "^")
      OBVIOUS
    <3>1. Level(s, t) \in 0 .. 5 /\ Level(s, t) > RightBp(s, x)
      BY <1>0, <1>1, <1>3, <1>8 DEF LeftTight
    <3>2. x.kind \in {"infix", "prefix"}
      BY <1>1
    <3> QED BY <1>7, <3>1, <3>2, TighterRight
  <2> QED BY <2>1, <2>2, <2>3 DEF Tighter
<1>11. Spells(s, T) /\ Binds(s, T) /\ \A t \in T : Inside(t, x.from, x.to)
  <2>1. x.from <= x.pos /\ x.pos < x.to
    BY <1>0, <1>1, <1>4, <1>5
  <2> QED BY <1>0, <1>2, <1>3, <1>6, <1>7, <1>9, <1>10, <2>1, Joined
<1>12. \A t \in T : LeftTight(s, t, x.from, minBP) /\ RightTight(s, t, x.to)
  <2> SUFFICES ASSUME NEW t \in T PROVE LeftTight(s, t, x.from, minBP) /\ RightTight(s, t, x.to)
    OBVIOUS
  <2>1. CASE t = x
    <3>1. Level(s, x) \in 0 .. 5 /\ Level(s, x) > minBP
      BY <1>0, <1>8
    <3>2. Ends(s, x.to, RightBp(s, x))
      BY <1>0, <1>1, <1>8
    <3> QED BY <1>0, <1>1, <2>1, <3>1, <3>2 DEF LeftTight, RightTight
  <2>2. CASE t \in A
    <3>1. LeftTight(s, t, x.from, minBP)
      BY <1>0, <1>1, <1>2, <2>2
    <3>2. t.to \in Int /\ t.to <= i
      BY <1>0, <1>2, <2>2, NodesAre DEF Inside
    <3>3. t.to # x.to
      BY <1>0, <1>1, <1>5, <3>2
    <3> QED BY <3>1, <3>3 DEF RightTight
  <2>3. CASE t \in B
    <3>1. RightTight(s, t, x.to)
      BY <1>0, <1>1, <1>3, <2>3
    <3>2. t.from \in Int /\ i + 1 <= t.from
      BY <1>0, <1>3, <2>3, NodesAre DEF Inside
    <3>3. t.from # x.from
      BY <1>0, <1>1, <1>4, <3>2
    <3> QED BY <3>1, <3>3 DEF LeftTight
  <2> QED BY <2>1, <2>2, <2>3
<1>13. x \in T /\ T \subseteq Nodes(s)
  BY <1>0, <1>2, <1>3, <1>6
<1> QED BY <1>0, <1>1, <1>6, <1>11, <1>12, <1>13 DEF WellRead, x

-----------------------------------------------------------------------------
(* What the parser reads                                                   *)

Forests(s) == SUBSET Nodes(s)

Read(s) == [ok : {TRUE}, nodes : Forests(s), root : Nodes(s), pos : Places(s)]
Results(s) == {ParseError} \cup Read(s)

\* What parseExpression has read from a token on.
ReadFrom(s, i, minBP, r) ==
  /\ i < r.pos /\ Ends(s, r.pos, minBP)
  /\ WellRead(s, r.nodes, r.root, minBP) /\ r.root.from = i /\ r.root.to = r.pos

\* What its loop makes of a left operand.
ReadOn(s, i, minBP, left, r) ==
  /\ i <= r.pos /\ Ends(s, r.pos, minBP)
  /\ \A T \in Forests(s) :
       WellRead(s, T, left, minBP) /\ left.to = i =>
         WellRead(s, T \cup r.nodes, r.root, minBP) /\ r.root.from = left.from /\ r.root.to = r.pos

ReadBy(s, c, r) ==
  IF c.left = NoNode THEN ReadFrom(s, c.at, c.minBP, r) ELSE ReadOn(s, c.at, c.minBP, c.left, r)

Reads(s, c) == {r \in Results(s) : r.ok => ReadBy(s, c, r)}

\* The calls from later tokens are right.
Earlier(s, i, parse) == \A d \in Calls(s) : d.at > i => parse[d] \in Reads(s, d)

\* The parts of a call.
LEMMA CallIs ==
  ASSUME NEW s, NEW at \in Places(s), NEW minBP \in Bps, NEW left \in Nodes(s) \cup {NoNode}
  PROVE  /\ Call(at, minBP, left) \in Calls(s)
         /\ Call(at, minBP, left).at = at /\ Call(at, minBP, left).minBP = minBP
         /\ Call(at, minBP, left).left = left
BY DEF Call, Calls, precLowest, precPostfix, Places, Bps

\* No node of an input is the one that stands for none.
LEMMA NoNodeIsNone ==
  ASSUME NEW s
  PROVE  NoNode \notin Nodes(s)
BY DEF NoNode, Nodes

\* The parts of a result.
LEMMA ResultsAre ==
  ASSUME NEW s, NEW r \in Results(s)
  PROVE  /\ r.ok \in BOOLEAN
         /\ r.ok => r.nodes \in Forests(s) /\ r.root \in Nodes(s) /\ r.pos \in Places(s)
<1>1. CASE r = ParseError
  BY <1>1 DEF ParseError
<1>2. CASE r \in Read(s)
  BY <1>2 DEF Read
<1> QED BY <1>1, <1>2 DEF Results

\* An error is a result.
LEMMA ErrorIs ==
  ASSUME NEW s
  PROVE  ParseError \in Results(s) /\ ParseError.ok = FALSE
BY DEF Results, ParseError

\* What has been read is a result.
LEMMA ParsedTyped ==
  ASSUME NEW s, NEW nodes \in Forests(s), NEW root \in Nodes(s), NEW pos \in Places(s)
  PROVE  Parsed(nodes, root, pos) \in Results(s)
<1>1. nodes \cup {root} \in Forests(s)
  BY DEF Forests
<1> QED BY <1>1 DEF Parsed, Results, Read

\* A call for an expression at a later token gives what is read from there.
LEMMA CalledFrom ==
  ASSUME NEW s, NEW i \in Int, NEW parse, Earlier(s, i, parse), NEW at \in Places(s), at > i,
         NEW minBP \in Bps
  PROVE  /\ parse[Call(at, minBP, NoNode)] \in Results(s)
         /\ parse[Call(at, minBP, NoNode)].ok =>
              ReadFrom(s, at, minBP, parse[Call(at, minBP, NoNode)])
<1> DEFINE c == Call(at, minBP, NoNode)
<1>1. c \in Calls(s) /\ c.at = at /\ c.minBP = minBP /\ c.left = NoNode
  BY CallIs
<1> HIDE DEF c
<1>2. parse[c] \in Reads(s, c)
  BY <1>1 DEF Earlier
<1>3. parse[c] \in Results(s) /\ (parse[c].ok => ReadBy(s, c, parse[c]))
  BY <1>2 DEF Reads
<1> QED BY <1>1, <1>3 DEF ReadBy, c

\* A call for the loop at a later token gives what is made of the left operand.
LEMMA CalledOn ==
  ASSUME NEW s, NEW i \in Int, NEW parse, Earlier(s, i, parse), NEW at \in Places(s), at > i,
         NEW minBP \in Bps, NEW left \in Nodes(s)
  PROVE  /\ parse[Call(at, minBP, left)] \in Results(s)
         /\ parse[Call(at, minBP, left)].ok =>
              ReadOn(s, at, minBP, left, parse[Call(at, minBP, left)])
<1> DEFINE c == Call(at, minBP, left)
<1>1. c \in Calls(s) /\ c.at = at /\ c.minBP = minBP /\ c.left = left /\ left # NoNode
  BY CallIs, NoNodeIsNone
<1> HIDE DEF c
<1>2. parse[c] \in Reads(s, c)
  BY <1>1 DEF Earlier
<1>3. parse[c] \in Results(s) /\ (parse[c].ok => ReadBy(s, c, parse[c]))
  BY <1>2 DEF Reads
<1> QED BY <1>1, <1>3 DEF ReadBy, c

\* A prefix and a bracket are nodes.
LEMMA BeforeTyped ==
  ASSUME NEW s, Len(s) \in Nat, NEW kind, kind \in {"prefix", "group"}, NEW i \in 1 .. Len(s),
         NEW right \in Nodes(s), NEW to \in Places(s)
  PROVE  Before(kind, i, right, to) \in Nodes(s)
<1>1. right.pos \in 0 .. Len(s) /\ 0 \in 0 .. Len(s) /\ i \in 1 .. Len(s) + 1
  BY NodesAre
<1> QED BY <1>1 DEF Before, Nodes, Places

\* A prefix is read as the tree of one operand, whatever is to bind it.
LEMMA PrefixRead ==
  ASSUME NEW s, Len(s) \in Nat, NEW i \in Places(s), NEW parse, Earlier(s, i, parse)
  PROVE  /\ ParsePrefix(s, i, parse) \in Results(s)
         /\ ParsePrefix(s, i, parse).ok =>
              /\ i < ParsePrefix(s, i, parse).pos
              /\ ParsePrefix(s, i, parse).root.from = i
              /\ ParsePrefix(s, i, parse).root.to = ParsePrefix(s, i, parse).pos
              /\ \A minBP \in Bps :
                   WellRead(s, ParsePrefix(s, i, parse).nodes, ParsePrefix(s, i, parse).root, minBP)
<1> DEFINE Good(l) == /\ l \in Results(s)
                      /\ l.ok => /\ i < l.pos /\ l.root.from = i /\ l.root.to = l.pos
                                 /\ \A minBP \in Bps : WellRead(s, l.nodes, l.root, minBP)
           l == ParsePrefix(s, i, parse)
<1>0. SUFFICES Good(l)
  OBVIOUS
<1>1. Good(ParseError)
  BY ErrorIs
<1>2. CASE i > Len(s)
  <2>1. l = ParseError
    BY <1>2 DEF ParsePrefix
  <2> QED BY <1>1, <2>1
<1>3. CASE i <= Len(s) /\ s[i] = "n"
  <2>1. l = Parsed({}, Leaf(i), i + 1)
    <3>1. ~(i > Len(s))
      BY <1>3 DEF Places
    <3> QED BY <1>3, <3>1 DEF ParsePrefix
  <2>7. i \in 1 .. Len(s)
    BY <1>3 DEF Places
  <2>2. Leaf(i) \in Nodes(s) /\ Leaf(i).from = i /\ Leaf(i).to = i + 1
        /\ \A minBP \in Bps : WellRead(s, {Leaf(i)}, Leaf(i), minBP)
    BY <1>3, <2>7, LeafTree
  <2>6. {} \in Forests(s) /\ i + 1 \in Places(s)
    BY <2>7 DEF Forests, Places
  <2> HIDE DEF l
  <2>8. l \in Results(s)
    BY <2>1, <2>2, <2>6, ParsedTyped
  <2>3. l.nodes = {} \cup {Leaf(i)} /\ l.root = Leaf(i) /\ l.pos = i + 1
    BY <2>1 DEF Parsed
  <2>4. {} \cup {Leaf(i)} = {Leaf(i)}
    OBVIOUS
  <2>5. l.nodes = {Leaf(i)} /\ i < l.pos
    BY <2>3, <2>4, <2>7
  <2> QED BY <2>2, <2>3, <2>5, <2>8
<1>4. CASE i <= Len(s) /\ s[i] # "n" /\ s[i] \notin prefixOps
  <2>1. l = ParseError
    BY <1>4 DEF ParsePrefix
  <2> QED BY <1>1, <2>1
<1>5. CASE i <= Len(s) /\ s[i] # "n" /\ s[i] \in prefixOps
  <2> DEFINE bp == PrefixBp(s[i])
             right == parse[Call(i + 1, bp, NoNode)]
             pre == Before("prefix", i, right.root, right.pos)
             group == Before("group", i, right.root, right.pos + 1)
  <2>1. bp \in Bps /\ i \in 1 .. Len(s) /\ i + 1 \in Places(s) /\ i + 1 > i
        /\ (bp = precUnary => s[i] \in {"+", "-", "sqrt"})
        /\ (bp # precUnary => s[i] \in {"(", "|"})
    BY <1>5 DEF PrefixBp, prefixOps, precLowest, precUnary, Bps, Places
  <2>2. right \in Results(s) /\ (right.ok => ReadFrom(s, i + 1, bp, right))
    <3> DEFINE at == i + 1
    <3>1. at \in Places(s) /\ at > i /\ i \in Int
      BY <2>1
    <3> HIDE DEF at, bp
    <3>2. /\ parse[Call(at, bp, NoNode)] \in Results(s)
          /\ parse[Call(at, bp, NoNode)].ok => ReadFrom(s, at, bp, parse[Call(at, bp, NoNode)])
      BY <2>1, <3>1, CalledFrom
    <3> QED BY <3>2 DEF at
  <2>3. l = IF ~right.ok THEN ParseError
            ELSE IF bp = precUnary THEN Parsed(right.nodes, pre, right.pos)
            ELSE IF right.pos <= Len(s) /\ s[right.pos] = Closing(s[i])
                 THEN Parsed(right.nodes, group, right.pos + 1)
            ELSE ParseError
    BY <1>5, <2>1 DEF ParsePrefix
  <2> HIDE DEF bp, right, pre, group, l
  <2>4. CASE ~right.ok
    BY <1>1, <2>3, <2>4
  <2>5. CASE right.ok
    <3>1. right.nodes \in Forests(s) /\ right.root \in Nodes(s) /\ right.pos \in Places(s)
      BY <2>2, <2>5, ResultsAre
    <3>2. /\ i + 1 < right.pos /\ Ends(s, right.pos, bp)
          /\ WellRead(s, right.nodes, right.root, bp)
          /\ right.root.from = i + 1 /\ right.root.to = right.pos
      BY <2>2, <2>5 DEF ReadFrom
    <3>3. CASE bp = precUnary
      <4>1. l = Parsed(right.nodes, pre, right.pos)
        BY <2>3, <2>5, <3>3
      <4>2. s[i] \in {"+", "-", "sqrt"} /\ right.pos = right.root.to
            /\ Ends(s, right.pos, precUnary)
        BY <2>1, <3>2, <3>3
      <4>9. pre = Before("prefix", i, right.root, right.pos)
        BY DEF pre
      <4>8. pre \in Nodes(s)
        BY <2>1, <3>1, <4>9, BeforeTyped
      <4>3. pre.kind = "prefix" /\ pre.pos = i /\ pre.from = i
            /\ pre.to = right.pos /\ pre.right = right.root.pos
        BY <4>9 DEF Before
      <4>4. \A minBP \in Bps : WellRead(s, right.nodes \cup {pre}, pre, minBP)
        BY <2>1, <3>2, <3>3, <4>2, <4>3, <4>8, BeforeTree
      <4>5. l \in Results(s)
        BY <3>1, <4>1, <4>8, ParsedTyped
      <4>6. l.nodes = right.nodes \cup {pre} /\ l.root = pre /\ l.pos = right.pos
        BY <4>1 DEF Parsed
      <4>7. i < l.pos
        BY <2>1, <3>1, <3>2, <4>6 DEF Places
      <4> QED BY <4>3, <4>4, <4>5, <4>6, <4>7
    <3>4. CASE bp # precUnary /\ right.pos <= Len(s) /\ s[right.pos] = Closing(s[i])
      <4> DEFINE to == right.pos + 1
      <4>1. l = Parsed(right.nodes, group, to)
        BY <2>3, <2>5, <3>4
      <4>2. s[i] \in {"(", "|"} /\ right.pos = right.root.to /\ s[right.root.to] = Closing(s[i])
        BY <2>1, <3>2, <3>4
      <4>8. to \in Places(s) /\ to = right.root.to + 1
        BY <3>1, <3>4, <4>2 DEF Places
      <4>9. group = Before("group", i, right.root, to)
        BY DEF group
      <4>10. i < to
        BY <2>1, <3>1, <3>2 DEF Places
      <4> HIDE DEF to
      <4>7. group \in Nodes(s)
        BY <2>1, <3>1, <4>8, <4>9, BeforeTyped
      <4>3. group.kind = "group" /\ group.pos = i /\ group.from = i
            /\ group.to = to /\ group.right = right.root.pos
        BY <4>9 DEF Before
      <4>4. \A minBP \in Bps : WellRead(s, right.nodes \cup {group}, group, minBP)
        BY <2>1, <3>2, <4>2, <4>3, <4>7, <4>8, BeforeTree
      <4>5. l \in Results(s)
        BY <3>1, <4>1, <4>7, <4>8, ParsedTyped
      <4>6. l.nodes = right.nodes \cup {group} /\ l.root = group /\ l.pos = to
        BY <4>1 DEF Parsed
      <4> QED BY <4>3, <4>4, <4>5, <4>6, <4>10
    <3>5. CASE bp # precUnary /\ ~(right.pos <= Len(s) /\ s[right.pos] = Closing(s[i]))
      <4>1. l = ParseError
        BY <2>3, <2>5, <3>5
      <4> QED BY <1>1, <4>1
    <3> QED BY <3>3, <3>4, <3>5
  <2>6. right.ok \in BOOLEAN
    BY <2>2, ResultsAre
  <2> QED BY <2>4, <2>5, <2>6
<1>6. i > Len(s) \/ i <= Len(s)
  BY DEF Places
<1> HIDE DEF l, Good
<1> QED BY <1>2, <1>3, <1>4, <1>5, <1>6

\* What the loop makes of what has been read so far.
ReadAfter(s, read, minBP, r) ==
  /\ read.pos <= r.pos /\ Ends(s, r.pos, minBP) /\ read.nodes \subseteq r.nodes
  /\ \A T \in Forests(s) :
       read.nodes \subseteq T /\ WellRead(s, T, read.root, minBP) /\ read.root.to = read.pos =>
         /\ WellRead(s, T \cup r.nodes, r.root, minBP)
         /\ r.root.from = read.root.from /\ r.root.to = r.pos

\* Going on with the loop makes a tree of what has been read.
LEMMA ContinueRead ==
  ASSUME NEW s, Len(s) \in Nat, NEW i \in Int, NEW parse, Earlier(s, i, parse), NEW minBP \in Bps,
         NEW read, read.nodes \in Forests(s), read.root \in Nodes(s), read.pos \in Places(s),
         read.pos > i
  PROVE  /\ Continue(parse, read, minBP) \in Results(s)
         /\ Continue(parse, read, minBP).ok =>
              ReadAfter(s, read, minBP, Continue(parse, read, minBP))
<1> DEFINE rest == parse[Call(read.pos, minBP, read.root)]
           r == Continue(parse, read, minBP)
<1>1. rest \in Results(s) /\ (rest.ok => ReadOn(s, read.pos, minBP, read.root, rest))
  BY CalledOn
<1>2. r = IF rest.ok THEN Parsed(read.nodes \cup rest.nodes, rest.root, rest.pos) ELSE ParseError
  BY DEF Continue
<1> HIDE DEF rest, r
<1>3. CASE rest.ok
  <2>1. rest.nodes \in Forests(s) /\ rest.root \in Nodes(s) /\ rest.pos \in Places(s)
    BY <1>1, <1>3, ResultsAre
  <2> DEFINE nodes == read.nodes \cup rest.nodes
  <2>2. nodes \in Forests(s)
    BY <2>1 DEF Forests
  <2>3. r = Parsed(nodes, rest.root, rest.pos)
    BY <1>2, <1>3
  <2>4. r \in Results(s)
    <3> HIDE DEF nodes
    <3> QED BY <2>1, <2>2, <2>3, ParsedTyped
  <2>5. r.nodes = nodes \cup {rest.root} /\ r.root = rest.root /\ r.pos = rest.pos
    BY <2>3 DEF Parsed
  <2>6. ReadOn(s, read.pos, minBP, read.root, rest)
    BY <1>1, <1>3
  <2>7. read.pos <= r.pos /\ Ends(s, r.pos, minBP) /\ read.nodes \subseteq r.nodes
    BY <2>5, <2>6 DEF ReadOn
  <2>8. ASSUME NEW T \in Forests(s), read.nodes \subseteq T, WellRead(s, T, read.root, minBP),
               read.root.to = read.pos
        PROVE  /\ WellRead(s, T \cup r.nodes, r.root, minBP)
               /\ r.root.from = read.root.from /\ r.root.to = r.pos
    <3>1. /\ WellRead(s, T \cup rest.nodes, rest.root, minBP)
          /\ rest.root.from = read.root.from /\ rest.root.to = rest.pos
      BY <2>6, <2>8 DEF ReadOn
    <3>2. rest.root \in T \cup rest.nodes
      BY <3>1 DEF WellRead
    <3>3. T \cup r.nodes = T \cup rest.nodes
      BY <2>5, <2>8, <3>2
    <3> QED BY <2>5, <3>1, <3>3
  <2> QED BY <2>4, <2>7, <2>8 DEF ReadAfter, r
<1>4. CASE ~rest.ok
  <2>1. r = ParseError
    BY <1>2, <1>4
  <2> QED BY <2>1, ErrorIs DEF r
<1> QED BY <1>3, <1>4

\* parseExpression reads a tree from its token on.
LEMMA ExpressionRead ==
  ASSUME NEW s, Len(s) \in Nat, NEW i \in Places(s), NEW parse, Earlier(s, i, parse),
         NEW minBP \in Bps
  PROVE  /\ ParseExpression(s, i, minBP, parse) \in Results(s)
         /\ ParseExpression(s, i, minBP, parse).ok =>
              ReadFrom(s, i, minBP, ParseExpression(s, i, minBP, parse))
<1> DEFINE left == ParsePrefix(s, i, parse)
           r == ParseExpression(s, i, minBP, parse)
<1>0. i \in 1 .. Len(s) + 1 /\ i \in Int
  BY DEF Places
<1>1. /\ left \in Results(s)
      /\ left.ok => /\ i < left.pos /\ left.root.from = i /\ left.root.to = left.pos
                    /\ WellRead(s, left.nodes, left.root, minBP)
  BY PrefixRead
<1>2. r = IF left.ok THEN Continue(parse, left, minBP) ELSE ParseError
  BY DEF ParseExpression
<1> HIDE DEF left, r
<1>3. CASE left.ok
  <2>1. left.nodes \in Forests(s) /\ left.root \in Nodes(s) /\ left.pos \in Places(s)
    BY <1>1, <1>3, ResultsAre
  <2>2. r = Continue(parse, left, minBP)
    BY <1>2, <1>3
  <2>6. left.pos > i /\ left.pos \in Int
    BY <1>0, <1>1, <1>3, <2>1 DEF Places
  <2>3. r \in Results(s) /\ (r.ok => ReadAfter(s, left, minBP, r))
    BY <1>0, <2>1, <2>2, <2>6, ContinueRead
  <2>4. ASSUME r.ok PROVE ReadFrom(s, i, minBP, r)
    <3>1. ReadAfter(s, left, minBP, r) /\ r.pos \in Places(s)
      BY <2>3, <2>4, ResultsAre
    <3>2. /\ WellRead(s, left.nodes \cup r.nodes, r.root, minBP)
          /\ r.root.from = left.root.from /\ r.root.to = r.pos
      BY <1>1, <1>3, <2>1, <3>1 DEF ReadAfter
    <3>3. left.nodes \cup r.nodes = r.nodes
      BY <3>1 DEF ReadAfter
    <3>4. left.pos <= r.pos /\ Ends(s, r.pos, minBP)
      BY <3>1 DEF ReadAfter
    <3>5. i < r.pos
      BY <1>0, <2>6, <3>1, <3>4 DEF Places
    <3> QED BY <1>1, <1>3, <3>2, <3>3, <3>4, <3>5 DEF ReadFrom
  <2> QED BY <2>3, <2>4 DEF r
<1>4. CASE ~left.ok
  <2>1. r = ParseError
    BY <1>2, <1>4
  <2> QED BY <2>1, ErrorIs DEF r
<1> QED BY <1>3, <1>4

\* The loop of parseExpression makes a tree of its left operand.
LEMMA RestRead ==
  ASSUME NEW s, Len(s) \in Nat, NEW i \in Places(s), NEW parse, Earlier(s, i, parse),
         NEW minBP \in Bps, NEW left \in Nodes(s)
  PROVE  /\ ParseRest(s, left, i, minBP, parse) \in Results(s)
         /\ ParseRest(s, left, i, minBP, parse).ok =>
              ReadOn(s, i, minBP, left, ParseRest(s, left, i, minBP, parse))
<1> DEFINE percent == IsPercent(s, i)
           bp == IF percent THEN PercentBp ELSE InfixBp[s[i]]
           right == parse[Call(i + 1, bp.right, NoNode)]
           post == Postfix(left, i)
           infix == Infix(left, i, right.root)
           r == ParseRest(s, left, i, minBP, parse)
           Good == r \in Results(s) /\ (r.ok => ReadOn(s, i, minBP, left, r))
<1>0. SUFFICES Good
  OBVIOUS
<1>1. i \in Int /\ i \in 1 .. Len(s) + 1
  BY DEF Places
<1>2. r = IF i > Len(s) \/ s[i] \notin Infixes THEN Parsed({}, left, i)
          ELSE IF bp.left <= minBP THEN Parsed({}, left, i)
          ELSE IF percent \/ s[i] = "!" THEN Continue(parse, Parsed({}, post, i + 1), minBP)
          ELSE IF right.ok
               THEN Continue(parse, Parsed(right.nodes, infix, right.pos), minBP)
          ELSE ParseError
  BY BindingPowers DEF ParseRest
<1>3. s[i] \in Infixes => bp.left = LeftOf(s, i) /\ bp.left \in 1 .. 5 /\ bp.right \in Bps
  <2>1. CASE percent
    <3>1. bp = PercentBp
      BY <2>1
    <3>2. PercentBp.left = 5 /\ PercentBp.right = 5 /\ 5 \in 1 .. 5 /\ 5 \in Bps /\ precPostfix = 5
      BY DEF PercentBp, precPostfix, Bps
    <3> QED BY <2>1, <3>1, <3>2 DEF LeftOf
  <2>2. CASE ~percent
    <3>1. bp = InfixBp[s[i]]
      BY <2>2
    <3>2. s[i] \in Infixes => InfixBp[s[i]].left \in 1 .. 5 /\ InfixBp[s[i]].right \in 0 .. 5
      BY BindingPowers
    <3> QED BY <2>2, <3>1, <3>2 DEF LeftOf, Bps
  <2> QED BY <2>1, <2>2
<1> HIDE DEF percent, r
<1>4. ASSUME Ends(s, i, minBP), r = Parsed({}, left, i) PROVE Good
  <2>1. {} \in Forests(s)
    BY DEF Forests
  <2>2. r \in Results(s)
    BY <1>4, <2>1, ParsedTyped
  <2>3. r.nodes = {} \cup {left} /\ r.root = left /\ r.pos = i
    BY <1>4 DEF Parsed
  <2>4. i <= r.pos
    BY <1>1, <2>3
  <2>5. ASSUME NEW T \in Forests(s), WellRead(s, T, left, minBP), left.to = i
        PROVE  WellRead(s, T \cup r.nodes, r.root, minBP) /\ r.root.to = r.pos
    <3>1. left \in T
      BY <2>5 DEF WellRead
    <3>2. T \cup r.nodes = T
      BY <2>3, <3>1
    <3> QED BY <2>3, <2>5, <3>2
  <2> QED BY <1>4, <2>2, <2>3, <2>4, <2>5 DEF ReadOn
<1>5. CASE i > Len(s) \/ s[i] \notin Infixes
  <2>1. Ends(s, i, minBP)
    BY <1>5 DEF Ends
  <2> QED BY <1>2, <1>4, <1>5, <2>1
<1>6. CASE ~(i > Len(s)) /\ s[i] \in Infixes /\ bp.left <= minBP
  <2>1. Ends(s, i, minBP)
    BY <1>3, <1>6 DEF Ends
  <2> QED BY <1>2, <1>4, <1>6, <2>1
<1>7. CASE ~(i > Len(s)) /\ s[i] \in Infixes /\ ~(bp.left <= minBP)
  <2>1. i \in 1 .. Len(s) /\ i + 1 \in Places(s) /\ minBP \in 0 .. 5 /\ LeftOf(s, i) > minBP
        /\ LeftOf(s, i) \in 1 .. 5 /\ i + 1 > i
    BY <1>1, <1>3, <1>7 DEF Places, Bps
  <2>2. CASE percent \/ s[i] = "!"
    <3> DEFINE at == i + 1
               read == Parsed({}, post, at)
    <3>1. r = Continue(parse, read, minBP)
      BY <1>2, <1>7, <2>2
    <3>2. s[i] \in {"!", "%"} /\ LeftOf(s, i) = 5
      BY <2>2, BindingPowers DEF percent, IsPercent, LeftOf
    <3>3. minBP < 5
      BY <2>1, <3>2
    <3> HIDE DEF post
    <3>4. \A T \in Forests(s) : WellRead(s, T, left, minBP) /\ left.to = i =>
            WellRead(s, T \cup {post}, post, minBP) /\ post.from = left.from /\ post.to = at
      <4> SUFFICES ASSUME NEW T \in Forests(s), WellRead(s, T, left, minBP), left.to = i
                   PROVE  WellRead(s, T \cup {post}, post, minBP) /\ post.from = left.from
                          /\ post.to = at
        OBVIOUS
      <4>1. /\ WellRead(s, T \cup {Postfix(left, i)}, Postfix(left, i), minBP)
            /\ Postfix(left, i).from = left.from /\ Postfix(left, i).to = i + 1
        BY <2>1, <3>2, <3>3, PostfixTree
      <4> QED BY <4>1 DEF post
    <3>5. post \in Nodes(s)
      <4>1. left.pos \in 0 .. Len(s) /\ left.from \in 1 .. Len(s) /\ 0 \in 0 .. Len(s)
            /\ i + 1 \in 1 .. Len(s) + 1
        BY <2>1, NodesAre
      <4> QED BY <2>1, <4>1 DEF post, Postfix, Nodes
    <3>6. read.nodes = {post} /\ read.root = post /\ read.pos = at
      BY DEF Parsed
    <3>7. at \in Places(s) /\ at > i /\ at \in Int
      BY <1>1, <2>1
    <3>8. {post} \in Forests(s)
      BY <3>5 DEF Forests
    <3> HIDE DEF at, read
    <3>9. r \in Results(s) /\ (r.ok => ReadAfter(s, read, minBP, r))
      BY <1>1, <3>1, <3>5, <3>6, <3>7, <3>8, ContinueRead
    <3>10. ASSUME r.ok PROVE ReadOn(s, i, minBP, left, r)
      <4>1. ReadAfter(s, read, minBP, r) /\ r.pos \in Places(s)
        BY <3>9, <3>10, ResultsAre
      <4>2. at <= r.pos /\ Ends(s, r.pos, minBP) /\ {post} \subseteq r.nodes
        BY <3>6, <4>1 DEF ReadAfter
      <4>3. i <= r.pos
        BY <1>1, <3>7, <4>1, <4>2 DEF Places
      <4>4. ASSUME NEW T \in Forests(s), WellRead(s, T, left, minBP), left.to = i
            PROVE  /\ WellRead(s, T \cup r.nodes, r.root, minBP) /\ r.root.from = left.from
                   /\ r.root.to = r.pos
        <5> DEFINE U == T \cup {post}
        <5>1. U \in Forests(s) /\ read.nodes \subseteq U
          BY <3>5, <3>6 DEF Forests
        <5>2. WellRead(s, U, read.root, minBP) /\ read.root.to = read.pos
              /\ read.root.from = left.from
          BY <3>4, <3>6, <4>4
        <5>3. U \cup r.nodes = T \cup r.nodes
          BY <4>2
        <5> HIDE DEF U
        <5>4. /\ WellRead(s, U \cup r.nodes, r.root, minBP)
              /\ r.root.from = read.root.from /\ r.root.to = r.pos
          BY <4>1, <5>1, <5>2 DEF ReadAfter
        <5> QED BY <5>2, <5>3, <5>4
      <4> QED BY <4>2, <4>3, <4>4 DEF ReadOn
    <3> QED BY <3>9, <3>10
  <2>3. CASE ~(percent \/ s[i] = "!")
    <3>1. s[i] \in {"+", "-", "*", "%", "^", "C"} /\ LeftOf(s, i) = InfixBp[s[i]].left
          /\ bp = InfixBp[s[i]]
      BY <1>7, <2>3 DEF Infixes, LeftOf, percent
    <3> DEFINE rbp == InfixBp[s[i]].right
               at == i + 1
    <3>2. rbp \in Bps /\ bp.right = rbp
      BY <1>3, <1>7, <3>1
    <3>3. at \in Places(s) /\ at > i
      BY <2>1
    <3>4. right = parse[Call(at, rbp, NoNode)]
      BY <3>2
    <3> HIDE DEF bp, right, infix, at
    <3>5. right \in Results(s) /\ (right.ok => ReadFrom(s, at, rbp, right))
      <4> HIDE DEF rbp
      <4> QED BY <1>1, <3>2, <3>3, <3>4, CalledFrom
    <3>6. CASE ~right.ok
      <4>1. r = ParseError
        BY <1>2, <1>7, <2>3, <3>6
      <4> QED BY <4>1, ErrorIs
    <3>7. CASE right.ok
      <4>1. right.nodes \in Forests(s) /\ right.root \in Nodes(s) /\ right.pos \in Places(s)
        BY <3>5, <3>7, ResultsAre
      <4>2. /\ at < right.pos /\ Ends(s, right.pos, rbp)
            /\ WellRead(s, right.nodes, right.root, rbp)
            /\ right.root.from = at /\ right.root.to = right.pos
        BY <3>5, <3>7 DEF ReadFrom
      <4> DEFINE read == Parsed(right.nodes, infix, right.pos)
      <4>3. r = Continue(parse, read, minBP)
        BY <1>2, <1>7, <2>3, <3>7
      <4>4. \A T \in Forests(s) : WellRead(s, T, left, minBP) /\ left.to = i =>
              /\ WellRead(s, T \cup right.nodes \cup {infix}, infix, minBP)
              /\ infix.from = left.from /\ infix.to = right.pos
        <5>1. right.root.from = i + 1 /\ Ends(s, right.root.to, rbp)
          BY <4>2 DEF at
        <5> SUFFICES ASSUME NEW T \in Forests(s), WellRead(s, T, left, minBP), left.to = i
                     PROVE  /\ WellRead(s, T \cup right.nodes \cup {infix}, infix, minBP)
                            /\ infix.from = left.from /\ infix.to = right.pos
          OBVIOUS
        <5> DEFINE B == right.nodes
                   u == right.root
        <5>2. WellRead(s, B, u, rbp) /\ u.from = i + 1 /\ Ends(s, u.to, rbp)
          BY <4>2, <5>1
        <5>4. Binary(s, i, minBP, rbp) /\ i \in Tokens(s)
          BY <2>1, <3>1 DEF Binary, Tokens
        <5> HIDE DEF B, u, rbp
        <5>3. WellRead(s, T \cup B \cup {Infix(left, i, u)}, Infix(left, i, u), minBP)
          BY <5>2, <5>4, InfixTree
        <5>5. infix.from = left.from /\ infix.to = right.root.to
          BY DEF infix, Infix
        <5> QED BY <4>2, <5>3, <5>5 DEF infix, B, u
      <4>5. infix \in Nodes(s)
        <5>1. left.pos \in 0 .. Len(s) /\ left.from \in 1 .. Len(s)
          BY NodesAre
        <5>2. right.root.pos \in 0 .. Len(s) /\ right.root.to \in 1 .. Len(s) + 1
          BY <4>1, NodesAre
        <5> QED BY <2>1, <5>1, <5>2 DEF infix, Infix, Nodes
      <4>6. read.nodes = right.nodes \cup {infix} /\ read.root = infix /\ read.pos = right.pos
        BY DEF Parsed
      <4>7. read.nodes \in Forests(s)
        BY <4>1, <4>5, <4>6 DEF Forests
      <4>8. right.pos > i /\ right.pos \in Int
        BY <1>1, <3>3, <4>1, <4>2 DEF Places
      <4> HIDE DEF read
      <4>9. r \in Results(s) /\ (r.ok => ReadAfter(s, read, minBP, r))
        BY <1>1, <4>1, <4>3, <4>5, <4>6, <4>7, <4>8, ContinueRead
      <4>10. ASSUME r.ok PROVE ReadOn(s, i, minBP, left, r)
        <5>1. ReadAfter(s, read, minBP, r) /\ r.pos \in Places(s)
          BY <4>9, <4>10, ResultsAre
        <5>2. right.pos <= r.pos /\ Ends(s, r.pos, minBP) /\ read.nodes \subseteq r.nodes
          BY <4>6, <5>1 DEF ReadAfter
        <5>3. i <= r.pos
          BY <1>1, <4>8, <5>1, <5>2 DEF Places
        <5>4. ASSUME NEW T \in Forests(s), WellRead(s, T, left, minBP), left.to = i
              PROVE  /\ WellRead(s, T \cup r.nodes, r.root, minBP) /\ r.root.from = left.from
                     /\ r.root.to = r.pos
          <6> DEFINE U == T \cup right.nodes \cup {infix}
          <6>1. U \in Forests(s) /\ read.nodes \subseteq U
            BY <4>1, <4>5, <4>6 DEF Forests
          <6>2. WellRead(s, U, read.root, minBP) /\ read.root.to = read.pos
                /\ read.root.from = left.from
            BY <4>4, <4>6, <5>4
          <6>3. U \cup r.nodes = T \cup r.nodes
            BY <4>6, <5>2
          <6> HIDE DEF U
          <6>4. /\ WellRead(s, U \cup r.nodes, r.root, minBP)
                /\ r.root.from = read.root.from /\ r.root.to = r.pos
            BY <5>1, <6>1, <6>2 DEF ReadAfter
          <6> QED BY <6>2, <6>3, <6>4
        <5> QED BY <5>2, <5>3, <5>4 DEF ReadOn
      <4> QED BY <4>9, <4>10
    <3> QED BY <3>6, <3>7
  <2> QED BY <2>2, <2>3
<1> HIDE DEF Good, bp
<1> QED BY <1>5, <1>6, <1>7

\* RatOne call, by what the calls from later tokens give.
CallBody(s, c, parse) ==
  IF c.left = NoNode THEN ParseExpression(s, c.at, c.minBP, parse)
  ELSE ParseRest(s, c.left, c.at, c.minBP, parse)

\* The parts of a call that is made.
LEMMA CallsAre ==
  ASSUME NEW s, NEW c \in Calls(s)
  PROVE  c.at \in Places(s) /\ c.minBP \in Bps /\ c.left \in Nodes(s) \cup {NoNode}
BY DEF Calls, Places, Bps, precLowest, precPostfix

\* A call reads what is written, if those from later tokens do.
LEMMA BodyRead ==
  ASSUME NEW s, Len(s) \in Nat, NEW c \in Calls(s), NEW parse, Earlier(s, c.at, parse)
  PROVE  CallBody(s, c, parse) \in Reads(s, c)
<1> DEFINE at == c.at
           minBP == c.minBP
           left == c.left
           r == CallBody(s, c, parse)
<1>1. at \in Places(s) /\ minBP \in Bps /\ left \in Nodes(s) \cup {NoNode} /\ Earlier(s, at, parse)
  BY CallsAre
<1>2. SUFFICES r \in Results(s) /\ (r.ok => ReadBy(s, c, r))
  BY DEF Reads
<1>3. CASE left = NoNode
  <2>1. r = ParseExpression(s, at, minBP, parse)
    BY <1>3 DEF CallBody
  <2> HIDE DEF at, minBP, r
  <2>2. r \in Results(s) /\ (r.ok => ReadFrom(s, at, minBP, r))
    BY <1>1, <2>1, ExpressionRead
  <2> QED BY <1>3, <2>2 DEF ReadBy, at, minBP
<1>4. CASE left # NoNode
  <2>1. r = ParseRest(s, left, at, minBP, parse) /\ left \in Nodes(s)
    BY <1>1, <1>4 DEF CallBody
  <2> HIDE DEF at, minBP, r, left
  <2>2. r \in Results(s) /\ (r.ok => ReadOn(s, at, minBP, left, r))
    BY <1>1, <2>1, RestRead
  <2> QED BY <1>4, <2>2 DEF ReadBy, at, minBP, left
<1> QED BY <1>3, <1>4

Agree(s, i, g, h) == \A d \in Calls(s) : d.at > i => g[d] = h[d]

\* Two parsers that agree on later tokens give the same for such a call.
LEMMA AgreeAt ==
  ASSUME NEW s, NEW i, NEW g, NEW h, Agree(s, i, g, h),
         NEW at \in Places(s), at > i, NEW minBP \in Bps,
         NEW left \in Nodes(s) \cup {NoNode}
  PROVE  g[Call(at, minBP, left)] = h[Call(at, minBP, left)]
<1> DEFINE c == Call(at, minBP, left)
<1>1. c \in Calls(s) /\ c.at = at
  BY CallIs
<1> HIDE DEF c
<1> QED BY <1>1 DEF Agree, c

\* A prefix is read by calls from later tokens only.
LEMMA PrefixAgrees ==
  ASSUME NEW s, Len(s) \in Nat, NEW i \in Places(s), NEW g, NEW h, Agree(s, i, g, h)
  PROVE  ParsePrefix(s, i, g) = ParsePrefix(s, i, h)
<1>1. CASE i > Len(s)
  BY <1>1 DEF ParsePrefix
<1>2. CASE i <= Len(s) /\ s[i] \notin prefixOps
  <2>1. ~(i > Len(s))
    BY <1>2 DEF Places
  <2> QED BY <1>2, <2>1 DEF ParsePrefix
<1>3. CASE i <= Len(s) /\ s[i] \in prefixOps
  <2> DEFINE bp == PrefixBp(s[i])
             at == i + 1
  <2>1. bp \in Bps /\ at \in Places(s) /\ at > i /\ NoNode \in Nodes(s) \cup {NoNode}
    BY <1>3 DEF PrefixBp, precLowest, precUnary, Bps, Places
  <2> HIDE DEF bp, at
  <2>2. g[Call(at, bp, NoNode)] = h[Call(at, bp, NoNode)]
    BY <2>1, AgreeAt
  <2> QED BY <2>2 DEF ParsePrefix, bp, at
<1>4. i > Len(s) \/ i <= Len(s)
  BY DEF Places
<1> QED BY <1>1, <1>2, <1>3, <1>4

\* The loop goes on at a later token.
LEMMA ContinueAgrees ==
  ASSUME NEW s, NEW i, NEW g, NEW h, Agree(s, i, g, h), NEW minBP \in Bps,
         NEW read, read.pos \in Places(s), read.pos > i, read.root \in Nodes(s)
  PROVE  Continue(g, read, minBP) = Continue(h, read, minBP)
<1>1. g[Call(read.pos, minBP, read.root)] = h[Call(read.pos, minBP, read.root)]
  BY AgreeAt
<1> QED BY <1>1 DEF Continue

\* An expression is read by calls from later tokens only.
LEMMA ExpressionAgrees ==
  ASSUME NEW s, Len(s) \in Nat, NEW i \in Places(s), NEW minBP \in Bps, NEW g, NEW h,
         Earlier(s, i, g), Agree(s, i, g, h)
  PROVE  ParseExpression(s, i, minBP, g) = ParseExpression(s, i, minBP, h)
<1> DEFINE left == ParsePrefix(s, i, g)
<1>1. left = ParsePrefix(s, i, h)
  BY PrefixAgrees
<1>2. left \in Results(s) /\ (left.ok => i < left.pos)
  BY PrefixRead
<1> HIDE DEF left
<1>3. CASE left.ok
  <2>1. left.root \in Nodes(s) /\ left.pos \in Places(s)
    BY <1>2, <1>3, ResultsAre
  <2>2. left.pos > i
    BY <1>2, <1>3, <2>1 DEF Places
  <2>3. Continue(g, left, minBP) = Continue(h, left, minBP)
    BY <2>1, <2>2, ContinueAgrees
  <2> QED BY <1>1, <2>3 DEF ParseExpression, left
<1>4. CASE ~left.ok
  BY <1>1, <1>4 DEF ParseExpression, left
<1> QED BY <1>3, <1>4

\* The loop is read by calls from later tokens only.
LEMMA RestAgrees ==
  ASSUME NEW s, Len(s) \in Nat, NEW i \in Places(s), NEW minBP \in Bps, NEW left \in Nodes(s),
         NEW g, NEW h, Earlier(s, i, g), Agree(s, i, g, h)
  PROVE  ParseRest(s, left, i, minBP, g) = ParseRest(s, left, i, minBP, h)
<1> DEFINE percent == IsPercent(s, i)
           bp == IF percent THEN PercentBp ELSE InfixBp[s[i]]
           at == i + 1
           right == g[Call(at, bp.right, NoNode)]
           post == Parsed({}, Postfix(left, i), at)
           infix == Parsed(right.nodes, Infix(left, i, right.root), right.pos)
<1>1. CASE i > Len(s) \/ s[i] \notin DOMAIN InfixBp
  BY <1>1 DEF ParseRest
<1>2. CASE ~(i > Len(s)) /\ s[i] \in DOMAIN InfixBp
  <2>1. i \in 1 .. Len(s) /\ at \in Places(s) /\ at > i
        /\ NoNode \in Nodes(s) \cup {NoNode} /\ i \in Int
    BY <1>2 DEF Places
  <2>2. bp.right \in Bps
    BY <1>2, BindingPowers DEF PercentBp, precPostfix, Bps
  <2>3. right = h[Call(at, bp.right, NoNode)]
    <3> HIDE DEF at, bp
    <3> QED BY <2>1, <2>2, AgreeAt
  <2>4. Continue(g, post, minBP) = Continue(h, post, minBP)
    <3>1. Postfix(left, i) \in Nodes(s)
      <4>1. left.pos \in 0 .. Len(s) /\ left.from \in 1 .. Len(s) /\ 0 \in 0 .. Len(s)
            /\ i + 1 \in 1 .. Len(s) + 1
        BY <2>1, NodesAre
      <4> QED BY <2>1, <4>1 DEF Postfix, Nodes
    <3>2. post.pos = at /\ post.root = Postfix(left, i)
      BY DEF Parsed
    <3> HIDE DEF post, at
    <3> QED BY <2>1, <3>1, <3>2, ContinueAgrees
  <2>5. right.ok => Continue(g, infix, minBP) = Continue(h, infix, minBP)
    <3> SUFFICES ASSUME right.ok PROVE Continue(g, infix, minBP) = Continue(h, infix, minBP)
      OBVIOUS
    <3>1. right \in Results(s) /\ ReadFrom(s, at, bp.right, right)
      <4> HIDE DEF at, bp
      <4>1. /\ g[Call(at, bp.right, NoNode)] \in Results(s)
            /\ g[Call(at, bp.right, NoNode)].ok =>
                 ReadFrom(s, at, bp.right, g[Call(at, bp.right, NoNode)])
        BY <2>1, <2>2, CalledFrom
      <4> QED BY <4>1
    <3> HIDE DEF right, at, bp
    <3>2. right.root \in Nodes(s) /\ right.pos \in Places(s)
      BY <3>1, ResultsAre
    <3>3. at < right.pos /\ WellRead(s, right.nodes, right.root, bp.right)
      BY <3>1 DEF ReadFrom
    <3>4. right.pos > i
      BY <2>1, <3>2, <3>3 DEF Places
    <3>5. Infix(left, i, right.root) \in Nodes(s)
      <4>1. left.pos \in 0 .. Len(s) /\ left.from \in 1 .. Len(s)
        BY NodesAre
      <4>2. right.root.pos \in 0 .. Len(s) /\ right.root.to \in 1 .. Len(s) + 1
        BY <3>2, NodesAre
      <4> QED BY <2>1, <4>1, <4>2 DEF Infix, Nodes
    <3>6. infix.pos = right.pos /\ infix.root = Infix(left, i, right.root)
      BY DEF Parsed
    <3> HIDE DEF infix
    <3> QED BY <3>2, <3>4, <3>5, <3>6, ContinueAgrees
  <2>6. ParseRest(s, left, i, minBP, g) =
          IF bp.left <= minBP THEN Parsed({}, left, i)
          ELSE IF percent \/ s[i] = "!" THEN Continue(g, post, minBP)
          ELSE IF right.ok THEN Continue(g, infix, minBP) ELSE ParseError
    BY <1>2 DEF ParseRest
  <2>7. ParseRest(s, left, i, minBP, h) =
          IF bp.left <= minBP THEN Parsed({}, left, i)
          ELSE IF percent \/ s[i] = "!" THEN Continue(h, post, minBP)
          ELSE IF right.ok THEN Continue(h, infix, minBP) ELSE ParseError
    <3> HIDE DEF right
    <3> QED BY <1>2, <2>3 DEF ParseRest
  <2> HIDE DEF bp, percent, right, post, infix
  <2> QED BY <2>4, <2>5, <2>6, <2>7
<1> QED BY <1>1, <1>2

\* What a call gives depends on the calls from later tokens only.
LEMMA BodyAgrees ==
  ASSUME NEW s, Len(s) \in Nat, NEW c \in Calls(s), NEW g, NEW h, Earlier(s, c.at, g),
         Agree(s, c.at, g, h)
  PROVE  CallBody(s, c, g) = CallBody(s, c, h)
<1> DEFINE at == c.at
           minBP == c.minBP
           left == c.left
<1>1. at \in Places(s) /\ minBP \in Bps /\ left \in Nodes(s) \cup {NoNode} /\ Earlier(s, at, g)
      /\ Agree(s, at, g, h)
  BY CallsAre
<1> HIDE DEF at, minBP, left
<1>2. CASE left = NoNode
  <2>1. ParseExpression(s, at, minBP, g) = ParseExpression(s, at, minBP, h)
    BY <1>1, ExpressionAgrees
  <2> QED BY <1>2, <2>1 DEF CallBody, at, minBP, left
<1>3. CASE left # NoNode
  <2>1. ParseRest(s, left, at, minBP, g) = ParseRest(s, left, at, minBP, h)
    BY <1>1, <1>3, RestAgrees
  <2> QED BY <1>3, <2>1 DEF CallBody, at, minBP, left
<1> QED BY <1>2, <1>3

\* The parser is what its definition says, and every call of it reads what is written.
LEMMA ParserIs ==
  ASSUME NEW s, Len(s) \in Nat
  PROVE  \A c \in Calls(s) :
           Parser(s)[c] = CallBody(s, c, Parser(s)) /\ Parser(s)[c] \in Reads(s, c)
<1> DEFINE A == Calls(s)
           U == Results(s)
           V == [c \in A |-> Reads(s, c)]
           m == [c \in A |-> Len(s) + 1 - c.at]
           G == [c \in A |-> [g \in [A -> U] |-> CallBody(s, c, g)]]
           Loop(g) == g = [c \in A |->
                             IF c.left = NoNode THEN ParseExpression(s, c.at, c.minBP, g)
                             ELSE ParseRest(s, c.left, c.at, c.minBP, g)]
           parser == CHOOSE g : Loop(g)
<1>1. Parser(s) = parser
  BY DEF Parser
<1>2. \A c \in A : c.at \in 1 .. Len(s) + 1
  BY CallsAre DEF Places
<1>3. m \in [A -> 0 .. Len(s)] /\ \A b, a \in A : m[b] < m[a] <=> b.at > a.at
  BY <1>2
<1>4. V \in [A -> SUBSET U] /\ \A a \in A : V[a] # {} /\ V[a] = Reads(s, a)
  <2>1. \A a \in A : ParseError \in Reads(s, a)
    BY ErrorIs DEF Reads
  <2>2. \A a \in A : Reads(s, a) \subseteq U
    BY DEF Reads
  <2> QED BY <2>1, <2>2
<1>5. \A a \in A : \A g \in [A -> U] : G[a][g] = CallBody(s, a, g)
  OBVIOUS
<1> HIDE DEF V, m, G, A, U
<1>6. \A a \in A : \A g \in [A -> U] : (\A b \in A : g[b] \in V[b]) => G[a][g] \in V[a]
  <2> SUFFICES ASSUME NEW a \in A, NEW g \in [A -> U], \A b \in A : g[b] \in V[b]
               PROVE  G[a][g] \in V[a]
    OBVIOUS
  <2>1. Earlier(s, a.at, g)
    BY <1>4 DEF Earlier, A
  <2>2. CallBody(s, a, g) \in Reads(s, a)
    BY <2>1, BodyRead DEF A
  <2> QED BY <1>4, <1>5, <2>2
<1>7. \A a \in A : \A g, h \in [A -> U] :
        /\ \A b \in A : g[b] \in V[b] /\ h[b] \in V[b]
        /\ \A b \in A : m[b] < m[a] => g[b] = h[b]
        => G[a][g] = G[a][h]
  <2> SUFFICES ASSUME NEW a \in A, NEW g \in [A -> U], NEW h \in [A -> U],
                      \A b \in A : g[b] \in V[b],
                      \A b \in A : m[b] < m[a] => g[b] = h[b]
               PROVE  G[a][g] = G[a][h]
    OBVIOUS
  <2>1. Earlier(s, a.at, g) /\ Agree(s, a.at, g, h)
    BY <1>3, <1>4 DEF Earlier, Agree, A
  <2>2. CallBody(s, a, g) = CallBody(s, a, h)
    BY <2>1, BodyAgrees DEF A
  <2> QED BY <1>5, <2>2
<1>8. \E f \in [A -> U] : Typed(A, V, f) /\ \A a \in A : f[a] = G[a][f]
  <2>1. Keeps(A, U, V, G) /\ LooksBack(A, U, V, m, G)
    BY <1>6, <1>7 DEF Keeps, LooksBack, Typed
  <2>2. Measures(A, m) /\ SomeOf(A, U, V)
    BY <1>3, <1>4 DEF Measures, SomeOf
  <2> QED BY <2>1, <2>2, RecursionExists
<1>9. PICK f \in [A -> U] : \A a \in A : f[a] = G[a][f]
  BY <1>8
<1>10. Loop(f)
  <2>1. f = [c \in A |-> CallBody(s, c, f)]
    BY <1>5, <1>9
  <2> QED BY <2>1 DEF CallBody
<1>11. Loop(parser)
  BY <1>10
<1> HIDE DEF parser
<1>12. \A c \in A : parser[c] = CallBody(s, c, parser)
  BY <1>11 DEF CallBody
<1> DEFINE P == {k \in 0 .. Len(s) + 1 : \A c \in A : m[c] < k => parser[c] \in Reads(s, c)}
<1>13. 0 \in P
  BY <1>3
<1>14. ASSUME NEW k \in 0 .. Len(s), k \in P PROVE k + 1 \in P
  <2>1. ASSUME NEW c \in A, m[c] < k + 1 PROVE parser[c] \in Reads(s, c)
    <3>1. \A d \in A : d.at > c.at => parser[d] \in Reads(s, d)
      <4> SUFFICES ASSUME NEW d \in A, d.at > c.at PROVE parser[d] \in Reads(s, d)
        OBVIOUS
      <4>1. m[d] < m[c]
        BY <1>3
      <4>2. m[d] < k
        BY <1>3, <2>1, <4>1
      <4> QED BY <1>14, <4>2
    <3>2. Earlier(s, c.at, parser)
      BY <3>1 DEF Earlier, A
    <3>3. CallBody(s, c, parser) \in Reads(s, c)
      BY <3>2, BodyRead DEF A
    <3> QED BY <1>12, <3>3
  <2>2. k + 1 \in 0 .. Len(s) + 1
    OBVIOUS
  <2> QED BY <2>1, <2>2
<1>15. Len(s) + 1 \in P
  <2> DEFINE N == Len(s) + 1
  <2>1. N \in Nat /\ N \in 0 .. N /\ \A k \in 0 .. N - 1 : k \in 0 .. Len(s)
    OBVIOUS
  <2> HIDE DEF P
  <2>2. 0 \in P /\ \A k \in 0 .. N - 1 : k \in P => k + 1 \in P
    BY <1>13, <1>14, <2>1
  <2> HIDE DEF N
  <2>3. 0 .. N \subseteq P
    BY <2>1, <2>2, ByCounting
  <2> QED BY <2>1, <2>3 DEF N
<1>16. \A c \in A : parser[c] \in Reads(s, c)
  <2>1. \A c \in A : m[c] < Len(s) + 1
    BY <1>3
  <2> QED BY <1>15, <2>1
<1> QED BY <1>1, <1>12, <1>16 DEF A

\* The parser reads an input as it is written.
LEMMA ParseReads ==
  ASSUME NEW s, Len(s) \in Nat, Parse(s).ok
  PROVE  /\ Parse(s).root \in Parse(s).nodes
         /\ Parse(s).root.from = 1 /\ Parse(s).root.to = Len(s) + 1
         /\ Spells(s, Parse(s).nodes) /\ Binds(s, Parse(s).nodes)
<1> DEFINE at == 1
           bp == precLowest
           c == Call(at, bp, NoNode)
           p == Parser(s)[c]
           q == Parse(s)
<1>1. at \in Places(s) /\ bp \in Bps /\ NoNode \in Nodes(s) \cup {NoNode}
  BY DEF Places, Bps, precLowest
<1>2. q = IF p.ok /\ p.pos > Len(s) THEN p ELSE ParseError
  BY DEF Parse
<1>3. c \in Calls(s) /\ c.at = at /\ c.minBP = bp /\ c.left = NoNode
  <2> HIDE DEF at, bp
  <2> QED BY <1>1, CallIs
<1> HIDE DEF c, p, q, bp
<1>4. p \in Reads(s, c)
  BY <1>3, ParserIs DEF p
<1>5. p \in Results(s) /\ (p.ok => ReadFrom(s, at, bp, p))
  BY <1>3, <1>4 DEF Reads, ReadBy
<1>6. q = p /\ p.ok /\ p.pos > Len(s)
  <2>1. ParseError.ok = FALSE
    BY ErrorIs
  <2>2. q.ok
    BY DEF q
  <2> QED BY <1>2, <2>1, <2>2
<1>7. p.pos \in Places(s) /\ ReadFrom(s, at, bp, p)
  BY <1>5, <1>6, ResultsAre
<1>8. p.pos = Len(s) + 1
  BY <1>6, <1>7 DEF Places
<1> QED BY <1>6, <1>7, <1>8 DEF ReadFrom, WellRead, q

\* The tree of the input that is typed is as it is written.
LEMMA ParsesAsWritten ==
  ASSUME calcJob.do = "parse" => Len(calcJob.input) \in Nat
  PROVE  ParsedAsWritten
<1> SUFFICES ASSUME calcJob.do = "parse", Parse(calcJob.input).ok
             PROVE  LET s == calcJob.input p == Parse(s)
                    IN  /\ p.root \in p.nodes /\ p.root.from = 1 /\ p.root.to = Len(s) + 1
                        /\ Spells(s, p.nodes) /\ Binds(s, p.nodes)
  BY DEF ParsedAsWritten
<1> DEFINE s == calcJob.input
<1>1. Len(s) \in Nat /\ Parse(s).ok
  OBVIOUS
<1> HIDE DEF s
<1>2. /\ Parse(s).root \in Parse(s).nodes
      /\ Parse(s).root.from = 1 /\ Parse(s).root.to = Len(s) + 1
      /\ Spells(s, Parse(s).nodes) /\ Binds(s, Parse(s).nodes)
  BY <1>1, ParseReads
<1> QED BY <1>2 DEF s

-----------------------------------------------------------------------------
(* Every expression is read                                                *)

\* The piece from i up to j is an expression.
Written(s, i, j) == Expressions(s)[<<i, j>>]

\* What an input says from a token on: an operand and what follows it ("op"), or what follows
\* an operand ("tail"), up to the token b.
OpBody(s, b, i, walk) ==
  /\ i < b
  /\ \/ s[i] = "n" /\ "tail" \in walk[i + 1]
     \/ s[i] \in {"+", "-", "sqrt"} /\ "op" \in walk[i + 1]
     \/ /\ s[i] \in {"(", "|"}
        /\ \E m \in Places(s) : /\ i + 1 < m /\ m < b /\ Written(s, i + 1, m)
                                /\ s[m] = Closing(s[i]) /\ "tail" \in walk[m + 1]
TailBody(s, b, i, walk) ==
  \/ i = b
  \/ i < b /\ s[i] \in {"!", "%"} /\ "tail" \in walk[i + 1]
  \/ i < b /\ s[i] \in {"+", "-", "*", "%", "^", "C"} /\ "op" \in walk[i + 1]

WalkBody(s, b, i, walk) ==
  {x \in {"op", "tail"} : IF x = "op" THEN OpBody(s, b, i, walk) ELSE TailBody(s, b, i, walk)}
IsWalk(s, b, walk) == \A i \in Places(s) : walk[i] = WalkBody(s, b, i, walk)
Walk(s, b) == CHOOSE walk : IsWalk(s, b, walk)

OperandAt(s, b, i) == "op" \in Walk(s, b)[i]
TailAt(s, b, i) == "tail" \in Walk(s, b)[i]

\* What is said from a token on depends on what is said from later ones on.
LEMMA BodyAhead ==
  ASSUME NEW s, Len(s) \in Nat, NEW b \in Places(s), NEW i \in Places(s), NEW g, NEW h,
         \A k \in Places(s) : k > i => g[k] = h[k]
  PROVE  WalkBody(s, b, i, g) = WalkBody(s, b, i, h)
<1>0. i \in 1 .. Len(s) + 1 /\ b \in 1 .. Len(s) + 1
  BY DEF Places
<1>1. i < b => g[i + 1] = h[i + 1]
  BY <1>0 DEF Places
<1>2. \A m \in Places(s) : i + 1 < m /\ m < b => g[m + 1] = h[m + 1]
  BY <1>0 DEF Places
<1>3. OpBody(s, b, i, g) <=> OpBody(s, b, i, h)
  BY <1>1, <1>2 DEF OpBody
<1>4. TailBody(s, b, i, g) <=> TailBody(s, b, i, h)
  BY <1>1 DEF TailBody
<1> QED BY <1>3, <1>4 DEF WalkBody

\* What is said from every token on is what its definition says.
LEMMA WalkIs ==
  ASSUME NEW s, Len(s) \in Nat, NEW b \in Places(s)
  PROVE  IsWalk(s, b, Walk(s, b))
<1> DEFINE A == Places(s)
           U == SUBSET {"op", "tail"}
           V == [i \in A |-> U]
           m == [i \in A |-> Len(s) + 1 - i]
           G == [i \in A |-> [g \in [A -> U] |-> WalkBody(s, b, i, g)]]
<1>1. m \in [A -> 0 .. Len(s)] /\ \A i, k \in A : k > i => m[k] < m[i]
  BY DEF Places
<1>2. V \in [A -> SUBSET U] /\ \A i \in A : V[i] = U /\ V[i] # {}
  OBVIOUS
<1>3. \A i \in A : \A g \in [A -> U] : G[i][g] = WalkBody(s, b, i, g)
  OBVIOUS
<1>4. \A i, g : WalkBody(s, b, i, g) \in U
  BY DEF WalkBody
<1> HIDE DEF m, V, G, U
<1>5. Keeps(A, U, V, G)
  BY <1>2, <1>3, <1>4 DEF Keeps
<1>6. LooksBack(A, U, V, m, G)
  <2> SUFFICES ASSUME NEW i \in A, NEW g \in [A -> U], NEW h \in [A -> U],
                      \A k \in A : m[k] < m[i] => g[k] = h[k]
               PROVE  G[i][g] = G[i][h]
    BY DEF LooksBack
  <2>1. \A k \in A : k > i => g[k] = h[k]
    BY <1>1
  <2>2. WalkBody(s, b, i, g) = WalkBody(s, b, i, h)
    BY <2>1, BodyAhead
  <2> QED BY <1>3, <2>2
<1>7. \E f \in [A -> U] : Typed(A, V, f) /\ \A i \in A : f[i] = G[i][f]
  <2>1. Measures(A, m) /\ SomeOf(A, U, V)
    BY <1>1, <1>2 DEF Measures, SomeOf
  <2> HIDE DEF A
  <2> QED BY <1>5, <1>6, <2>1, RecursionExists
<1>8. \E f : IsWalk(s, b, f)
  BY <1>3, <1>7 DEF IsWalk
<1> QED BY <1>8 DEF Walk

\* An operand and what follows it: a number, a prefix, or an expression in brackets.
LEMMA OperandIs ==
  ASSUME NEW s, Len(s) \in Nat, NEW b \in Places(s), NEW i \in Places(s)
  PROVE  OperandAt(s, b, i) <=>
           /\ i < b
           /\ \/ s[i] = "n" /\ TailAt(s, b, i + 1)
              \/ s[i] \in {"+", "-", "sqrt"} /\ OperandAt(s, b, i + 1)
              \/ /\ s[i] \in {"(", "|"}
                 /\ \E m \in Places(s) : /\ i + 1 < m /\ m < b /\ Written(s, i + 1, m)
                                         /\ s[m] = Closing(s[i]) /\ TailAt(s, b, m + 1)
<1>1. Walk(s, b)[i] = WalkBody(s, b, i, Walk(s, b))
  BY WalkIs DEF IsWalk
<1>2. OperandAt(s, b, i) <=> OpBody(s, b, i, Walk(s, b))
  BY <1>1 DEF WalkBody, OperandAt
<1> QED BY <1>2 DEF OpBody, OperandAt, TailAt

\* What follows an operand: nothing, a postfix, or an infix and an operand.
LEMMA TailAtIs ==
  ASSUME NEW s, Len(s) \in Nat, NEW b \in Places(s), NEW i \in Places(s)
  PROVE  TailAt(s, b, i) <=>
           \/ i = b
           \/ i < b /\ s[i] \in {"!", "%"} /\ TailAt(s, b, i + 1)
           \/ i < b /\ s[i] \in {"+", "-", "*", "%", "^", "C"} /\ OperandAt(s, b, i + 1)
<1>1. Walk(s, b)[i] = WalkBody(s, b, i, Walk(s, b))
  BY WalkIs DEF IsWalk
<1>2. TailAt(s, b, i) <=> TailBody(s, b, i, Walk(s, b))
  BY <1>1 DEF WalkBody, TailAt
<1> QED BY <1>2 DEF TailBody, OperandAt, TailAt

\* Which pieces are expressions, from which of the shorter ones are.
ExpressionBody(s, i, j, is) ==
  \/ j = i + 1 /\ s[i] = "n"
  \/ j > i + 1 /\ s[i] \in {"+", "-", "sqrt"} /\ is[<<i + 1, j>>]
  \/ j > i + 1 /\ s[j - 1] \in {"!", "%"} /\ is[<<i, j - 1>>]
  \/ j > i + 2 /\ s[i] \in {"(", "|"} /\ s[j - 1] = Closing(s[i]) /\ is[<<i + 1, j - 1>>]
  \/ \E k \in i + 1 .. j - 2 :
       s[k] \in {"+", "-", "*", "%", "^", "C"} /\ is[<<i, k>>] /\ is[<<k + 1, j>>]

Pieces(s) == Places(s) \X Places(s)

\* Whether a piece is an expression depends on the shorter pieces.
LEMMA BodyShorter ==
  ASSUME NEW s, Len(s) \in Nat, NEW i \in Places(s), NEW j \in Places(s), NEW g, NEW h,
         \A k, n \in Places(s) : k < n /\ n - k < j - i => g[<<k, n>>] = h[<<k, n>>]
  PROVE  ExpressionBody(s, i, j, g) = ExpressionBody(s, i, j, h)
<1>0. i \in 1 .. Len(s) + 1 /\ j \in 1 .. Len(s) + 1
  BY DEF Places
<1>1. j > i + 1 => g[<<i + 1, j>>] = h[<<i + 1, j>>] /\ g[<<i, j - 1>>] = h[<<i, j - 1>>]
  <2> SUFFICES ASSUME j > i + 1
               PROVE g[<<i + 1, j>>] = h[<<i + 1, j>>] /\ g[<<i, j - 1>>] = h[<<i, j - 1>>]
    OBVIOUS
  <2>1. /\ i + 1 \in Places(s) /\ j - 1 \in Places(s)
        /\ i + 1 < j /\ j - (i + 1) < j - i /\ i < j - 1 /\ (j - 1) - i < j - i
    BY <1>0 DEF Places
  <2> QED BY <2>1
<1>2. j > i + 2 => g[<<i + 1, j - 1>>] = h[<<i + 1, j - 1>>]
  <2> SUFFICES ASSUME j > i + 2 PROVE g[<<i + 1, j - 1>>] = h[<<i + 1, j - 1>>]
    OBVIOUS
  <2>1. /\ i + 1 \in Places(s) /\ j - 1 \in Places(s)
        /\ i + 1 < j - 1 /\ (j - 1) - (i + 1) < j - i
    BY <1>0 DEF Places
  <2> QED BY <2>1
<1>3. \A k \in i + 1 .. j - 2 : g[<<i, k>>] = h[<<i, k>>] /\ g[<<k + 1, j>>] = h[<<k + 1, j>>]
  <2> SUFFICES ASSUME NEW k \in i + 1 .. j - 2
               PROVE  g[<<i, k>>] = h[<<i, k>>] /\ g[<<k + 1, j>>] = h[<<k + 1, j>>]
    OBVIOUS
  <2>1. /\ k \in Places(s) /\ k + 1 \in Places(s)
        /\ i < k /\ k - i < j - i /\ k + 1 < j /\ j - (k + 1) < j - i
    BY <1>0 DEF Places
  <2> QED BY <2>1
<1>4. ExpressionBody(s, i, j, g) <=> ExpressionBody(s, i, j, h)
  BY <1>1, <1>2, <1>3 DEF ExpressionBody
<1> QED BY <1>4 DEF ExpressionBody

\* The expressions are what their definition says.
LEMMA ExpressionsAre ==
  ASSUME NEW s, Len(s) \in Nat, NEW i \in Places(s), NEW j \in Places(s)
  PROVE  Expressions(s)[<<i, j>>] <=> ExpressionBody(s, i, j, Expressions(s))
<1> DEFINE A == Pieces(s)
           U == BOOLEAN
           V == [p \in A |-> U]
           m == [p \in A |-> IF p[2] > p[1] THEN p[2] - p[1] ELSE 0]
           G == [p \in A |-> [g \in [A -> U] |-> ExpressionBody(s, p[1], p[2], g)]]
           Loop(g) == g = [p \in (1 .. Len(s) + 1) \X (1 .. Len(s) + 1) |->
                             LET k == p[1] n == p[2]
                             IN  \/ n = k + 1 /\ s[k] = "n"
                                 \/ n > k + 1 /\ s[k] \in {"+", "-", "sqrt"} /\ g[<<k + 1, n>>]
                                 \/ n > k + 1 /\ s[n - 1] \in {"!", "%"} /\ g[<<k, n - 1>>]
                                 \/ /\ n > k + 2 /\ s[k] \in {"(", "|"} /\ s[n - 1] = Closing(s[k])
                                    /\ g[<<k + 1, n - 1>>]
                                 \/ \E l \in k + 1 .. n - 2 :
                                      /\ s[l] \in {"+", "-", "*", "%", "^", "C"}
                                      /\ g[<<k, l>>] /\ g[<<l + 1, n>>]]
           is == CHOOSE g : Loop(g)
<1>1. Expressions(s) = is
  BY DEF Expressions
<1>2. \A p \in A : p[1] \in Places(s) /\ p[2] \in Places(s) /\ p = <<p[1], p[2]>>
  BY DEF Pieces
<1>3. \A k, n \in Places(s) : <<k, n>> \in A
  BY DEF Pieces
<1>4. m \in [A -> 0 .. Len(s)]
  BY <1>2 DEF Places
<1>5. \A p \in A : \A k, n \in Places(s) : k < n /\ n - k < p[2] - p[1] => m[<<k, n>>] < m[p]
  BY <1>2, <1>3 DEF Places
<1>6. V \in [A -> SUBSET U] /\ \A p \in A : V[p] = U /\ V[p] # {}
  OBVIOUS
<1>7. \A p \in A : \A g \in [A -> U] : G[p][g] = ExpressionBody(s, p[1], p[2], g)
  OBVIOUS
<1>8. \A p, g : ExpressionBody(s, p[1], p[2], g) \in U
  BY ZenonT(30) DEF ExpressionBody
<1> HIDE DEF m, V, G, A
<1>9. Keeps(A, U, V, G)
  <2> SUFFICES ASSUME NEW p \in A, NEW g \in [A -> U] PROVE G[p][g] \in V[p]
    BY DEF Keeps
  <2> HIDE DEF U
  <2>1. G[p][g] \in U
    BY <1>7, <1>8, ZenonT(30)
  <2>2. V[p] = U
    BY <1>6
  <2> QED BY <2>1, <2>2, Zenon
<1>10. LooksBack(A, U, V, m, G)
  <2> SUFFICES ASSUME NEW p \in A, NEW g \in [A -> U], NEW h \in [A -> U],
                      \A q \in A : m[q] < m[p] => g[q] = h[q]
               PROVE  G[p][g] = G[p][h]
    BY DEF LooksBack
  <2>1. \A k, n \in Places(s) : k < n /\ n - k < p[2] - p[1] => g[<<k, n>>] = h[<<k, n>>]
    BY <1>3, <1>5
  <2> DEFINE k == p[1]
             n == p[2]
  <2>2. k \in Places(s) /\ n \in Places(s)
    BY <1>2
  <2>4. \A l, o \in Places(s) : l < o /\ o - l < n - k => g[<<l, o>>] = h[<<l, o>>]
    BY <2>1
  <2> HIDE DEF k, n
  <2>3. ExpressionBody(s, k, n, g) = ExpressionBody(s, k, n, h)
    BY <2>2, <2>4, BodyShorter
  <2> QED BY <1>7, <2>3 DEF k, n
<1>11. \E f \in [A -> U] : Typed(A, V, f) /\ \A p \in A : f[p] = G[p][f]
  <2>1. Measures(A, m) /\ SomeOf(A, U, V)
    BY <1>4, <1>6 DEF Measures, SomeOf
  <2> HIDE DEF U
  <2> QED BY <1>9, <1>10, <2>1, RecursionExists
<1>12. PICK f \in [A -> U] : \A p \in A : f[p] = G[p][f]
  BY <1>11
<1>13. f = [p \in A |-> ExpressionBody(s, p[1], p[2], f)]
  BY <1>7, <1>12
<1>14. Loop(f)
  BY <1>13 DEF ExpressionBody, A, Pieces, Places
<1>15. Loop(is)
  BY <1>14
<1> HIDE DEF is
<1>16. is = [p \in A |-> ExpressionBody(s, p[1], p[2], is)]
  BY <1>15 DEF ExpressionBody, A, Pieces, Places
<1>17. is[<<i, j>>] = ExpressionBody(s, i, j, is)
  BY <1>3, <1>16
<1> QED BY <1>1, <1>17

\* The form of an expression.
LEMMA WrittenIs ==
  ASSUME NEW s, Len(s) \in Nat, NEW i \in Places(s), NEW j \in Places(s), Written(s, i, j)
  PROVE  /\ i < j
         /\ \/ j = i + 1 /\ s[i] = "n"
            \/ j > i + 1 /\ s[i] \in {"+", "-", "sqrt"} /\ Written(s, i + 1, j)
            \/ j > i + 1 /\ s[j - 1] \in {"!", "%"} /\ Written(s, i, j - 1)
            \/ /\ j > i + 2 /\ s[i] \in {"(", "|"} /\ s[j - 1] = Closing(s[i])
               /\ Written(s, i + 1, j - 1)
            \/ \E k \in Places(s) : /\ i < k /\ k + 1 < j /\ s[k] \in {"+", "-", "*", "%", "^", "C"}
                                    /\ Written(s, i, k) /\ Written(s, k + 1, j)
<1>0. i \in 1 .. Len(s) + 1 /\ j \in 1 .. Len(s) + 1
  BY DEF Places
<1>1. ExpressionBody(s, i, j, Expressions(s))
  BY ExpressionsAre DEF Written
<1>2. \A k \in i + 1 .. j - 2 : k \in Places(s) /\ i < k /\ k + 1 < j
  BY <1>0 DEF Places
<1>3. \/ j = i + 1 /\ s[i] = "n"
      \/ j > i + 1 /\ s[i] \in {"+", "-", "sqrt"} /\ Written(s, i + 1, j)
      \/ j > i + 1 /\ s[j - 1] \in {"!", "%"} /\ Written(s, i, j - 1)
      \/ /\ j > i + 2 /\ s[i] \in {"(", "|"} /\ s[j - 1] = Closing(s[i])
         /\ Written(s, i + 1, j - 1)
      \/ \E k \in i + 1 .. j - 2 : /\ s[k] \in {"+", "-", "*", "%", "^", "C"}
                                   /\ Written(s, i, k) /\ Written(s, k + 1, j)
  BY <1>1 DEF ExpressionBody, Written
<1>4. CASE \E k \in i + 1 .. j - 2 : /\ s[k] \in {"+", "-", "*", "%", "^", "C"}
                                     /\ Written(s, i, k) /\ Written(s, k + 1, j)
  <2>1. PICK k \in i + 1 .. j - 2 : /\ s[k] \in {"+", "-", "*", "%", "^", "C"}
                                    /\ Written(s, i, k) /\ Written(s, k + 1, j)
    BY <1>4
  <2>2. k \in Places(s) /\ i < k /\ k + 1 < j
    BY <1>2
  <2>3. i < j
    BY <1>0, <2>1
  <2> QED BY <2>1, <2>2, <2>3
<1>5. j = i + 1 \/ j > i + 1 \/ j > i + 2 => i < j
  BY <1>0
<1> QED BY <1>3, <1>4, <1>5

\* What follows an operand up to b begins before b.
LEMMA TailBefore ==
  ASSUME NEW s, Len(s) \in Nat, NEW b \in Places(s), NEW i \in Places(s), TailAt(s, b, i)
  PROVE  i <= b
<1>0. i \in 1 .. Len(s) + 1 /\ b \in 1 .. Len(s) + 1
  BY DEF Places
<1>1. i = b \/ i < b
  BY TailAtIs
<1> QED BY <1>0, <1>1

\* An expression and what may follow it can be read as an operand and what follows that.
LEMMA ExpressionStarts ==
  ASSUME NEW s, Len(s) \in Nat, NEW b \in Places(s)
  PROVE  \A i, j \in Places(s) : Written(s, i, j) /\ TailAt(s, b, j) => OperandAt(s, b, i)
<1> DEFINE P == {d \in 0 .. Len(s) : \A i, j \in Places(s) :
                   j - i <= d /\ Written(s, i, j) /\ TailAt(s, b, j) => OperandAt(s, b, i)}
<1>1. 0 \in P
  <2>1. ASSUME NEW i \in Places(s), NEW j \in Places(s), j - i <= 0, Written(s, i, j) PROVE FALSE
    <3>1. i < j
      BY <2>1, WrittenIs
    <3> QED BY <2>1, <3>1 DEF Places
  <2> QED BY <2>1
<1>2. ASSUME NEW d \in 0 .. Len(s) - 1, d \in P PROVE d + 1 \in P
  <2>1. ASSUME NEW i \in Places(s), NEW j \in Places(s), j - i <= d + 1, Written(s, i, j),
               TailAt(s, b, j)
        PROVE  OperandAt(s, b, i)
    <3>0. /\ i \in 1 .. Len(s) + 1 /\ j \in 1 .. Len(s) + 1 /\ b \in 1 .. Len(s) + 1
          /\ i < j /\ j <= b /\ i < b
      <4>1. i < j
        BY <2>1, WrittenIs
      <4>2. j <= b
        BY <2>1, TailBefore
      <4> QED BY <4>1, <4>2 DEF Places
    <3>1. \A k, l \in Places(s) :
            l - k <= d /\ Written(s, k, l) /\ TailAt(s, b, l) => OperandAt(s, b, k)
      BY <1>2
    <3>2. CASE j = i + 1 /\ s[i] = "n"
      BY <2>1, <3>0, <3>2, OperandIs
    <3>3. CASE j > i + 1 /\ s[i] \in {"+", "-", "sqrt"} /\ Written(s, i + 1, j)
      <4>1. i + 1 \in Places(s) /\ j - (i + 1) <= d
        BY <2>1, <3>0, <3>3 DEF Places
      <4>2. OperandAt(s, b, i + 1)
        BY <2>1, <3>1, <3>3, <4>1
      <4> QED BY <3>0, <3>3, <4>2, OperandIs
    <3>4. CASE j > i + 1 /\ s[j - 1] \in {"!", "%"} /\ Written(s, i, j - 1)
      <4> DEFINE l == j - 1
      <4>1. l \in Places(s) /\ l - i <= d /\ l < b /\ l + 1 = j
        BY <2>1, <3>0, <3>4 DEF Places
      <4>2. s[l] \in {"!", "%"} /\ Written(s, i, l)
        BY <3>4
      <4> HIDE DEF l
      <4>3. TailAt(s, b, l)
        BY <2>1, <4>1, <4>2, TailAtIs
      <4> QED BY <3>1, <4>1, <4>2, <4>3
    <3>5. CASE /\ j > i + 2 /\ s[i] \in {"(", "|"} /\ s[j - 1] = Closing(s[i])
               /\ Written(s, i + 1, j - 1)
      <4> DEFINE m == j - 1
      <4>1. m \in Places(s) /\ i + 1 < m /\ m < b /\ m + 1 = j
        BY <3>0, <3>5 DEF Places
      <4>2. s[m] = Closing(s[i]) /\ Written(s, i + 1, m)
        BY <3>5
      <4> HIDE DEF m
      <4>3. TailAt(s, b, m + 1)
        BY <2>1, <4>1
      <4> QED BY <3>0, <3>5, <4>1, <4>2, <4>3, OperandIs
    <3>6. CASE \E k \in Places(s) : /\ i < k /\ k + 1 < j
                                    /\ s[k] \in {"+", "-", "*", "%", "^", "C"}
                                    /\ Written(s, i, k) /\ Written(s, k + 1, j)
      <4>1. PICK k \in Places(s) : /\ i < k /\ k + 1 < j
                                   /\ s[k] \in {"+", "-", "*", "%", "^", "C"}
                                   /\ Written(s, i, k) /\ Written(s, k + 1, j)
        BY <3>6
      <4>2. k + 1 \in Places(s) /\ j - (k + 1) <= d /\ k - i <= d /\ k < b
        BY <2>1, <3>0, <4>1 DEF Places
      <4>3. OperandAt(s, b, k + 1)
        BY <2>1, <3>1, <4>1, <4>2
      <4>4. TailAt(s, b, k)
        BY <4>1, <4>2, <4>3, TailAtIs
      <4> QED BY <3>1, <4>1, <4>2, <4>4
    <3> QED BY <2>1, <3>2, <3>3, <3>4, <3>5, <3>6, WrittenIs
  <2>2. d + 1 \in 0 .. Len(s)
    OBVIOUS
  <2> QED BY <2>1, <2>2
<1>3. Len(s) \in P
  <2> HIDE DEF P
  <2>1. 0 .. Len(s) \subseteq P
    BY <1>1, <1>2, ByCounting
  <2> QED BY <2>1
<1>4. \A i, j \in Places(s) : j - i <= Len(s)
  BY DEF Places
<1> QED BY <1>3, <1>4

\* Where an expression may end, and the one input that is not parsed.
Closed(s, b) == b = Len(s) + 1 \/ s[b] \in {")", "|"}
Barred(s) == \E i \in 1 .. Len(s) - 1 : s[i] = "%" /\ s[i + 1] = "|"

\* What has been read may be followed by what is left.
Goes(s, b, r) == r.ok /\ TailAt(s, b, r.pos)

LaterGo(s, i, parse) ==
  \A b \in Places(s), at \in Places(s), minBP \in Bps : Closed(s, b) /\ at > i =>
    /\ OperandAt(s, b, at) => Goes(s, b, parse[Call(at, minBP, NoNode)])
    /\ TailAt(s, b, at) => \A left \in Nodes(s) : Goes(s, b, parse[Call(at, minBP, left)])

\* When the loop goes on, it gets as far as can be read.
LEMMA ContinueGoes ==
  ASSUME NEW s, NEW i, NEW parse, LaterGo(s, i, parse), NEW minBP \in Bps,
         NEW b \in Places(s), Closed(s, b),
         NEW read, read.root \in Nodes(s), read.pos \in Places(s), read.pos > i,
         TailAt(s, b, read.pos)
  PROVE  Goes(s, b, Continue(parse, read, minBP))
<1> DEFINE rest == parse[Call(read.pos, minBP, read.root)]
           r == Continue(parse, read, minBP)
<1>1. Goes(s, b, rest)
  BY DEF LaterGo
<1>2. r = IF rest.ok THEN Parsed(read.nodes \cup rest.nodes, rest.root, rest.pos) ELSE ParseError
  BY DEF Continue
<1> HIDE DEF rest, r
<1>3. r.ok = TRUE /\ r.pos = rest.pos
  BY <1>1, <1>2 DEF Goes, Parsed
<1> QED BY <1>1, <1>3 DEF Goes, r

\* A prefix or a bracket is read when an operand is there.
LEMMA PrefixGoes ==
  ASSUME NEW s, Len(s) \in Nat, NEW b \in Places(s), NEW i \in Places(s), OperandAt(s, b, i),
         NEW parse, Earlier(s, i, parse), LaterGo(s, i, parse), Closed(s, b)
  PROVE  Goes(s, b, ParsePrefix(s, i, parse))
<1> DEFINE l == ParsePrefix(s, i, parse)
           at == i + 1
<1>0. i < b /\ i \in 1 .. Len(s) /\ at \in Places(s) /\ at > i /\ i \in Int /\ ~(i > Len(s))
      /\ i \in 1 .. Len(s) + 1
  <2>1. i < b
    BY OperandIs
  <2> QED BY <2>1 DEF Places
<1>1. CASE s[i] = "n" /\ TailAt(s, b, i + 1)
  <2>1. l = Parsed({}, Leaf(i), at)
    BY <1>0, <1>1 DEF ParsePrefix
  <2>2. l.ok = TRUE /\ l.pos = at
    BY <2>1 DEF Parsed
  <2> QED BY <1>1, <2>2 DEF Goes
<1>2. CASE s[i] \in {"+", "-", "sqrt"} /\ OperandAt(s, b, i + 1)
  <2> DEFINE right == parse[Call(at, precUnary, NoNode)]
             bp == precUnary
  <2>1. bp \in Bps /\ OperandAt(s, b, at)
    BY <1>2 DEF precUnary, Bps
  <2>2. Goes(s, b, right)
    <3> HIDE DEF at, bp
    <3>1. Goes(s, b, parse[Call(at, bp, NoNode)])
      BY <1>0, <2>1 DEF LaterGo
    <3> QED BY <3>1 DEF bp
  <2>3. PrefixBp(s[i]) = precUnary /\ s[i] \in prefixOps /\ s[i] # "n"
    BY <1>2 DEF PrefixBp, prefixOps
  <2>4. right.ok
    BY <2>2 DEF Goes
  <2>5. l = Parsed(right.nodes, Before("prefix", i, right.root, right.pos), right.pos)
    BY <1>0, <2>3, <2>4 DEF ParsePrefix
  <2> HIDE DEF right
  <2>6. l.ok = TRUE /\ l.pos = right.pos
    BY <2>5 DEF Parsed
  <2> QED BY <2>2, <2>6 DEF Goes
<1>3. CASE /\ s[i] \in {"(", "|"}
           /\ \E m \in Places(s) : /\ i + 1 < m /\ m < b /\ Written(s, i + 1, m)
                                   /\ s[m] = Closing(s[i]) /\ TailAt(s, b, m + 1)
  <2>1. PICK m \in Places(s) : /\ at < m /\ m < b /\ Written(s, at, m)
                               /\ s[m] = Closing(s[i]) /\ TailAt(s, b, m + 1)
    BY <1>3
  <2> DEFINE bp == precLowest
             right == parse[Call(at, bp, NoNode)]
             k == right.pos
  <2>2. bp \in Bps /\ bp = 0
    BY DEF precLowest, Bps
  <2>3. Closed(s, m)
    BY <1>3, <2>1 DEF Closed, Closing
  <2> HIDE DEF at, bp
  <2>4. OperandAt(s, m, at)
    <3>1. TailAt(s, m, m)
      BY TailAtIs
    <3> QED BY <1>0, <2>1, <3>1, ExpressionStarts
  <2>5. Goes(s, m, right)
    BY <1>0, <2>2, <2>3, <2>4 DEF LaterGo
  <2>6. right \in Results(s) /\ (right.ok => ReadFrom(s, at, bp, right))
    BY <1>0, <2>2, CalledFrom
  <2>7. right.ok /\ k \in Places(s) /\ Ends(s, k, bp) /\ TailAt(s, m, k)
    BY <2>5, <2>6, ResultsAre DEF Goes, ReadFrom
  <2> HIDE DEF right, k
  <2>8. k = m
    <3>1. k = m \/ (k < m /\ s[k] \in Infixes)
      BY <2>7, TailAtIs DEF Infixes
    <3>2. ASSUME k < m, s[k] \in Infixes PROVE FALSE
      <4>1. ~(k > Len(s))
        BY <2>7, <3>2 DEF Places
      <4>2. LeftOf(s, k) \in 1 .. 5
        BY <3>2, BindingPowers DEF LeftOf
      <4> QED BY <2>2, <2>7, <3>2, <4>1, <4>2 DEF Ends
    <3> QED BY <3>1, <3>2
  <2>9. PrefixBp(s[i]) = bp /\ s[i] \in prefixOps /\ s[i] # "n" /\ bp # precUnary
    BY <1>3 DEF PrefixBp, prefixOps, bp, precLowest, precUnary
  <2>10. k <= Len(s) /\ s[k] = Closing(s[i])
    BY <2>1, <2>8 DEF Places
  <2>11. l = Parsed(right.nodes, Before("group", i, right.root, right.pos + 1), right.pos + 1)
    <3>1. right = parse[Call(i + 1, PrefixBp(s[i]), NoNode)]
      BY <2>9 DEF right, at
    <3> QED BY <1>0, <2>7, <2>9, <2>10, <3>1 DEF ParsePrefix, k
  <2>12. l.ok = TRUE /\ l.pos = m + 1
    BY <2>8, <2>11 DEF Parsed, k
  <2> QED BY <2>1, <2>12 DEF Goes
<1> QED BY <1>1, <1>2, <1>3, OperandIs

\* parseExpression reads an operand and what follows it.
LEMMA ExpressionGoes ==
  ASSUME NEW s, Len(s) \in Nat, NEW b \in Places(s), NEW i \in Places(s), OperandAt(s, b, i),
         NEW minBP \in Bps,
         NEW parse, Earlier(s, i, parse), LaterGo(s, i, parse), Closed(s, b)
  PROVE  Goes(s, b, ParseExpression(s, i, minBP, parse))
<1> DEFINE left == ParsePrefix(s, i, parse)
<1>1. left \in Results(s) /\ (left.ok => i < left.pos)
  BY PrefixRead
<1>2. Goes(s, b, left)
  BY PrefixGoes
<1> HIDE DEF left
<1>3. left.ok /\ left.root \in Nodes(s) /\ left.pos \in Places(s) /\ TailAt(s, b, left.pos)
  BY <1>1, <1>2, ResultsAre DEF Goes
<1>4. left.pos > i
  BY <1>1, <1>3 DEF Places
<1>5. Goes(s, b, Continue(parse, left, minBP))
  BY <1>3, <1>4, ContinueGoes
<1> QED BY <1>3, <1>5 DEF ParseExpression, left

\* A % is taken for a percentage or for a modulo, but what follows it can be read.
LEMMA PercentSeen ==
  ASSUME NEW s, Len(s) \in Nat, ~Barred(s), NEW b \in Places(s), Closed(s, b),
         NEW i \in Places(s), TailAt(s, b, i), ~(i > Len(s)), s[i] \in Infixes
  PROVE  /\ i \in 1 .. Len(s) /\ i + 1 \in Places(s)
         /\ IsPercent(s, i) \/ s[i] = "!" => TailAt(s, b, i + 1)
         /\ ~(IsPercent(s, i) \/ s[i] = "!") => OperandAt(s, b, i + 1)
<1> DEFINE at == i + 1
<1>1. i \in 1 .. Len(s) /\ at \in Places(s) /\ i \in 1 .. Len(s) + 1 /\ b \in 1 .. Len(s) + 1
  BY DEF Places
<1>2. i # b
  BY <1>1 DEF Closed, Infixes
<1>3. \/ i < b /\ s[i] \in {"!", "%"} /\ TailAt(s, b, at)
      \/ i < b /\ s[i] \in {"+", "-", "*", "%", "^", "C"} /\ OperandAt(s, b, at)
  BY <1>2, TailAtIs
<1>4. OperandAt(s, b, at) => at <= Len(s) /\ s[at] \in prefixOps \cup {"n"}
  <2> SUFFICES ASSUME OperandAt(s, b, at) PROVE at <= Len(s) /\ s[at] \in prefixOps \cup {"n"}
    OBVIOUS
  <2>1. at < b /\ s[at] \in prefixOps \cup {"n"}
    <3> HIDE DEF at
    <3> QED BY <1>1, OperandIs DEF prefixOps
  <2> QED BY <1>1, <2>1
<1>5. ASSUME IsPercent(s, i) \/ s[i] = "!" PROVE TailAt(s, b, at)
  <2>1. CASE s[i] = "!"
    BY <1>3, <2>1
  <2>2. CASE IsPercent(s, i)
    <3>1. i = Len(s) \/ s[at] \notin prefixOps \cup {"n"}
      BY <2>2 DEF IsPercent
    <3>2. ~OperandAt(s, b, at)
      <4> SUFFICES ASSUME OperandAt(s, b, at) PROVE FALSE
        OBVIOUS
      <4>1. at <= Len(s) /\ s[at] \in prefixOps \cup {"n"}
        BY <1>4
      <4> QED BY <1>1, <3>1, <4>1
    <3> QED BY <1>3, <3>2
  <2> QED BY <1>5, <2>1, <2>2
<1>6. ASSUME ~(IsPercent(s, i) \/ s[i] = "!") PROVE OperandAt(s, b, at)
  <2> SUFFICES ASSUME i < b, s[i] \in {"!", "%"}, TailAt(s, b, at) PROVE OperandAt(s, b, at)
    BY <1>3
  <2>1. s[i] = "%" /\ i # Len(s) /\ s[at] \in prefixOps \cup {"n"}
    BY <1>6 DEF IsPercent
  <2>2. i \in 1 .. Len(s) - 1
    BY <1>1, <2>1
  <2>3. s[at] # "|"
    BY <2>1, <2>2 DEF Barred
  <2>4. at # b
    <3>1. b = Len(s) + 1 => at # b
      BY <2>2
    <3> QED BY <2>1, <2>3, <3>1 DEF Closed, prefixOps
  <2> HIDE DEF at
  <2>5. at < b /\ s[at] \in {"+", "-"} /\ OperandAt(s, b, at + 1)
    BY <1>1, <2>1, <2>3, <2>4, TailAtIs DEF prefixOps
  <2> QED BY <1>1, <2>5, OperandIs
<1> QED BY <1>1, <1>5, <1>6

\* The loop reads what follows an operand.
LEMMA RestGoes ==
  ASSUME NEW s, Len(s) \in Nat, ~Barred(s), NEW b \in Places(s), Closed(s, b),
         NEW i \in Places(s), TailAt(s, b, i), NEW minBP \in Bps, NEW left \in Nodes(s),
         NEW parse, Earlier(s, i, parse), LaterGo(s, i, parse)
  PROVE  Goes(s, b, ParseRest(s, left, i, minBP, parse))
<1> DEFINE percent == IsPercent(s, i)
           bp == IF percent THEN PercentBp ELSE InfixBp[s[i]]
           at == i + 1
           right == parse[Call(at, bp.right, NoNode)]
           post == Postfix(left, i)
           infix == Infix(left, i, right.root)
           r == ParseRest(s, left, i, minBP, parse)
<1>0. SUFFICES Goes(s, b, r)
  OBVIOUS
<1>1. r = IF i > Len(s) \/ s[i] \notin Infixes THEN Parsed({}, left, i)
          ELSE IF bp.left <= minBP THEN Parsed({}, left, i)
          ELSE IF percent \/ s[i] = "!" THEN Continue(parse, Parsed({}, post, at), minBP)
          ELSE IF right.ok
               THEN Continue(parse, Parsed(right.nodes, infix, right.pos), minBP)
          ELSE ParseError
  BY BindingPowers DEF ParseRest
<1>2. s[i] \in Infixes => bp.right \in Bps
  BY BindingPowers DEF PercentBp, precPostfix, Bps
<1> HIDE DEF percent, r
<1>3. CASE r = Parsed({}, left, i)
  <2>1. r.ok = TRUE /\ r.pos = i
    BY <1>3 DEF Parsed
  <2> QED BY <2>1 DEF Goes
<1>4. CASE ~(i > Len(s)) /\ s[i] \in Infixes /\ ~(bp.left <= minBP)
  <2>1. /\ i \in 1 .. Len(s) /\ at \in Places(s)
        /\ percent \/ s[i] = "!" => TailAt(s, b, at)
        /\ ~(percent \/ s[i] = "!") => OperandAt(s, b, at)
    BY <1>4, PercentSeen DEF percent
  <2>2. at > i /\ i \in Int
    BY <2>1
  <2>3. CASE percent \/ s[i] = "!"
    <3> DEFINE read == Parsed({}, post, at)
    <3>1. r = Continue(parse, read, minBP)
      BY <1>1, <1>4, <2>3
    <3>2. post \in Nodes(s)
      <4>1. left.pos \in 0 .. Len(s) /\ left.from \in 1 .. Len(s) /\ 0 \in 0 .. Len(s)
            /\ i + 1 \in 1 .. Len(s) + 1
        BY <2>1, NodesAre
      <4> QED BY <2>1, <4>1 DEF post, Postfix, Nodes
    <3> HIDE DEF post, at
    <3>3. read.root = post /\ read.pos = at
      BY DEF Parsed
    <3> HIDE DEF read
    <3> QED BY <2>1, <2>2, <2>3, <3>1, <3>2, <3>3, ContinueGoes
  <2>4. CASE ~(percent \/ s[i] = "!")
    <3> DEFINE rbp == bp.right
    <3>1. rbp \in Bps /\ OperandAt(s, b, at)
      BY <1>2, <1>4, <2>1, <2>4
    <3>2. right = parse[Call(at, rbp, NoNode)]
      OBVIOUS
    <3> HIDE DEF bp, right, infix, at, rbp
    <3>3. Goes(s, b, right)
      BY <2>1, <2>2, <3>1, <3>2 DEF LaterGo
    <3>4. right \in Results(s) /\ (right.ok => ReadFrom(s, at, rbp, right))
      BY <2>1, <2>2, <3>1, <3>2, CalledFrom
    <3>5. right.ok /\ right.root \in Nodes(s) /\ right.pos \in Places(s) /\ TailAt(s, b, right.pos)
      BY <3>3, <3>4, ResultsAre DEF Goes
    <3>6. at < right.pos
      BY <3>4, <3>5 DEF ReadFrom
    <3> DEFINE read == Parsed(right.nodes, infix, right.pos)
    <3>7. r = Continue(parse, read, minBP)
      BY <1>1, <1>4, <2>4, <3>5
    <3>8. infix \in Nodes(s)
      <4>1. left.pos \in 0 .. Len(s) /\ left.from \in 1 .. Len(s)
        BY NodesAre
      <4>2. right.root.pos \in 0 .. Len(s) /\ right.root.to \in 1 .. Len(s) + 1
        BY <3>5, NodesAre
      <4> QED BY <2>1, <4>1, <4>2 DEF infix, Infix, Nodes
    <3>9. read.root = infix /\ read.pos = right.pos
      BY DEF Parsed
    <3>10. right.pos > i
      BY <2>1, <2>2, <3>5, <3>6 DEF Places
    <3> HIDE DEF read
    <3> QED BY <3>5, <3>7, <3>8, <3>9, <3>10, ContinueGoes
  <2> QED BY <2>3, <2>4
<1> HIDE DEF bp
<1> QED BY <1>1, <1>3, <1>4

\* What can be read is read, from wherever the parser is.
LEMMA CallsGo ==
  ASSUME NEW s, Len(s) \in Nat, ~Barred(s)
  PROVE  LaterGo(s, 0, Parser(s))
<1> DEFINE parse == Parser(s)
           P == {n \in 0 .. Len(s) + 1 : LaterGo(s, Len(s) + 1 - n, parse)}
<1>1. \A c \in Calls(s) : parse[c] = CallBody(s, c, parse) /\ parse[c] \in Reads(s, c)
  BY ParserIs
<1> HIDE DEF parse
<1>2. \A i : Earlier(s, i, parse)
  BY <1>1 DEF Earlier
<1>3. 0 \in P
  <2>1. LaterGo(s, Len(s) + 1, parse)
    BY DEF LaterGo, Places
  <2> QED BY <2>1
<1>4. ASSUME NEW n \in 0 .. Len(s), n \in P PROVE n + 1 \in P
  <2> DEFINE i == Len(s) + 1 - n
             j == Len(s) + 1 - (n + 1)
  <2>1. i \in Places(s) /\ n + 1 \in 0 .. Len(s) + 1 /\ LaterGo(s, i, parse)
    BY <1>4 DEF Places
  <2>2. \A at \in Places(s) : at > j => at = i \/ at > i
    BY DEF Places
  <2> HIDE DEF i, j
  <2>3. ASSUME NEW b \in Places(s), NEW minBP \in Bps, Closed(s, b), OperandAt(s, b, i)
        PROVE  Goes(s, b, parse[Call(i, minBP, NoNode)])
    <3> DEFINE c == Call(i, minBP, NoNode)
    <3>1. c \in Calls(s) /\ c.at = i /\ c.minBP = minBP /\ c.left = NoNode
      BY <2>1, CallIs
    <3> HIDE DEF c
    <3>2. parse[c] = ParseExpression(s, i, minBP, parse)
      BY <1>1, <3>1 DEF CallBody
    <3> QED BY <1>2, <2>1, <2>3, <3>2, ExpressionGoes DEF c
  <2>4. ASSUME NEW b \in Places(s), NEW minBP \in Bps, Closed(s, b), TailAt(s, b, i),
               NEW left \in Nodes(s)
        PROVE  Goes(s, b, parse[Call(i, minBP, left)])
    <3> DEFINE c == Call(i, minBP, left)
    <3>1. c \in Calls(s) /\ c.at = i /\ c.minBP = minBP /\ c.left = left /\ left # NoNode
      BY <2>1, CallIs, NoNodeIsNone
    <3> HIDE DEF c
    <3>2. parse[c] = ParseRest(s, left, i, minBP, parse)
      BY <1>1, <3>1 DEF CallBody
    <3> QED BY <1>2, <2>1, <2>4, <3>2, RestGoes DEF c
  <2>5. LaterGo(s, j, parse)
    BY <2>1, <2>2, <2>3, <2>4 DEF LaterGo
  <2> QED BY <2>1, <2>5 DEF j
<1>5. Len(s) + 1 \in P
  <2> DEFINE N == Len(s) + 1
  <2>1. N \in Nat /\ N \in 0 .. N /\ \A k \in 0 .. N - 1 : k \in 0 .. Len(s)
    OBVIOUS
  <2> HIDE DEF P
  <2>2. 0 \in P /\ \A k \in 0 .. N - 1 : k \in P => k + 1 \in P
    BY <1>3, <1>4, <2>1
  <2> HIDE DEF N
  <2>3. 0 .. N \subseteq P
    BY <2>1, <2>2, ByCounting
  <2> QED BY <2>1, <2>3 DEF N
<1>6. Len(s) + 1 - (Len(s) + 1) = 0
  OBVIOUS
<1> QED BY <1>5, <1>6 DEF parse

\* An expression is parsed.
LEMMA ExpressionIsParsed ==
  ASSUME NEW s, Len(s) \in Nat, ~Barred(s), Expressions(s)[<<1, Len(s) + 1>>]
  PROVE  Parse(s).ok
<1> DEFINE at == 1
           b == Len(s) + 1
           bp == precLowest
           c == Call(at, bp, NoNode)
           p == Parser(s)[c]
           parse == Parser(s)
<1>1. at \in Places(s) /\ b \in Places(s) /\ bp \in Bps /\ bp = 0 /\ Closed(s, b) /\ at > 0
      /\ NoNode \in Nodes(s) \cup {NoNode}
  BY DEF Places, Bps, precLowest, Closed
<1>2. Written(s, at, b)
  BY DEF Written
<1>3. OperandAt(s, b, at)
  <2> HIDE DEF at, b
  <2>1. TailAt(s, b, b)
    BY <1>1, TailAtIs
  <2> QED BY <1>1, <1>2, <2>1, ExpressionStarts
<1>4. Goes(s, b, p)
  <2> HIDE DEF at, b, bp
  <2> QED BY <1>1, <1>3, CallsGo DEF LaterGo
<1>5. c \in Calls(s) /\ c.at = at /\ c.minBP = bp /\ c.left = NoNode
  <2> HIDE DEF at, bp
  <2> QED BY <1>1, CallIs
<1>6. p \in Results(s) /\ (p.ok => ReadFrom(s, at, bp, p))
  <2> HIDE DEF c
  <2>1. p \in Reads(s, c)
    BY <1>5, ParserIs
  <2> QED BY <1>5, <2>1 DEF Reads, ReadBy
<1> DEFINE k == p.pos
<1>7. p.ok /\ k \in Places(s) /\ Ends(s, k, bp) /\ TailAt(s, b, k)
  BY <1>4, <1>6, ResultsAre DEF Goes, ReadFrom
<1>8. k = b
  <2> HIDE DEF k, b, bp
  <2>1. k = b \/ (k < b /\ s[k] \in Infixes)
    BY <1>1, <1>7, TailAtIs DEF Infixes
  <2>2. ASSUME k < b, s[k] \in Infixes PROVE FALSE
    <3>1. ~(k > Len(s))
      BY <1>7, <2>2 DEF Places, b
    <3>2. LeftOf(s, k) \in 1 .. 5
      BY <2>2, BindingPowers DEF LeftOf
    <3> QED BY <1>1, <1>7, <2>2, <3>1, <3>2 DEF Ends
  <2> QED BY <2>1, <2>2
<1>9. p.pos > Len(s)
  BY <1>8
<1>10. Parse(s) = IF p.ok /\ p.pos > Len(s) THEN p ELSE ParseError
  BY DEF Parse
<1> HIDE DEF p
<1> QED BY <1>7, <1>9, <1>10

\* An expression that is typed is parsed, unless a percentage comes before a bar.
LEMMA ParsesExpressions ==
  ASSUME calcJob.do = "parse" => Len(calcJob.input) \in Nat
  PROVE  ExpressionsParse
<1> DEFINE s == calcJob.input
<1> SUFFICES ASSUME calcJob.do = "parse", Expressions(s)[<<1, Len(s) + 1>>], ~Barred(s)
             PROVE  Parse(s).ok
  BY DEF ExpressionsParse, Barred
<1>1. Len(s) \in Nat
  OBVIOUS
<1> HIDE DEF s
<1> QED BY <1>1, ExpressionIsParsed

-----------------------------------------------------------------------------
(* Factorials, permutations and combinations                               *)

\* The values of a loop that multiplies: f[i] is f[i - 1] and one factor more.
Factorials(n, f) == f \in [0 .. n -> Nat \ {0}] /\ f[0] = 1 /\ \A i \in 1 .. n : f[i] = f[i - 1] * i

\* The products up to some number are the same in every loop.
LEMMA FactorialsAgree ==
  ASSUME NEW n \in Nat, NEW m \in 0 .. n, NEW f, NEW g, Factorials(n, f), Factorials(m, g)
  PROVE  f[m] = g[m]
<1> DEFINE P == {k \in 0 .. m : f[k] = g[k]}
<1>1. 0 \in P
  BY DEF Factorials
<1>2. ASSUME NEW k \in 0 .. m - 1, k \in P PROVE k + 1 \in P
  <2>1. k + 1 \in 1 .. m /\ k + 1 \in 1 .. n /\ k + 1 \in 0 .. m /\ (k + 1) - 1 = k
    OBVIOUS
  <2>2. f[k + 1] = f[k] * (k + 1) /\ g[k + 1] = g[k] * (k + 1)
    BY <2>1 DEF Factorials
  <2> QED BY <1>2, <2>1, <2>2
<1>3. 0 .. m \subseteq P
  <2> HIDE DEF P
  <2> QED BY <1>1, <1>2, ByCounting
<1> QED BY <1>3

\* FactorialInt has such values.
LEMMA FactorialLoop ==
  ASSUME NEW n \in Nat
  PROVE  \E f : Factorials(n, f) /\ FactorialInt(n) = f[n]
<1> DEFINE U == Nat \ {0}
           step == [i \in 1 .. n |-> [u \in U |-> u * i]]
           Loop(g) == g = [i \in 0 .. n |-> IF i < 2 THEN 1 ELSE g[i - 1] * i]
<1>1. \A i \in 1 .. n : \A u \in U : u * i \in U
  OBVIOUS
<1>2. \A i \in 1 .. n : \A u \in U : step[i][u] = u * i
  OBVIOUS
<1>3. StaysIn(U, n, step)
  BY <1>1, <1>2 DEF StaysIn
<1>4. 1 \in U
  OBVIOUS
<1> HIDE DEF step, U
<1>5. PICK f \in [0 .. n -> U] : f[0] = 1 /\ \A i \in 1 .. n : f[i] = step[i][f[i - 1]]
  <2> DEFINE one == 1
  <2>1. one \in U
    BY <1>4
  <2> HIDE DEF one
  <2>2. \E f \in [0 .. n -> U] : f[0] = one /\ \A i \in 1 .. n : f[i] = step[i][f[i - 1]]
    <3>1. n \in Nat
      OBVIOUS
    <3>2. \E g : Runs(U, n, one, step, g)
      BY <3>1, <1>3, <2>1, LoopExists
    <3> QED BY <3>2 DEF Runs
  <2> QED BY <2>2 DEF one
<1>6. \A i \in 1 .. n : f[i] = f[i - 1] * i
  <2> SUFFICES ASSUME NEW i \in 1 .. n PROVE f[i] = f[i - 1] * i
    OBVIOUS
  <2>1. f[i - 1] \in U
    OBVIOUS
  <2> QED BY <1>2, <1>5, <2>1
<1>7. Loop(f)
  <2>1. \A i \in 0 .. n : f[i] = IF i < 2 THEN 1 ELSE f[i - 1] * i
    <3> SUFFICES ASSUME NEW i \in 0 .. n PROVE f[i] = IF i < 2 THEN 1 ELSE f[i - 1] * i
      OBVIOUS
    <3>1. CASE i = 0
      BY <1>5, <3>1
    <3>2. CASE i # 0
      <4>1. f[i] = f[i - 1] * i
        BY <1>6, <3>2
      <4>2. i = 1 => f[i] = 1
        BY <1>5, <4>1
      <4> QED BY <3>2, <4>1, <4>2
    <3> QED BY <3>1, <3>2
  <2> QED BY <2>1
<1>8. FactorialInt(n) = (CHOOSE g : Loop(g))[n]
  BY DEF FactorialInt
<1> DEFINE dst == CHOOSE g : Loop(g)
<1>9. Loop(dst)
  BY <1>7
<1> HIDE DEF dst
<1>10. /\ dst = [i \in 0 .. n |-> dst[i]]
       /\ dst[0] = 1 /\ \A i \in 1 .. n : dst[i] = IF i < 2 THEN 1 ELSE dst[i - 1] * i
  BY <1>9
<1>11. \A i \in 1 .. n : dst[i] = dst[i - 1] * i
  <2> SUFFICES ASSUME NEW i \in 1 .. n PROVE dst[i] = dst[i - 1] * i
    OBVIOUS
  <2>1. CASE i = 1
    BY <1>10, <2>1
  <2>2. CASE i # 1
    <3>1. ~(i < 2)
      BY <2>2
    <3> QED BY <1>10, <3>1
  <2> QED BY <2>1, <2>2
<1> DEFINE P == {k \in 0 .. n : dst[k] \in U}
<1>12. 0 .. n \subseteq P
  <2>1. 0 \in P
    BY <1>4, <1>10
  <2>2. ASSUME NEW k \in 0 .. n - 1, k \in P PROVE k + 1 \in P
    <3>1. k + 1 \in 1 .. n /\ (k + 1) - 1 = k /\ k + 1 \in 0 .. n
      OBVIOUS
    <3> QED BY <1>1, <1>11, <2>2, <3>1
  <2> HIDE DEF P
  <2> QED BY <2>1, <2>2, ByCounting
<1>13. dst \in [0 .. n -> U]
  BY <1>10, <1>12
<1> QED BY <1>8, <1>10, <1>11, <1>13 DEF Factorials, dst, U

\* The loop for a factorial computes it.
LEMMA FactorialIs ==
  /\ FactorialInt(0) = 1
  /\ \A n \in Nat : FactorialInt(n) \in Nat \ {0} /\ FactorialInt(n + 1) = FactorialInt(n) * (n + 1)
<1>1. FactorialInt(0) = 1
  <2>1. PICK f : Factorials(0, f) /\ FactorialInt(0) = f[0]
    BY FactorialLoop
  <2> QED BY <2>1 DEF Factorials
<1>2. ASSUME NEW n \in Nat
      PROVE  FactorialInt(n) \in Nat \ {0} /\ FactorialInt(n + 1) = FactorialInt(n) * (n + 1)
  <2>1. PICK f : Factorials(n, f) /\ FactorialInt(n) = f[n]
    BY FactorialLoop
  <2>2. PICK g : Factorials(n + 1, g) /\ FactorialInt(n + 1) = g[n + 1]
    BY FactorialLoop
  <2>3. n \in 0 .. n + 1 /\ n + 1 \in Nat /\ n + 1 \in 1 .. n + 1 /\ (n + 1) - 1 = n
    OBVIOUS
  <2>4. g[n] = f[n]
    BY <2>1, <2>2, <2>3, FactorialsAgree
  <2>5. g[n + 1] = g[n] * (n + 1)
    BY <2>2, <2>3 DEF Factorials
  <2>6. f[n] \in Nat \ {0}
    BY <2>1 DEF Factorials
  <2> QED BY <2>1, <2>2, <2>4, <2>5, <2>6
<1> QED BY <1>1, <1>2

\* PermInt multiplies with one factor less in every round.
LEMMA PermIs ==
  ASSUME NEW n \in Nat, NEW r \in 0 .. n
  PROVE  PermInt(n, r) \in Nat /\ PermInt(n, r) * FactorialInt(n - r) = FactorialInt(n)
<1> DEFINE step == [i \in 1 .. r |-> [u \in Nat |-> u * (n - (i - 1))]]
           Loop(g) == g = [i \in 0 .. r |-> IF i = 0 THEN 1 ELSE g[i - 1] * (n - (i - 1))]
           dst == CHOOSE g : Loop(g)
<1>0. r \in Nat
  OBVIOUS
<1>1. \A i \in 1 .. r : \A u \in Nat : step[i][u] = u * (n - (i - 1))
  OBVIOUS
<1>2. StaysIn(Nat, r, step)
  <2>1. \A i \in 1 .. r : n - (i - 1) \in Nat
    OBVIOUS
  <2>2. \A i \in 1 .. r : \A u \in Nat : u * (n - (i - 1)) \in Nat
    BY <2>1
  <2> HIDE DEF step
  <2> QED BY <1>1, <2>2 DEF StaysIn
<1> HIDE DEF step
<1>3. \E g : Loop(g)
  <2> DEFINE one == 1
             all == Nat
  <2>1. one \in all /\ StaysIn(all, r, step)
    BY <1>2
  <2> HIDE DEF one, all
  <2>2. PICK f \in [0 .. r -> all] : f[0] = one /\ \A i \in 1 .. r : f[i] = step[i][f[i - 1]]
    <3>1. r \in Nat
      BY <1>0
    <3>2. \E g : Runs(all, r, one, step, g)
      BY <3>1, <2>1, LoopExists
    <3> QED BY <3>2 DEF Runs
  <2>3. \A i \in 0 .. r : f[i] = IF i = 0 THEN 1 ELSE f[i - 1] * (n - (i - 1))
    <3> SUFFICES ASSUME NEW i \in 0 .. r PROVE f[i] = IF i = 0 THEN 1 ELSE f[i - 1] * (n - (i - 1))
      OBVIOUS
    <3>1. CASE i = 0
      BY <2>2, <3>1 DEF one
    <3>2. CASE i # 0
      <4>1. i \in 1 .. r /\ i - 1 \in 0 .. r
        BY <3>2
      <4>2. f[i - 1] \in Nat
        BY <4>1 DEF all
      <4> QED BY <1>1, <2>2, <3>2, <4>1, <4>2
    <3> QED BY <3>1, <3>2
  <2>4. f = [i \in 0 .. r |-> IF i = 0 THEN 1 ELSE f[i - 1] * (n - (i - 1))]
    BY <2>3
  <2> QED BY <2>4
<1>4. Loop(dst)
  BY <1>3
<1>5. PermInt(n, r) = dst[r]
  BY DEF PermInt
<1> HIDE DEF dst
<1>6. /\ dst = [i \in 0 .. r |-> dst[i]] /\ dst[0] = 1
      /\ \A i \in 1 .. r : dst[i] = dst[i - 1] * (n - (i - 1))
  <2>1. \A i \in 1 .. r : i \in 0 .. r /\ i # 0
    OBVIOUS
  <2>2. 0 \in 0 .. r
    OBVIOUS
  <2> QED BY <1>4, <2>1, <2>2
<1> DEFINE P == {k \in 0 .. r : dst[k] \in Nat /\ dst[k] * FactorialInt(n - k) = FactorialInt(n)}
<1>7. 0 \in P
  <2>1. n - 0 = n
    OBVIOUS
  <2>2. FactorialInt(n) \in Nat
    BY FactorialIs
  <2> QED BY <1>6, <2>1, <2>2
<1>8. ASSUME NEW k \in 0 .. r - 1, k \in P PROVE k + 1 \in P
  <2> DEFINE m == n - (k + 1)
             a == dst[k]
             f == FactorialInt(m)
  <2>1. /\ m \in Nat /\ n - k = m + 1 /\ k + 1 \in 1 .. r /\ k + 1 \in 0 .. r /\ (k + 1) - 1 = k
        /\ n - k \in Nat
    OBVIOUS
  <2>2. dst[k + 1] = a * (n - k)
    BY <1>6, <2>1
  <2>3. FactorialInt(n - k) = f * (n - k) /\ f \in Nat
    BY <2>1, FactorialIs
  <2>4. a \in Nat /\ a * (f * (n - k)) = FactorialInt(n)
    BY <1>8, <2>3
  <2> HIDE DEF a, f
  <2>5. (a * (n - k)) * f = a * (f * (n - k)) /\ a * (n - k) \in Nat
    BY <2>1, <2>3, <2>4
  <2> QED BY <2>1, <2>2, <2>4, <2>5 DEF f
<1>9. 0 .. r \subseteq P
  <2> HIDE DEF P
  <2> QED BY <1>0, <1>7, <1>8, ByCounting
<1> QED BY <1>5, <1>9

\* What is multiplied and divided by the same is what it was.
LEMMA ExactDivision ==
  ASSUME NEW b \in Int, NEW i \in Nat \ {0}
  PROVE  (b * i) \div i = b /\ (b * i) % i = 0
OBVIOUS

\* Quotient and remainder make up the number.
LEMMA DivisionIs ==
  ASSUME NEW a \in Int, NEW m \in Nat \ {0}
  PROVE  /\ a \div m \in Int /\ a % m \in 0 .. m - 1
         /\ a = (a \div m) * m + (a % m)
<1>1. m > 0 /\ m \in Int
  OBVIOUS
<1>2. a \div m \in Int
  BY <1>1
<1>3. a % m \in 0 .. m - 1
  BY <1>1
<1>4. a = m * (a \div m) + (a % m)
  BY <1>1
<1>5. m * (a \div m) = (a \div m) * m
  BY <1>1, <1>2
<1> QED BY <1>2, <1>3, <1>4, <1>5

\* Binomials are whole numbers.
LEMMA BinomialExists ==
  ASSUME NEW n \in Nat
  PROVE  \A i \in 0 .. n :
           \E b \in Nat : b * (FactorialInt(i) * FactorialInt(n - i)) = FactorialInt(n)
<1> DEFINE Whole(t) == \A i \in 0 .. t :
                         \E b \in Nat :
                           b * (FactorialInt(i) * FactorialInt(t - i)) = FactorialInt(t)
           P == {t \in 0 .. n : Whole(t)}
<1>0. \A t \in Nat : FactorialInt(t) \in Nat /\ FactorialInt(t + 1) = FactorialInt(t) * (t + 1)
  BY FactorialIs
<1>1. 0 \in P
  <2> SUFFICES ASSUME NEW i \in 0 .. 0
               PROVE  \E b \in Nat : b * (FactorialInt(i) * FactorialInt(0 - i)) = FactorialInt(0)
    OBVIOUS
  <2>1. i = 0
    OBVIOUS
  <2>4. 0 - 0 = 0
    OBVIOUS
  <2>3. FactorialInt(0) = 1
    BY FactorialIs
  <2>2. 1 * (1 * 1) = 1
    OBVIOUS
  <2> QED BY <2>1, <2>2, <2>3, <2>4
<1>2. ASSUME NEW t \in 0 .. n - 1, t \in P PROVE t + 1 \in P
  <2>1. t \in Nat /\ t + 1 \in 0 .. n /\ t + 1 \in Nat /\ Whole(t)
    BY <1>2
  <2> DEFINE F == FactorialInt(t)
             G == FactorialInt(t + 1)
  <2>2. F \in Nat /\ G = F * (t + 1) /\ G \in Nat
    BY <1>0, <2>1
  <2> SUFFICES ASSUME NEW i \in 0 .. t + 1
               PROVE  \E b \in Nat : b * (FactorialInt(i) * FactorialInt((t + 1) - i)) = G
    BY <2>1
  <2>3. CASE i = 0 \/ i = t + 1
    <3>1. FactorialInt(i) * FactorialInt((t + 1) - i) = G
      <4>1. (i = 0 => (t + 1) - i = t + 1) /\ (i = t + 1 => (t + 1) - i = 0)
        OBVIOUS
      <4>2. FactorialInt(0) = 1
        BY FactorialIs
      <4>3. 1 * G = G /\ G * 1 = G
        BY <2>2
      <4> QED BY <2>3, <4>1, <4>2, <4>3
    <3>2. 1 * G = G
      BY <2>2
    <3> QED BY <3>1, <3>2
  <2>4. CASE i \in 1 .. t
    <3> DEFINE j == i - 1
               m == t - i
               A == FactorialInt(j)
               B == FactorialInt(m)
    <3>1. j \in 0 .. t /\ i \in 0 .. t /\ j \in Nat /\ m \in Nat /\ i \in Nat
      BY <2>1, <2>4
    <3>2. t - j = m + 1 /\ (t + 1) - i = m + 1 /\ i = j + 1 /\ t - i = m
      BY <2>1, <2>4
    <3>3. A \in Nat /\ B \in Nat /\ FactorialInt(i) = A * i /\ FactorialInt(m + 1) = B * (m + 1)
      BY <1>0, <3>1, <3>2
    <3>4. PICK b1 \in Nat : b1 * (FactorialInt(j) * FactorialInt(t - j)) = F
      BY <2>1, <3>1
    <3>5. PICK b2 \in Nat : b2 * (FactorialInt(i) * FactorialInt(t - i)) = F
      BY <2>1, <3>1
    <3>6. b1 * (A * (B * (m + 1))) = F /\ b2 * ((A * i) * B) = F
      BY <3>2, <3>3, <3>4, <3>5
    <3>7. (b1 + b2) * ((A * i) * (B * (m + 1))) = F * i + F * (m + 1)
      <4> HIDE DEF A, B, F, m, j
      <4>1. (b1 + b2) * ((A * i) * (B * (m + 1)))
              = (b1 * (A * (B * (m + 1)))) * i + (b2 * ((A * i) * B)) * (m + 1)
        BY <3>1, <3>3
      <4> QED BY <3>6, <4>1
    <3>8. F * i + F * (m + 1) = F * (t + 1)
      <4>1. i + (m + 1) = t + 1
        BY <2>1, <2>4
      <4>2. F * i + F * (m + 1) = F * (i + (m + 1))
        <5> HIDE DEF F, m
        <5> QED BY <2>2, <3>1
      <4> QED BY <4>1, <4>2
    <3>9. FactorialInt(i) * FactorialInt((t + 1) - i) = (A * i) * (B * (m + 1))
      BY <3>2, <3>3
    <3>10. b1 + b2 \in Nat
      OBVIOUS
    <3> HIDE DEF A, B, F, G, m, j
    <3> QED BY <2>2, <3>7, <3>8, <3>9, <3>10
  <2>5. i \in 1 .. t \/ i = 0 \/ i = t + 1
    BY <2>1
  <2> QED BY <2>3, <2>4, <2>5
<1>3. 0 .. n \subseteq P
  <2> HIDE DEF P
  <2> QED BY <1>1, <1>2, ByCounting
<1>4. n \in P
  BY <1>3
<1> QED BY <1>4

\* CombInt multiplies first: what it divides is a multiple in every round.
LEMMA CombIs ==
  ASSUME NEW n \in Nat, NEW r \in 0 .. n
  PROVE  /\ CombInt(n, r) \in Nat
         /\ CombInt(n, r) * (FactorialInt(r) * FactorialInt(n - r)) = FactorialInt(n)
<1> DEFINE k == Min({r, n - r})
           m == n - k
           step == [i \in 1 .. k |-> [u \in Nat |-> (u * (m + i)) \div i]]
           Loop(g) == g = [i \in 0 .. k |-> IF i = 0 THEN 1 ELSE (g[i - 1] * (n - k + i)) \div i]
           dst == CHOOSE g : Loop(g)
<1>0. k \in Nat /\ k \in {r, n - r} /\ k \in 0 .. n /\ m \in Nat /\ m + k = n
  <2>1. r \in Int /\ n - r \in Int /\ n - r \in 0 .. n
    OBVIOUS
  <2>2. k \in {r, n - r}
    BY <2>1, SmallerIs
  <2> HIDE DEF k
  <2> QED BY <2>1, <2>2
<1>1. CombInt(n, r) = dst[k]
  BY DEF CombInt
<1> HIDE DEF k
<1>2. \A i \in 1 .. k : \A u \in Nat : step[i][u] = (u * (m + i)) \div i
  OBVIOUS
<1>3. StaysIn(Nat, k, step)
  <2>1. \A i \in 1 .. k : \A u \in Nat : (u * (m + i)) \div i \in Nat
    <3> SUFFICES ASSUME NEW i \in 1 .. k, NEW u \in Nat PROVE (u * (m + i)) \div i \in Nat
      OBVIOUS
    <3> DEFINE a == u * (m + i)
    <3>1. a \in Nat
      BY <1>0
    <3> HIDE DEF a
    <3>2. a \div i \in Nat
      BY <1>0, <3>1
    <3> QED BY <3>2 DEF a
  <2> HIDE DEF step
  <2> QED BY <1>2, <2>1 DEF StaysIn
<1> HIDE DEF step
<1>4. \E g : Loop(g)
  <2> DEFINE one == 1
             all == Nat
  <2>1. one \in all /\ StaysIn(all, k, step)
    BY <1>3
  <2> HIDE DEF one, all
  <2>2. PICK f \in [0 .. k -> all] : f[0] = one /\ \A i \in 1 .. k : f[i] = step[i][f[i - 1]]
    <3>1. k \in Nat
      BY <1>0
    <3>2. \E g : Runs(all, k, one, step, g)
      BY <3>1, <2>1, LoopExists
    <3> QED BY <3>2 DEF Runs
  <2>3. \A i \in 0 .. k : f[i] = IF i = 0 THEN 1 ELSE (f[i - 1] * (n - k + i)) \div i
    <3> SUFFICES ASSUME NEW i \in 0 .. k
                 PROVE  f[i] = IF i = 0 THEN 1 ELSE (f[i - 1] * (n - k + i)) \div i
      OBVIOUS
    <3>1. CASE i = 0
      BY <2>2, <3>1 DEF one
    <3>2. CASE i # 0
      <4>1. i \in 1 .. k /\ i - 1 \in 0 .. k
        BY <1>0, <3>2
      <4>2. f[i - 1] \in Nat
        BY <4>1 DEF all
      <4>3. f[i] = (f[i - 1] * (m + i)) \div i
        BY <1>2, <2>2, <4>1, <4>2
      <4> QED BY <3>2, <4>3
    <3> QED BY <3>1, <3>2
  <2>4. f = [i \in 0 .. k |-> IF i = 0 THEN 1 ELSE (f[i - 1] * (n - k + i)) \div i]
    BY <2>3
  <2> QED BY <2>4
<1>5. Loop(dst)
  BY <1>4
<1> HIDE DEF dst
<1>6. dst[0] = 1 /\ \A i \in 1 .. k : dst[i] = (dst[i - 1] * (m + i)) \div i
  <2>1. \A i \in 1 .. k : i \in 0 .. k /\ i # 0
    BY <1>0
  <2>2. 0 \in 0 .. k
    BY <1>0
  <2> QED BY <1>5, <2>1, <2>2
<1> HIDE DEF m
<1> DEFINE M == FactorialInt(m)
           Inv(i) == dst[i] \in Nat /\ dst[i] * (FactorialInt(i) * M) = FactorialInt(m + i)
           P == {i \in 0 .. k : Inv(i)}
<1>7. M \in Nat \ {0} /\ \A i \in Nat : /\ FactorialInt(i) \in Nat \ {0}
                                        /\ FactorialInt(i + 1) = FactorialInt(i) * (i + 1)
  BY <1>0, FactorialIs
<1>8. 0 \in P
  <2>1. m + 0 = m /\ 0 \in 0 .. k
    BY <1>0
  <2>2. FactorialInt(0) = 1
    BY FactorialIs
  <2>3. 1 * (1 * M) = M
    <3> HIDE DEF M
    <3> QED BY <1>7
  <2> QED BY <1>6, <2>1, <2>2, <2>3
<1>9. ASSUME NEW j \in 0 .. k - 1, j \in P PROVE j + 1 \in P
  <2> DEFINE i == j + 1
             c == dst[j]
             A == FactorialInt(j)
             w == m + i
  <2>1. i \in 1 .. k /\ i \in 0 .. k /\ i - 1 = j /\ j \in Nat /\ i \in Nat \ {0} /\ m + j \in Nat
        /\ w = (m + j) + 1 /\ w \in Nat
    BY <1>0
  <2>2. c \in Nat /\ c * (A * M) = FactorialInt(m + j) /\ A \in Nat \ {0}
    BY <1>7, <1>9, <2>1
  <2>3. FactorialInt(i) = A * i /\ FactorialInt(w) = FactorialInt(m + j) * w
    <3>1. FactorialInt(j + 1) = FactorialInt(j) * (j + 1)
      BY <1>7, <2>1
    <3>2. FactorialInt((m + j) + 1) = FactorialInt(m + j) * ((m + j) + 1)
      BY <1>7, <2>1
    <3> QED BY <2>1, <3>1, <3>2
  <2>4. PICK b \in Nat : b * (FactorialInt(i) * M) = FactorialInt(w)
    <3>1. i \in 0 .. w /\ w - i = m
      BY <1>0, <2>1
    <3>2. \E b \in Nat : b * (FactorialInt(i) * FactorialInt(w - i)) = FactorialInt(w)
      BY <2>1, <3>1, BinomialExists
    <3> QED BY <3>1, <3>2
  <2> HIDE DEF i, c, A, w, M
  <2>5. (b * i) * (A * M) = (c * w) * (A * M)
    <3>1. b * ((A * i) * M) = (b * i) * (A * M)
      BY <1>7, <2>1, <2>2
    <3>2. (c * (A * M)) * w = (c * w) * (A * M)
      BY <1>7, <2>1, <2>2
    <3> QED BY <2>2, <2>3, <2>4, <3>1, <3>2
  <2>6. b * i = c * w
    <3> DEFINE p == A * M
               u == b * i
               v == c * w
    <3>1. p \in Nat \ {0} /\ u \in Nat /\ v \in Nat
      BY <1>7, <2>1, <2>2
    <3>2. u * p = v * p
      BY <2>5
    <3> HIDE DEF p, u, v
    <3>3. u = v
      BY <3>1, <3>2
    <3> QED BY <3>3 DEF u, v
  <2>7. dst[i] = (b * i) \div i
    <3>1. dst[i] = (c * w) \div i
      BY <1>6, <2>1 DEF c, w
    <3> QED BY <2>6, <3>1
  <2>8. dst[i] = b
    BY <2>1, <2>7, ExactDivision
  <2>9. Inv(i)
    BY <2>4, <2>8 DEF w
  <2> QED BY <2>1, <2>9 DEF i
<1>10. 0 .. k \subseteq P
  <2> HIDE DEF P
  <2> QED BY <1>0, <1>8, <1>9, ByCounting
<1>11. dst[k] \in Nat /\ dst[k] * (FactorialInt(k) * M) = FactorialInt(n)
  <2>1. k \in P
    BY <1>0, <1>10
  <2> QED BY <1>0, <2>1
<1>12. FactorialInt(r) * FactorialInt(n - r) = FactorialInt(k) * M
  <2>1. (k = r /\ m = n - r) \/ (k = n - r /\ m = r)
    BY <1>0
  <2>2. FactorialInt(k) * M = M * FactorialInt(k)
    <3>1. FactorialInt(k) \in Nat
      BY <1>0, <1>7
    <3> HIDE DEF M
    <3> QED BY <1>7, <3>1
  <2> QED BY <2>1, <2>2
<1> QED BY <1>1, <1>11, <1>12

-----------------------------------------------------------------------------
(* Numbers and their powers                                                *)

\* The numbers that a fraction becomes whole by.
Dens(a, b) == {d \in Nat \ {0} : \E n \in Int : n * b = a * d}

\* The sign and the absolute value make up the number.
LEMMA SignIs ==
  ASSUME NEW b \in Int
  PROVE  /\ Abs(b) \in Nat /\ Sign(b) \in Int /\ Sign(b) * b = Abs(b) /\ Sign(b) * Abs(b) = b
         /\ b # 0 => Abs(b) \in Nat \ {0} /\ Sign(b) \in {1, -1}
<1>1. CASE b > 0
  BY <1>1 DEF Abs, Sign
<1>2. CASE b < 0
  BY <1>2 DEF Abs, Sign
<1>3. CASE b = 0
  BY <1>3 DEF Abs, Sign
<1> QED BY <1>1, <1>2, <1>3

\* The numbers that leave no remainder are the multiples.
LEMMA MultipleIs ==
  ASSUME NEW x \in Int, NEW b \in Int, b # 0
  PROVE  x % Abs(b) = 0 <=> \E n \in Int : n * b = x
<1> DEFINE m == Abs(b)
           s == Sign(b)
<1>1. m \in Nat \ {0} /\ s \in Int /\ s * b = m /\ s * m = b
  BY SignIs
<1> HIDE DEF m, s
<1>2. ASSUME x % m = 0 PROVE \E n \in Int : n * b = x
  <2> DEFINE q == x \div m
  <2>1. q \in Int /\ x = q * m + (x % m)
    BY <1>1, DivisionIs
  <2> HIDE DEF q
  <2>2. x = q * m
    BY <1>1, <1>2, <2>1
  <2>3. (q * s) * b = q * (s * b) /\ q * s \in Int
    BY <1>1, <2>1
  <2> QED BY <1>1, <2>2, <2>3
<1>3. ASSUME NEW n \in Int, n * b = x PROVE x % m = 0
  <2>1. n * b = (n * s) * m /\ n * s \in Int
    <3>1. (n * s) * m = n * (s * m)
      BY <1>1
    <3> QED BY <1>1, <3>1
  <2>2. ((n * s) * m) % m = 0
    <3> DEFINE c == n * s
    <3>1. c \in Int
      BY <2>1
    <3> HIDE DEF c
    <3>2. (c * m) % m = 0
      BY <1>1, <3>1, ExactDivision
    <3> QED BY <3>2 DEF c
  <2> QED BY <1>3, <2>1, <2>2
<1> QED BY <1>2, <1>3 DEF m

\* A number in lowest terms.
LEMMA RatIs ==
  ASSUME NEW a \in Int, NEW b \in Int, b # 0
  PROVE  /\ Rat(a, b) = [num |-> Rat(a, b).num, den |-> Rat(a, b).den]
         /\ Rat(a, b).num \in Int /\ Rat(a, b).num * b = a * Rat(a, b).den
         /\ Rat(a, b).den \in Dens(a, b) /\ \A d \in Dens(a, b) : Rat(a, b).den <= d
<1> DEFINE m == Abs(b)
           s == Sign(b)
           S == {d \in 1 .. m : (a * d) % m = 0}
           low == Min(S)
<1>1. m \in Nat \ {0} /\ s \in Int /\ s * b = m /\ s * m = b
  BY SignIs
<1>2. \A d \in 1 .. m : d \in S <=> d \in Dens(a, b)
  <2> SUFFICES ASSUME NEW d \in 1 .. m PROVE (a * d) % m = 0 <=> \E n \in Int : n * b = a * d
    <3>1. \A d \in 1 .. m : d \in Nat \ {0}
      OBVIOUS
    <3>2. \A d \in 1 .. m : d \in S <=> (a * d) % m = 0
      OBVIOUS
    <3>3. \A d \in Nat \ {0} : d \in Dens(a, b) <=> \E n \in Int : n * b = a * d
      BY DEF Dens
    <3> HIDE DEF S, m
    <3> QED BY <3>1, <3>2, <3>3
  <2> DEFINE x == a * d
  <2>1. x \in Int
    BY <1>1
  <2> HIDE DEF x
  <2>2. x % Abs(b) = 0 <=> \E n \in Int : n * b = x
    BY <2>1, MultipleIs
  <2> QED BY <2>2 DEF x
<1>3. m \in S /\ S \subseteq Nat
  <2>1. (a * m) % m = 0
    <3> HIDE DEF m
    <3> QED BY <1>1, ExactDivision
  <2>2. m \in 1 .. m
    <3> HIDE DEF m
    <3> QED BY <1>1
  <2> QED BY <2>1, <2>2
<1>4. low \in S /\ \A d \in S : low <= d
  <2> HIDE DEF S
  <2>1. S # {}
    BY <1>3
  <2>2. PICK x \in S : \A y \in S : x <= y
    BY <1>3, <2>1, LeastNatural
  <2>3. Min(S) = x
    <3>1. \A y \in S : x <= y /\ y \in Int
      BY <1>3, <2>2
    <3> QED BY <3>1, MinIs
  <2> QED BY <2>2, <2>3
<1>5. Rat(a, b) = [num |-> (s * a * low) \div m, den |-> low]
  BY DEF Rat
<1>6. low \in 1 .. m /\ low \in Dens(a, b)
  BY <1>2, <1>4
<1> HIDE DEF low, S
<1>7. ASSUME NEW d \in Dens(a, b) PROVE low <= d
  <2> HIDE DEF m
  <2>1. d \in Nat \ {0}
    BY DEF Dens
  <2>2. CASE d <= m
    BY <1>1, <1>2, <1>4, <2>1, <2>2
  <2>3. CASE d > m
    BY <1>1, <1>6, <2>1, <2>3
  <2> QED BY <1>1, <2>1, <2>2, <2>3
<1>8. PICK n \in Int : n * b = a * low
  BY <1>6 DEF Dens
<1>9. (s * a * low) \div m = n
  <2> HIDE DEF m, s
  <2>1. low \in Int
    BY <1>1, <1>6
  <2>2. s * a * low = s * (a * low)
    BY <1>1, <2>1
  <2>3. s * (n * b) = n * m
    <3>1. s * (n * b) = n * (s * b)
      BY <1>1
    <3> QED BY <1>1, <3>1
  <2>4. s * a * low = n * m
    BY <1>8, <2>2, <2>3
  <2>5. (n * m) \div m = n
    BY <1>1, ExactDivision
  <2> QED BY <2>4, <2>5
<1>10. Rat(a, b) = [num |-> n, den |-> low]
  BY <1>5, <1>9
<1>11. Rat(a, b).num = n /\ Rat(a, b).den = low
  BY <1>10
<1> QED BY <1>6, <1>7, <1>8, <1>10, <1>11

\* Equal fractions are the same number.
LEMMA RatEqual ==
  ASSUME NEW a \in Int, NEW b \in Int, b # 0, NEW c \in Int, NEW d \in Int, d # 0,
         a * d = c * b
  PROVE  Rat(a, b) = Rat(c, d)
<1>0. \A p, q \in Int, e \in Int \ {0} : p * e = q * e => p = q
  OBVIOUS
<1>1. ASSUME NEW p \in Int, NEW q \in Int, q # 0, NEW u \in Int, NEW v \in Int, v # 0,
             p * v = u * q,
             NEW n \in Int, NEW k \in Nat \ {0}, n * q = p * k
      PROVE  n * v = u * k
  <2>1. (n * v) * q = (u * k) * q
    <3>1. (n * v) * q = (n * q) * v
      OBVIOUS
    <3>2. (p * k) * v = (p * v) * k
      OBVIOUS
    <3>3. (u * q) * k = (u * k) * q
      OBVIOUS
    <3> QED BY <1>1, <3>1, <3>2, <3>3
  <2>2. n * v \in Int /\ u * k \in Int
    OBVIOUS
  <2> QED BY <1>0, <1>1, <2>1, <2>2
<1>2. Dens(a, b) = Dens(c, d)
  <2>1. ASSUME NEW k \in Dens(a, b) PROVE k \in Dens(c, d)
    <3>1. PICK n \in Int : n * b = a * k
      BY DEF Dens
    <3>2. k \in Nat \ {0}
      BY DEF Dens
    <3>3. n * d = c * k
      BY <1>1, <3>1, <3>2
    <3> QED BY <3>2, <3>3 DEF Dens
  <2>2. ASSUME NEW k \in Dens(c, d) PROVE k \in Dens(a, b)
    <3>1. PICK n \in Int : n * d = c * k
      BY DEF Dens
    <3>2. k \in Nat \ {0} /\ c * b = a * d
      BY DEF Dens
    <3>3. n * b = a * k
      BY <1>1, <3>1, <3>2
    <3> QED BY <3>2, <3>3 DEF Dens
  <2> QED BY <2>1, <2>2
<1> DEFINE x == Rat(a, b)
           y == Rat(c, d)
<1>3. /\ x = [num |-> x.num, den |-> x.den] /\ x.num \in Int /\ x.num * b = a * x.den
      /\ x.den \in Dens(a, b) /\ \A e \in Dens(a, b) : x.den <= e
  BY RatIs
<1>4. /\ y = [num |-> y.num, den |-> y.den] /\ y.num \in Int /\ y.num * d = c * y.den
      /\ y.den \in Dens(c, d) /\ \A e \in Dens(c, d) : y.den <= e
  BY RatIs
<1> HIDE DEF x, y
<1>5. x.den = y.den /\ x.den \in Nat \ {0}
  <2>1. x.den \in Nat \ {0} /\ y.den \in Nat \ {0}
    BY <1>3, <1>4 DEF Dens
  <2>2. x.den <= y.den /\ y.den <= x.den
    BY <1>2, <1>3, <1>4
  <2> QED BY <2>1, <2>2
<1>6. x.num * d = c * x.den
  BY <1>1, <1>3, <1>5
<1>7. x.num = y.num
  BY <1>0, <1>3, <1>4, <1>5, <1>6
<1> QED BY <1>3, <1>4, <1>5, <1>7 DEF x, y

Rats == {Rat(p[1], p[2]) : p \in Int \X (Int \ {0})}
RatOne == Rat(1, 1)

\* The numbers are the quotients of integers.
LEMMA RatsAre ==
  /\ \A a \in Int, b \in Int \ {0} : Rat(a, b) \in Rats
  /\ \A x \in Rats : \E a \in Int, b \in Int \ {0} : x = Rat(a, b)
  /\ RatOne \in Rats
<1>1. \A a \in Int, b \in Int \ {0} : Rat(a, b) \in Rats
  <2> SUFFICES ASSUME NEW a \in Int, NEW b \in Int \ {0} PROVE Rat(a, b) \in Rats
    OBVIOUS
  <2>1. <<a, b>> \in Int \X (Int \ {0}) /\ <<a, b>>[1] = a /\ <<a, b>>[2] = b
    OBVIOUS
  <2> QED BY <2>1 DEF Rats
<1>2. \A x \in Rats : \E a \in Int, b \in Int \ {0} : x = Rat(a, b)
  <2> SUFFICES ASSUME NEW x \in Rats PROVE \E a \in Int, b \in Int \ {0} : x = Rat(a, b)
    OBVIOUS
  <2>1. PICK p \in Int \X (Int \ {0}) : x = Rat(p[1], p[2])
    BY DEF Rats
  <2> QED BY <2>1
<1>3. RatOne \in Rats
  <2>1. 1 \in Int /\ 1 \in Int \ {0}
    OBVIOUS
  <2> QED BY <1>1, <2>1 DEF RatOne
<1> QED BY <1>1, <1>2, <1>3

\* Neither a numerator nor a denominator is lost on the way to the lowest terms.
LEMMA PartsOfRat ==
  ASSUME NEW a \in Int, NEW b \in Int \ {0}
  PROVE  /\ Rat(a, b).num \in Int /\ Rat(a, b).den \in Nat \ {0}
         /\ Rat(a, b).num * b = a * Rat(a, b).den
         /\ Rat(a, b).num = 0 <=> a = 0
<1> DEFINE x == Rat(a, b)
<1>1. x.num \in Int /\ x.num * b = a * x.den /\ x.den \in Nat \ {0}
  BY RatIs DEF Dens
<1> HIDE DEF x
<1>2. x.num = 0 <=> a = 0
  <2>1. \A p \in Int, q \in Int \ {0} : p * q = 0 <=> p = 0
    OBVIOUS
  <2>2. x.den \in Int \ {0}
    BY <1>1
  <2> QED BY <1>1, <2>1, <2>2
<1> QED BY <1>1, <1>2 DEF x

\* The product of quotients.
LEMMA MulIs ==
  ASSUME NEW a \in Int, NEW b \in Int \ {0}, NEW c \in Int, NEW d \in Int \ {0}
  PROVE  Mul(Rat(a, b), Rat(c, d)) = Rat(a * c, b * d) /\ a * c \in Int /\ b * d \in Int \ {0}
<1> DEFINE x == Rat(a, b)
           y == Rat(c, d)
<1>1. /\ x.num \in Int /\ x.num * b = a * x.den /\ x.den \in Int \ {0}
      /\ y.num \in Int /\ y.num * d = c * y.den /\ y.den \in Int \ {0}
  BY PartsOfRat
<1>2. Mul(x, y) = Rat(x.num * y.num, x.den * y.den)
  BY DEF Mul
<1> HIDE DEF x, y
<1>3. \A p, q \in Int \ {0} : p * q \in Int /\ p * q # 0
  OBVIOUS
<1>4. (x.num * y.num) * (b * d) = (a * c) * (x.den * y.den)
  <2>1. (x.num * y.num) * (b * d) = (x.num * b) * (y.num * d)
    BY <1>1
  <2>2. (a * x.den) * (c * y.den) = (a * c) * (x.den * y.den)
    BY <1>1
  <2> QED BY <1>1, <2>1, <2>2
<1>5. x.num * y.num \in Int /\ a * c \in Int /\ x.den * y.den \in Int /\ x.den * y.den # 0
      /\ b * d \in Int /\ b * d # 0
  <2>1. x.num * y.num \in Int /\ a * c \in Int
    BY <1>1
  <2>2. x.den * y.den \in Int /\ x.den * y.den # 0
    BY <1>1, <1>3
  <2>3. b * d \in Int /\ b * d # 0
    BY <1>3
  <2> QED BY <2>1, <2>2, <2>3
<1> DEFINE e == x.num * y.num
           f == x.den * y.den
           g == a * c
           h == b * d
<1>6. Rat(e, f) = Rat(g, h)
  <2>1. e \in Int /\ f \in Int /\ f # 0 /\ g \in Int /\ h \in Int /\ h # 0 /\ e * h = g * f
    BY <1>4, <1>5
  <2> HIDE DEF e, f, g, h
  <2> QED BY <2>1, RatEqual
<1> QED BY <1>2, <1>5, <1>6 DEF x, y

\* The reciprocal of a quotient.
LEMMA ReciprocalIs ==
  ASSUME NEW a \in Int \ {0}, NEW b \in Int \ {0}
  PROVE  Reciprocal(Rat(a, b)) = Rat(b, a)
<1> DEFINE x == Rat(a, b)
<1>1. x.num \in Int /\ x.num # 0 /\ x.num * b = a * x.den /\ x.den \in Int
  BY PartsOfRat
<1>2. Reciprocal(x) = Rat(x.den, x.num)
  BY DEF Reciprocal
<1> HIDE DEF x
<1>3. x.den * a = b * x.num
  BY <1>1
<1>4. Rat(x.den, x.num) = Rat(b, a)
  BY <1>1, <1>3, RatEqual
<1> QED BY <1>2, <1>4 DEF x

\* Multiplication is commutative and associative, and 1 changes nothing.
LEMMA MulLaws ==
  /\ \A x, y \in Rats : Mul(x, y) \in Rats /\ Mul(x, y) = Mul(y, x)
  /\ \A x, y, z \in Rats : Mul(Mul(x, y), z) = Mul(x, Mul(y, z))
  /\ \A x \in Rats : Mul(RatOne, x) = x
<1>1. ASSUME NEW x \in Rats, NEW y \in Rats PROVE Mul(x, y) \in Rats /\ Mul(x, y) = Mul(y, x)
  <2>1. PICK a \in Int, b \in Int \ {0} : x = Rat(a, b)
    BY RatsAre
  <2>2. PICK c \in Int, d \in Int \ {0} : y = Rat(c, d)
    BY RatsAre
  <2>3. Mul(x, y) = Rat(a * c, b * d) /\ a * c \in Int /\ b * d \in Int \ {0}
    BY <2>1, <2>2, MulIs
  <2>4. Mul(y, x) = Rat(c * a, d * b)
    BY <2>1, <2>2, MulIs
  <2>5. a * c = c * a /\ b * d = d * b
    OBVIOUS
  <2> QED BY <2>3, <2>4, <2>5, RatsAre
<1>2. ASSUME NEW x \in Rats, NEW y \in Rats, NEW z \in Rats
      PROVE  Mul(Mul(x, y), z) = Mul(x, Mul(y, z))
  <2>1. PICK a \in Int, b \in Int \ {0} : x = Rat(a, b)
    BY RatsAre
  <2>2. PICK c \in Int, d \in Int \ {0} : y = Rat(c, d)
    BY RatsAre
  <2>3. PICK e \in Int, f \in Int \ {0} : z = Rat(e, f)
    BY RatsAre
  <2>4. Mul(x, y) = Rat(a * c, b * d) /\ a * c \in Int /\ b * d \in Int \ {0}
    BY <2>1, <2>2, MulIs
  <2>5. Mul(y, z) = Rat(c * e, d * f) /\ c * e \in Int /\ d * f \in Int \ {0}
    BY <2>2, <2>3, MulIs
  <2>6. Mul(Mul(x, y), z) = Rat((a * c) * e, (b * d) * f)
    BY <2>3, <2>4, MulIs
  <2>7. Mul(x, Mul(y, z)) = Rat(a * (c * e), b * (d * f))
    BY <2>1, <2>5, MulIs
  <2>8. (a * c) * e = a * (c * e) /\ (b * d) * f = b * (d * f)
    OBVIOUS
  <2> QED BY <2>6, <2>7, <2>8
<1>3. ASSUME NEW x \in Rats PROVE Mul(RatOne, x) = x
  <2>1. PICK a \in Int, b \in Int \ {0} : x = Rat(a, b)
    BY RatsAre
  <2>2. 1 \in Int /\ 1 \in Int \ {0} /\ 1 * a = a /\ 1 * b = b
    OBVIOUS
  <2>3. Mul(Rat(1, 1), x) = Rat(1 * a, 1 * b)
    BY <2>1, <2>2, MulIs
  <2> QED BY <2>1, <2>2, <2>3 DEF RatOne
<1> QED BY <1>1, <1>2, <1>3

\* The reciprocal of a product is the product of the reciprocals.
LEMMA ReciprocalLaws ==
  /\ \A x \in Rats : x.num # 0 => Reciprocal(x) \in Rats
  /\ \A x, y \in Rats : x.num # 0 /\ y.num # 0 =>
       Mul(x, y).num # 0 /\ Reciprocal(Mul(x, y)) = Mul(Reciprocal(x), Reciprocal(y))
  /\ RatOne.num # 0 /\ Reciprocal(RatOne) = RatOne
<1>0. 1 \in Int \ {0}
  OBVIOUS
<1>1. ASSUME NEW x \in Rats, x.num # 0
      PROVE  \E a \in Int \ {0}, b \in Int \ {0} : x = Rat(a, b)
  <2>1. PICK a \in Int, b \in Int \ {0} : x = Rat(a, b)
    BY RatsAre
  <2>2. a # 0
    BY <1>1, <2>1, PartsOfRat
  <2> QED BY <2>1, <2>2
<1>2. ASSUME NEW x \in Rats, x.num # 0 PROVE Reciprocal(x) \in Rats
  <2>1. PICK a \in Int \ {0}, b \in Int \ {0} : x = Rat(a, b)
    BY <1>1, <1>2
  <2> QED BY <2>1, ReciprocalIs, RatsAre
<1>3. ASSUME NEW x \in Rats, NEW y \in Rats, x.num # 0, y.num # 0
      PROVE  Mul(x, y).num # 0 /\ Reciprocal(Mul(x, y)) = Mul(Reciprocal(x), Reciprocal(y))
  <2>1. PICK a \in Int \ {0}, b \in Int \ {0} : x = Rat(a, b)
    BY <1>1, <1>3
  <2>2. PICK c \in Int \ {0}, d \in Int \ {0} : y = Rat(c, d)
    BY <1>1, <1>3
  <2>3. Mul(x, y) = Rat(a * c, b * d) /\ a * c \in Int \ {0} /\ b * d \in Int \ {0}
    <3>1. a * c \in Int \ {0}
      OBVIOUS
    <3> QED BY <2>1, <2>2, <3>1, MulIs
  <2>4. Mul(x, y).num # 0
    BY <2>3, PartsOfRat
  <2>5. Reciprocal(Mul(x, y)) = Rat(b * d, a * c)
    BY <2>3, ReciprocalIs
  <2>6. Reciprocal(x) = Rat(b, a) /\ Reciprocal(y) = Rat(d, c)
    BY <2>1, <2>2, ReciprocalIs
  <2>7. Mul(Rat(b, a), Rat(d, c)) = Rat(b * d, a * c)
    BY MulIs
  <2> QED BY <2>4, <2>5, <2>6, <2>7
<1>4. RatOne.num # 0
  BY <1>0, PartsOfRat DEF RatOne
<1>5. Reciprocal(RatOne) = RatOne
  BY <1>0, ReciprocalIs DEF RatOne
<1> QED BY <1>2, <1>3, <1>4, <1>5

\* The powers of a number.
Powers(z, n, f) ==
  f \in [0 .. n -> Rats] /\ f[0] = RatOne /\ \A i \in 1 .. n : f[i] = Mul(f[i - 1], z)

PowerOf(z, n) == (CHOOSE f : Powers(z, n, f))[n]

\* The powers up to some exponent are the same in every loop.
LEMMA PowersAgree ==
  ASSUME NEW z, NEW n \in Nat, NEW m \in 0 .. n, NEW f, NEW g, Powers(z, n, f), Powers(z, m, g)
  PROVE  f[m] = g[m]
<1> DEFINE P == {k \in 0 .. m : f[k] = g[k]}
<1>1. 0 \in P
  BY DEF Powers
<1>2. ASSUME NEW k \in 0 .. m - 1, k \in P PROVE k + 1 \in P
  <2>1. k + 1 \in 1 .. m /\ k + 1 \in 1 .. n /\ k + 1 \in 0 .. m /\ (k + 1) - 1 = k
    OBVIOUS
  <2>2. f[k + 1] = Mul(f[k], z) /\ g[k + 1] = Mul(g[k], z)
    BY <2>1 DEF Powers
  <2> QED BY <1>2, <2>1, <2>2
<1>3. 0 .. m \subseteq P
  <2> HIDE DEF P
  <2> QED BY <1>1, <1>2, ByCounting
<1> QED BY <1>3

\* There is a loop for every exponent.
LEMMA PowersExist ==
  ASSUME NEW z \in Rats, NEW n \in Nat
  PROVE  \E f : Powers(z, n, f)
<1> DEFINE step == [i \in 1 .. n |-> [u \in Rats |-> Mul(u, z)]]
<1>1. \A i \in 1 .. n : \A u \in Rats : step[i][u] = Mul(u, z)
  OBVIOUS
<1> HIDE DEF step
<1>2. StaysIn(Rats, n, step)
  <2>1. \A u \in Rats : Mul(u, z) \in Rats
    BY MulLaws
  <2> QED BY <1>1, <2>1 DEF StaysIn
<1>3. \E f \in [0 .. n -> Rats] : f[0] = RatOne /\ \A i \in 1 .. n : f[i] = step[i][f[i - 1]]
  <2>1. RatOne \in Rats
    BY RatsAre
  <2> DEFINE all == Rats
  <2> HIDE DEF all
  <2>2. RatOne \in all /\ StaysIn(all, n, step)
    BY <1>2, <2>1 DEF all
  <2>3. \E f \in [0 .. n -> all] : f[0] = RatOne /\ \A i \in 1 .. n : f[i] = step[i][f[i - 1]]
    <3>1. n \in Nat
      OBVIOUS
    <3>2. \E g : Runs(all, n, RatOne, step, g)
      BY <3>1, <2>2, LoopExists
    <3> QED BY <3>2 DEF Runs
  <2> QED BY <2>3 DEF all
<1>4. PICK f \in [0 .. n -> Rats] : f[0] = RatOne /\ \A i \in 1 .. n : f[i] = step[i][f[i - 1]]
  BY <1>3
<1>5. \A i \in 1 .. n : f[i] = Mul(f[i - 1], z)
  <2> SUFFICES ASSUME NEW i \in 1 .. n PROVE f[i] = Mul(f[i - 1], z)
    OBVIOUS
  <2>1. f[i - 1] \in Rats
    OBVIOUS
  <2> QED BY <1>1, <1>4, <2>1
<1> QED BY <1>4, <1>5 DEF Powers

\* A power is the one before it times the number.
LEMMA PowerIs ==
  ASSUME NEW z \in Rats
  PROVE  /\ PowerOf(z, 0) = RatOne
         /\ \A n \in Nat : PowerOf(z, n) \in Rats /\ PowerOf(z, n + 1) = Mul(PowerOf(z, n), z)
         /\ \A n \in Nat : \A f : Powers(z, n, f) => f[n] = PowerOf(z, n)
<1> DEFINE F(n) == CHOOSE f : Powers(z, n, f)
<1>1. \A n \in Nat : Powers(z, n, F(n)) /\ PowerOf(z, n) = F(n)[n]
  BY PowersExist DEF PowerOf
<1> HIDE DEF F
<1>2. PowerOf(z, 0) = RatOne
  BY <1>1 DEF Powers
<1>3. ASSUME NEW n \in Nat
      PROVE  PowerOf(z, n) \in Rats /\ PowerOf(z, n + 1) = Mul(PowerOf(z, n), z)
  <2>1. n \in 0 .. n + 1 /\ n + 1 \in Nat /\ n + 1 \in 1 .. n + 1 /\ (n + 1) - 1 = n /\ n \in 0 .. n
    OBVIOUS
  <2>2. F(n + 1)[n] = F(n)[n]
    BY <1>1, <2>1, PowersAgree
  <2>3. F(n + 1)[n + 1] = Mul(F(n + 1)[n], z)
    BY <1>1, <2>1 DEF Powers
  <2>4. F(n)[n] \in Rats
    BY <1>1, <2>1 DEF Powers
  <2> QED BY <1>1, <2>1, <2>2, <2>3, <2>4
<1>4. ASSUME NEW n \in Nat, NEW f, Powers(z, n, f) PROVE f[n] = PowerOf(z, n)
  <2>1. n \in 0 .. n
    OBVIOUS
  <2> QED BY <1>1, <1>4, <2>1, PowersAgree
<1> QED BY <1>2, <1>3, <1>4

\* Half of an exponent goes to the square.
LEMMA PowerOfSquare ==
  ASSUME NEW z \in Rats, NEW n \in Nat
  PROVE  PowerOf(Mul(z, z), n) = PowerOf(z, 2 * n)
<1> DEFINE w == Mul(z, z)
           P == {k \in 0 .. n : PowerOf(w, k) = PowerOf(z, 2 * k)}
<1>0. w \in Rats
  BY MulLaws
<1>1. 0 \in P
  <2>1. 2 * 0 = 0
    OBVIOUS
  <2> QED BY <1>0, <2>1, PowerIs
<1>2. ASSUME NEW k \in 0 .. n - 1, k \in P PROVE k + 1 \in P
  <2>1. k \in Nat /\ k + 1 \in 0 .. n /\ 2 * k \in Nat /\ 2 * k + 1 \in Nat
        /\ (2 * k + 1) + 1 = 2 * (k + 1)
    OBVIOUS
  <2> DEFINE p == PowerOf(z, 2 * k)
  <2>2. p \in Rats /\ PowerOf(z, 2 * k + 1) = Mul(p, z)
        /\ PowerOf(z, (2 * k + 1) + 1) = Mul(PowerOf(z, 2 * k + 1), z)
    BY <2>1, PowerIs
  <2>3. PowerOf(w, k + 1) = Mul(PowerOf(w, k), w)
    BY <1>0, <2>1, PowerIs
  <2>4. PowerOf(w, k) = p
    BY <1>2
  <2> HIDE DEF p
  <2>5. Mul(Mul(p, z), z) = Mul(p, w)
    BY <2>2, MulLaws
  <2> QED BY <2>1, <2>2, <2>3, <2>4, <2>5
<1>3. 0 .. n \subseteq P
  <2> HIDE DEF P
  <2> QED BY <1>1, <1>2, ByCounting
<1> QED BY <1>3

\* The power of a reciprocal is the reciprocal of the power.
LEMMA PowerOfReciprocal ==
  ASSUME NEW z \in Rats, z.num # 0, NEW n \in Nat
  PROVE  PowerOf(z, n).num # 0 /\ PowerOf(Reciprocal(z), n) = Reciprocal(PowerOf(z, n))
<1> DEFINE w == Reciprocal(z)
           P == {k \in 0 .. n : PowerOf(z, k).num # 0 /\ PowerOf(w, k) = Reciprocal(PowerOf(z, k))}
<1>0. w \in Rats
  BY ReciprocalLaws
<1>1. 0 \in P
  <2>1. 0 \in 0 .. n
    OBVIOUS
  <2>2. PowerOf(z, 0) = RatOne /\ PowerOf(w, 0) = RatOne
    BY <1>0, PowerIs
  <2> QED BY <2>1, <2>2, ReciprocalLaws
<1>2. ASSUME NEW k \in 0 .. n - 1, k \in P PROVE k + 1 \in P
  <2>1. k \in Nat /\ k + 1 \in 0 .. n
    OBVIOUS
  <2>2. /\ PowerOf(z, k + 1) = Mul(PowerOf(z, k), z) /\ PowerOf(z, k) \in Rats
        /\ PowerOf(w, k + 1) = Mul(PowerOf(w, k), w)
    BY <1>0, <2>1, PowerIs
  <2>3. PowerOf(z, k).num # 0 /\ PowerOf(w, k) = Reciprocal(PowerOf(z, k))
    BY <1>2
  <2>4. Mul(PowerOf(z, k), z).num # 0
        /\ Reciprocal(Mul(PowerOf(z, k), z)) = Mul(Reciprocal(PowerOf(z, k)), w)
    BY <2>2, <2>3, ReciprocalLaws
  <2> QED BY <2>1, <2>2, <2>3, <2>4
<1>3. 0 .. n \subseteq P
  <2> HIDE DEF P
  <2> QED BY <1>1, <1>2, ByCounting
<1> QED BY <1>3

\* The loop of PowRat: what is to be multiplied yet makes up the power with what has been.
LEMMA PowRatIs ==
  ASSUME NEW z \in Rats, NEW exp \in Int, exp < 0 => z.num # 0
  PROVE  PowRat(z, exp) = IF exp < 0 THEN Reciprocal(PowerOf(z, Abs(exp))) ELSE PowerOf(z, Abs(exp))
<1> DEFINE n == Abs(exp)
           base == IF exp < 0 THEN Reciprocal(z) ELSE z
           first == [dst |-> RatOne, tmp |-> base, exp |-> n]
           next(l) == IF l.exp = 0 THEN l
                      ELSE [dst |-> IF l.exp % 2 = 1 THEN Mul(l.dst, l.tmp) ELSE l.dst,
                            tmp |-> Mul(l.tmp, l.tmp), exp |-> l.exp \div 2]
           U == [dst : Rats, tmp : Rats, exp : Nat]
           step == [i \in 1 .. n |-> [u \in U |-> next(u)]]
           Loop(g) == g = [k \in 0 .. n |-> IF k = 0 THEN first ELSE next(g[k - 1])]
           loop == CHOOSE g : Loop(g)
<1>1. n \in Nat /\ base \in Rats /\ PowerOf(base, n) \in Rats
  BY SignIs, ReciprocalLaws, PowerIs
<1>2. PowRat(z, exp) = loop[n].dst
  BY DEF PowRat, RatOne
<1> HIDE DEF n, base
<1>3. ASSUME NEW l \in U PROVE next(l) \in U
  <2>1. l.dst \in Rats /\ l.tmp \in Rats /\ l.exp \in Nat
    OBVIOUS
  <2>2. Mul(l.dst, l.tmp) \in Rats /\ Mul(l.tmp, l.tmp) \in Rats
    BY <2>1, MulLaws
  <2>3. l.exp \div 2 \in Nat
    BY <2>1
  <2> QED BY <2>1, <2>2, <2>3
<1>4. first \in U
  BY <1>1, RatsAre
<1> HIDE DEF U, next
<1>5. \A i \in 1 .. n : \A u \in U : step[i][u] = next(u)
  OBVIOUS
<1> HIDE DEF step, first
<1>6. StaysIn(U, n, step)
  BY <1>3, <1>5 DEF StaysIn
<1>7. \E g : Loop(g)
  <2>3. n \in Nat
    BY <1>1
  <2>0. \E f \in [0 .. n -> U] : f[0] = first /\ \A i \in 1 .. n : f[i] = step[i][f[i - 1]]
    <3>1. \E f : Runs(U, n, first, step, f)
      BY <2>3, <1>4, <1>6, LoopExists
    <3> QED BY <3>1 DEF Runs
  <2>1. PICK f \in [0 .. n -> U] : f[0] = first /\ \A i \in 1 .. n : f[i] = step[i][f[i - 1]]
    BY <2>0
  <2>2. \A i \in 0 .. n : f[i] = IF i = 0 THEN first ELSE next(f[i - 1])
    <3> SUFFICES ASSUME NEW i \in 0 .. n PROVE f[i] = IF i = 0 THEN first ELSE next(f[i - 1])
      OBVIOUS
    <3>1. CASE i = 0
      BY <2>1, <3>1
    <3>2. CASE i # 0
      <4>1. i \in 1 .. n /\ i - 1 \in 0 .. n
        BY <1>1, <3>2
      <4>2. f[i - 1] \in U
        BY <4>1
      <4> QED BY <1>5, <2>1, <3>2, <4>1, <4>2
    <3> QED BY <3>1, <3>2
  <2>4. f = [i \in 0 .. n |-> IF i = 0 THEN first ELSE next(f[i - 1])]
    BY <2>2
  <2> QED BY <2>4
<1>8. Loop(loop)
  BY <1>7
<1> HIDE DEF loop
<1>9. loop[0] = first /\ \A i \in 1 .. n : loop[i] = next(loop[i - 1])
  <2>1. \A i \in 1 .. n : i \in 0 .. n /\ i # 0
    BY <1>1
  <2>2. 0 \in 0 .. n
    BY <1>1
  <2> QED BY <1>8, <2>1, <2>2
<1> DEFINE goal == PowerOf(base, n)
           Inv(k, l) == l \in U /\ l.exp <= n - k /\ Mul(l.dst, PowerOf(l.tmp, l.exp)) = goal
           P == {k \in 0 .. n : Inv(k, loop[k])}
<1>10. 0 \in P
  <2>1. first.dst = RatOne /\ first.tmp = base /\ first.exp = n /\ n <= n - 0 /\ 0 \in 0 .. n
    BY <1>1 DEF first
  <2> QED BY <1>1, <1>4, <1>9, <2>1, MulLaws
<1>11. ASSUME NEW k \in 0 .. n - 1, k \in P PROVE k + 1 \in P
  <2> DEFINE l == loop[k]
  <2>1. k + 1 \in 1 .. n /\ k + 1 \in 0 .. n /\ (k + 1) - 1 = k /\ k \in Nat
    BY <1>1
  <2>2. Inv(k, l) /\ loop[k + 1] = next(l)
    BY <1>9, <1>11, <2>1
  <2> HIDE DEF l
  <2>3. l.dst \in Rats /\ l.tmp \in Rats /\ l.exp \in Nat
    BY <2>2 DEF U
  <2>4. next(l) \in U
    BY <1>3, <2>2
  <2>5. CASE l.exp = 0
    <3>1. next(l) = l
      BY <2>5 DEF next
    <3>2. 0 <= n - (k + 1)
      BY <1>1, <2>1
    <3> QED BY <2>1, <2>2, <2>5, <3>1, <3>2
  <2>6. CASE l.exp # 0
    <3> DEFINE h == l.exp \div 2
               sq == Mul(l.tmp, l.tmp)
               p == PowerOf(sq, h)
    <3>1. h \in Nat /\ h <= n - (k + 1)
      <4>1. l.exp \in Nat \ {0} /\ l.exp <= n - k
        BY <2>2, <2>3, <2>6
      <4> QED BY <1>1, <2>1, <4>1
    <3>2. sq \in Rats /\ p \in Rats /\ p = PowerOf(l.tmp, 2 * h)
      BY <2>3, <3>1, MulLaws, PowerIs, PowerOfSquare
    <3>3. next(l).tmp = sq /\ next(l).exp = h
      BY <2>6 DEF next
    <3>4. CASE l.exp % 2 = 1
      <4>1. next(l).dst = Mul(l.dst, l.tmp)
        BY <2>6, <3>4 DEF next
      <4>2. l.exp = 2 * h + 1 /\ 2 * h \in Nat
        BY <2>3, <3>4
      <4> HIDE DEF h, sq
      <4>3. PowerOf(l.tmp, 2 * h + 1) = Mul(PowerOf(l.tmp, 2 * h), l.tmp)
        BY <2>3, <4>2, PowerIs
      <4>6. PowerOf(l.tmp, l.exp) = Mul(p, l.tmp)
        BY <3>2, <4>2, <4>3
      <4> HIDE DEF p
      <4>4. Mul(Mul(l.dst, l.tmp), p) = Mul(l.dst, Mul(p, l.tmp))
        <5>1. \A a, b, c \in Rats : Mul(Mul(a, b), c) = Mul(a, Mul(c, b))
          <6> SUFFICES ASSUME NEW a \in Rats, NEW b \in Rats, NEW c \in Rats
                       PROVE  Mul(Mul(a, b), c) = Mul(a, Mul(c, b))
            OBVIOUS
          <6>1. Mul(b, c) = Mul(c, b)
            BY MulLaws
          <6>2. Mul(Mul(a, b), c) = Mul(a, Mul(b, c))
            BY MulLaws
          <6> QED BY <6>1, <6>2
        <5>2. l.dst \in Rats /\ l.tmp \in Rats /\ p \in Rats
          BY <2>3, <3>2
        <5> QED BY <5>1, <5>2
      <4>5. Mul(next(l).dst, PowerOf(next(l).tmp, next(l).exp)) = goal
        BY <2>2, <3>3, <4>1, <4>6, <4>4 DEF p
      <4> QED BY <2>1, <2>2, <2>4, <3>1, <3>3, <4>5
    <3>5. CASE l.exp % 2 # 1
      <4>1. next(l).dst = l.dst
        BY <2>6, <3>5 DEF next
      <4>2. l.exp = 2 * h
        BY <2>3, <3>5
      <4> HIDE DEF h, sq
      <4>3. Mul(next(l).dst, PowerOf(next(l).tmp, next(l).exp)) = goal
        BY <2>2, <3>2, <3>3, <4>1, <4>2
      <4> QED BY <2>1, <2>2, <2>4, <3>1, <3>3, <4>3
    <3> QED BY <3>4, <3>5
  <2> QED BY <2>5, <2>6
<1>12. 0 .. n \subseteq P
  <2> HIDE DEF P
  <2> QED BY <1>1, <1>10, <1>11, ByCounting
<1>13. loop[n].dst = goal
  <2>1. Inv(n, loop[n])
    BY <1>1, <1>12
  <2> DEFINE l == loop[n]
  <2> HIDE DEF l
  <2>2. l.dst \in Rats /\ l.tmp \in Rats /\ l.exp \in Nat /\ l.exp <= n - n
    BY <2>1 DEF U, l
  <2>3. l.exp = 0
    BY <1>1, <2>2
  <2>4. Mul(l.dst, RatOne) = goal
    BY <2>1, <2>2, <2>3, PowerIs DEF l
  <2>5. Mul(l.dst, RatOne) = l.dst
    BY <2>2, MulLaws, RatsAre
  <2> QED BY <2>4, <2>5 DEF l
<1>14. goal = IF exp < 0 THEN Reciprocal(PowerOf(z, n)) ELSE PowerOf(z, n)
  BY <1>1, PowerOfReciprocal DEF base
<1> QED BY <1>2, <1>13, <1>14 DEF n

-----------------------------------------------------------------------------
(* What is answered                                                        *)

\* An integer is a number with the denominator 1.
LEMMA WholeRat ==
  ASSUME NEW a \in Int
  PROVE  Rat(a, 1).num = a /\ Rat(a, 1).den = 1
<1> DEFINE x == Rat(a, 1)
<1>1. /\ x.num \in Int /\ x.num * 1 = a * x.den
      /\ x.den \in Dens(a, 1) /\ \A d \in Dens(a, 1) : x.den <= d
  <2>1. 1 \in Int /\ 1 # 0
    OBVIOUS
  <2> QED BY <2>1, RatIs
<1> HIDE DEF x
<1>2. 1 \in Dens(a, 1)
  BY DEF Dens
<1>3. x.den \in Nat \ {0} /\ x.den <= 1
  BY <1>1, <1>2 DEF Dens
<1>4. x.den = 1
  BY <1>3
<1> QED BY <1>1, <1>4 DEF x

CalcOps == {"!", "P", "C", "^", "//", "%", "/"}

\* An input has tokens, and operands are numbers.
CalcTyped ==
  calcJob \in [do : {"parse"}, input : Seq(CalcTokens)]
                \cup [do : {"eval"}, op : CalcOps, x : Operands, y : Operands]

\* Operands are numbers.
LEMMA OperandsAre ==
  ASSUME NEW x \in Operands
  PROVE  x \in Rats /\ x.num \in Int /\ x.den \in Nat \ {0}
<1>1. PICK num \in -MaxNum .. MaxNum, den \in 1 .. MaxDen : x = Rat(num, den)
  BY DEF Operands
<1>2. num \in Int /\ den \in Int \ {0}
  OBVIOUS
<1> QED BY <1>1, <1>2, RatsAre, PartsOfRat

\* What is answered is what was computed, and it is not too big.
LEMMA Answered ==
  ASSUME NEW z, CheckRatResult(z).is = "ok"
  PROVE  CheckRatResult(z).val = z /\ ~TooBig(z.num) /\ ~TooBig(z.den)
BY DEF CheckRatResult, CalcError, Ok

\* The loop that multiplies as often as the exponent says.
LEMMA ProductIs ==
  ASSUME NEW z \in Rats, NEW n \in Nat
  PROVE  (CHOOSE g : g = [k \in 0 .. n |-> IF k = 0 THEN RatOne ELSE Mul(g[k - 1], z)])[n]
           = PowerOf(z, n)
<1> DEFINE Loop(g) == g = [k \in 0 .. n |-> IF k = 0 THEN RatOne ELSE Mul(g[k - 1], z)]
           product == CHOOSE g : Loop(g)
<1>1. \E g : Loop(g)
  <2>1. PICK f : Powers(z, n, f)
    BY PowersExist
  <2>2. \A k \in 0 .. n : f[k] = IF k = 0 THEN RatOne ELSE Mul(f[k - 1], z)
    BY <2>1 DEF Powers
  <2>3. f = [k \in 0 .. n |-> IF k = 0 THEN RatOne ELSE Mul(f[k - 1], z)]
    BY <2>1, <2>2 DEF Powers
  <2> QED BY <2>3
<1>2. Loop(product)
  BY <1>1
<1> HIDE DEF product
<1>3. /\ product = [k \in 0 .. n |-> product[k]] /\ product[0] = RatOne
      /\ \A i \in 1 .. n : product[i] = Mul(product[i - 1], z)
  <2>1. \A i \in 1 .. n : i \in 0 .. n /\ i # 0
    OBVIOUS
  <2>2. 0 \in 0 .. n
    OBVIOUS
  <2> QED BY <1>2, <2>1, <2>2
<1> DEFINE P == {k \in 0 .. n : product[k] \in Rats}
<1>4. 0 \in P
  BY <1>3, RatsAre
<1>5. ASSUME NEW k \in 0 .. n - 1, k \in P PROVE k + 1 \in P
  <2>1. k + 1 \in 1 .. n /\ (k + 1) - 1 = k /\ k + 1 \in 0 .. n /\ product[k] \in Rats
    BY <1>5
  <2>2. product[k + 1] = Mul(product[k], z)
    BY <1>3, <2>1
  <2> QED BY <2>1, <2>2, MulLaws
<1>6. 0 .. n \subseteq P
  <2> HIDE DEF P
  <2> QED BY <1>4, <1>5, ByCounting
<1>7. Powers(z, n, product)
  BY <1>3, <1>6 DEF Powers
<1>8. product[n] = PowerOf(z, n)
  BY <1>7, PowerIs
<1> QED BY <1>8 DEF product

\* The results of the loops are those of the definitions, within the limit of size.
LEMMA ExactResults ==
  CalcTyped => ResultIsExact
<1> SUFFICES ASSUME CalcTyped, calcJob.do = "eval", Result.is = "ok" PROVE ResultIsExact
  BY DEF ResultIsExact
<1> DEFINE x == calcJob.x
           y == calcJob.y
           op == calcJob.op
           z == Result.val
<1>1. op \in CalcOps /\ x \in Operands /\ y \in Operands
  BY DEF CalcTyped
<1>2. Result = Eval(op, x, y)
  BY DEF Result
<1> HIDE DEF x, y, op, z
<1>3. /\ x \in Rats /\ x.num \in Int /\ x.den \in Nat \ {0}
      /\ y \in Rats /\ y.num \in Int /\ y.den \in Nat \ {0}
  BY <1>1, OperandsAre
<1> DEFINE Small == ~TooBig(z.num) /\ ~TooBig(z.den)
           Product == (CHOOSE g : g = [k \in 0 .. Abs(y.num) |->
                                         IF k = 0 THEN RatOne ELSE Mul(g[k - 1], x)])[Abs(y.num)]
           Exact == CASE op = "!" -> z.num = FactorialInt(x.num)
                      [] op = "P" -> z.num * FactorialInt(x.num - y.num) = FactorialInt(x.num)
                      [] op = "C" -> z.num * FactorialInt(y.num) * FactorialInt(x.num - y.num)
                                       = FactorialInt(x.num)
                      [] op = "^" -> z = IF y.num >= 0 THEN Product ELSE Reciprocal(Product)
                      [] OTHER -> TRUE
<1>0. \A what : what # "ok" => Result # CalcError(what)
  BY DEF CalcError
<1>4. SUFFICES Small /\ (Fits(x) /\ Fits(y) => Exact)
  BY DEF ResultIsExact, x, y, op, z, RatOne
<1>5. CASE op = "!"
  <2> DEFINE n == Int64(x.num)
  <2>1. Eval(op, x, y) = EvalFactorial(x)
    BY <1>5 DEF Eval
  <2>5. Result = IF ~IsInt(x) THEN CalcError("requires int")
                 ELSE IF n < 0 THEN CalcError("negative")
                 ELSE CheckRatResult(Rat(FactorialInt(n), 1))
    BY <1>2, <2>1 DEF EvalFactorial
  <2> HIDE DEF n
  <2>2. Result = CheckRatResult(Rat(FactorialInt(n), 1)) /\ ~(n < 0)
    BY <1>0, <2>5
  <2>3. z = Rat(FactorialInt(n), 1) /\ Small
    BY <2>2, Answered DEF z
  <2>4. ASSUME Fits(x), Fits(y) PROVE z.num = FactorialInt(x.num)
    <3>1. n = x.num
      BY <2>4 DEF Fits, n
    <3>2. x.num \in Nat
      BY <1>3, <2>2, <3>1
    <3>3. FactorialInt(x.num) \in Int
      <4>1. FactorialInt(x.num) \in Nat \ {0}
        BY <3>2, FactorialIs
      <4> QED BY <4>1
    <3> QED BY <2>3, <3>1, <3>3, WholeRat
  <2> QED BY <1>5, <2>3, <2>4
<1>6. CASE op \in {"P", "C"}
  <2> DEFINE n == Int64(x.num)
             r == Int64(y.num)
             count == IF op = "P" THEN PermInt(n, r) ELSE CombInt(n, r)
  <2>1. Eval(op, x, y) = Selection(x, y, count)
    BY <1>6 DEF Eval
  <2> HIDE DEF count
  <2>5. Result = IF ~IsInt(x) \/ ~IsInt(y) THEN CalcError("requires int")
                 ELSE IF n < 0 \/ r < 0 \/ r > n THEN CalcError("invalid")
                 ELSE CheckRatResult(Rat(count, 1))
    BY <1>2, <2>1 DEF Selection
  <2> HIDE DEF n, r
  <2>2. Result = CheckRatResult(Rat(count, 1)) /\ ~(n < 0) /\ ~(r < 0) /\ ~(r > n)
    BY <1>0, <2>5
  <2>3. z = Rat(count, 1) /\ Small
    BY <2>2, Answered DEF z
  <2>4. ASSUME Fits(x), Fits(y) PROVE Exact
    <3>1. n = x.num /\ r = y.num
      BY <2>4 DEF Fits, n, r
    <3>2. x.num \in Nat /\ y.num \in 0 .. x.num /\ x.num - y.num \in Nat /\ y.num \in Nat
      BY <1>3, <2>2, <3>1
    <3>3. CASE op = "P"
      <4>1. count = PermInt(x.num, y.num)
        BY <3>1, <3>3 DEF count
      <4>2. count \in Nat /\ count * FactorialInt(x.num - y.num) = FactorialInt(x.num)
        BY <3>2, <4>1, PermIs
      <4>3. z.num = count
        BY <2>3, <4>2, WholeRat
      <4> QED BY <3>3, <4>2, <4>3
    <3>4. CASE op = "C"
      <4>1. count = CombInt(x.num, y.num)
        BY <3>1, <3>4 DEF count
      <4>2. count \in Nat
            /\ count * (FactorialInt(y.num) * FactorialInt(x.num - y.num)) = FactorialInt(x.num)
        BY <3>2, <4>1, CombIs
      <4>3. z.num = count
        BY <2>3, <4>2, WholeRat
      <4> DEFINE a == FactorialInt(y.num)
                 b == FactorialInt(x.num - y.num)
      <4>4. a \in Nat /\ b \in Nat
        BY <3>2, FactorialIs
      <4>5. count * a * b = count * (a * b)
        <5> HIDE DEF a, b
        <5> QED BY <4>2, <4>4
      <4> QED BY <3>4, <4>2, <4>3, <4>5
    <3> QED BY <1>6, <3>3, <3>4
  <2> QED BY <2>3, <2>4
<1>7. CASE op = "^"
  <2>1. Eval(op, x, y) = EvalPow(x, y)
    BY <1>7 DEF Eval
  <2>8. Result = IF ~IsInt(y) THEN CalcError("float")
                 ELSE IF y.num < 0 /\ x.num = 0 THEN CalcError("by zero")
                 ELSE IF Abs(y.num) >= 2 ^ (CalcWidth - 2) THEN CalcError("too big")
                 ELSE CheckRatResult(PowRat(x, y.num))
    BY <1>2, <2>1 DEF EvalPow
  <2>2. Result = CheckRatResult(PowRat(x, y.num)) /\ ~(y.num < 0 /\ x.num = 0)
    <3> DEFINE huge == Abs(y.num) >= 2 ^ (CalcWidth - 2)
    <3> HIDE DEF huge
    <3>1. Result = IF ~IsInt(y) THEN CalcError("float")
                   ELSE IF y.num < 0 /\ x.num = 0 THEN CalcError("by zero")
                   ELSE IF huge THEN CalcError("too big")
                   ELSE CheckRatResult(PowRat(x, y.num))
      BY <2>8 DEF huge
    <3> QED BY <1>0, <3>1
  <2>3. z = PowRat(x, y.num) /\ Small
    BY <2>2, Answered DEF z
  <2>4. Abs(y.num) \in Nat
    BY <1>3, SignIs
  <2>5. Product = PowerOf(x, Abs(y.num))
    BY <1>3, <2>4, ProductIs
  <2> HIDE DEF Product
  <2>6. z = IF y.num < 0 THEN Reciprocal(Product) ELSE Product
    BY <1>3, <2>2, <2>3, <2>5, PowRatIs
  <2>7. y.num < 0 <=> ~(y.num >= 0)
    BY <1>3
  <2> QED BY <1>7, <2>3, <2>6, <2>7
<1>8. CASE op \notin {"!", "P", "C", "^"}
  <2>1. Exact
    BY <1>8
  <2>2. Small
    <3>1. PICK v : Result = CheckRatResult(v)
      <4>1. CASE op = "//"
        BY <1>2, <4>1 DEF Eval, EvalFloorDiv, CalcError
      <4>2. CASE op = "%"
        BY <1>2, <4>2 DEF Eval, EvalMod, CalcError
      <4>3. CASE op = "/"
        BY <1>2, <4>3 DEF Eval, CalcError
      <4> QED BY <1>1, <1>8, <4>1, <4>2, <4>3 DEF CalcOps
    <3> QED BY <3>1, Answered DEF z
  <2> QED BY <2>1, <2>2
<1> QED BY <1>5, <1>6, <1>7, <1>8

\* Quotient and remainder make up the dividend.
LEMMA QuotientsFit ==
  CalcTyped => DivModFit
<1> DEFINE x == calcJob.x
           y == calcJob.y
           z == Result.val
           rest == Eval("%", x, y)
<1> SUFFICES ASSUME CalcTyped, calcJob.do = "eval", calcJob.op = "//", Result.is = "ok",
                    IsInt(x), IsInt(y), x.num >= 0, rest.is = "ok"
             PROVE  x.num = z.num * y.num + rest.val.num
  BY DEF DivModFit
<1>1. x \in Operands /\ y \in Operands
  BY DEF CalcTyped
<1>2. Result = Eval("//", x, y)
  BY DEF Result
<1> HIDE DEF x, y, z
<1>3. x.num \in Nat /\ x.den = 1 /\ y.num \in Int /\ y.den = 1
  BY <1>1, OperandsAre DEF IsInt
<1> DEFINE a == x.num
           b == y.num
           m == Abs(b)
           q == Quo(a, b)
           r == a % m
<1>4. b # 0 /\ rest = CheckRatResult(Rat(r, 1))
  BY DEF Eval, EvalMod, CalcError
<1>5. Result = CheckRatResult(Rat(Quo(a * y.den, x.den * b), 1))
  BY <1>2 DEF Eval, EvalFloorDiv, CalcError
<1>6. a * y.den = a /\ x.den * b = b
  BY <1>3
<1>7. z = Rat(q, 1) /\ rest.val = Rat(r, 1)
  BY <1>4, <1>5, <1>6, Answered DEF z
<1>8. a \in Nat /\ b \in Int
  BY <1>3
<1> HIDE DEF a, b, rest
<1>9. m \in Nat \ {0} /\ Sign(b) \in Int /\ Sign(b) * b = m
  BY <1>4, <1>8, SignIs
<1> HIDE DEF m
<1>10. a \div m \in Int /\ r \in Int /\ a = (a \div m) * m + r
  <2>1. a \in Int
    BY <1>8
  <2>2. a \div m \in Int /\ a % m \in 0 .. m - 1 /\ a = (a \div m) * m + (a % m)
    BY <1>9, <2>1, DivisionIs
  <2> QED BY <2>2
<1> DEFINE d == a \div m
<1>11. q = Sign(a) * Sign(b) * d
  <2>1. Abs(a) = a
    BY <1>8 DEF Abs
  <2> QED BY <2>1 DEF Quo, m
<1>12. a = 0 => d = 0
  BY <1>9
<1>13. Sign(a) * d = d /\ Sign(a) \in Int
  <2>1. CASE a = 0
    <3>1. d = 0 /\ Sign(a) = 0
      BY <1>12, <2>1 DEF Sign
    <3> QED BY <3>1
  <2>2. CASE a # 0
    <3>1. Sign(a) = 1
      BY <1>8, <2>2 DEF Sign
    <3> QED BY <1>10, <3>1
  <2> QED BY <2>1, <2>2
<1> HIDE DEF d, r, q
<1>14. q * b = d * m /\ q \in Int
  <2> DEFINE s == Sign(a)
             t == Sign(b)
  <2>1. s \in Int /\ t \in Int /\ d \in Int
    BY <1>9, <1>10, <1>13 DEF d
  <2>2. q = s * t * d
    BY <1>11
  <2> HIDE DEF s, t
  <2>3. (s * t * d) * b = (s * d) * (t * b)
    BY <1>8, <2>1
  <2> QED BY <1>9, <1>13, <2>1, <2>2, <2>3 DEF s, t
<1>15. z.num = q /\ rest.val.num = r
  BY <1>7, <1>10, <1>14, WholeRat
<1> QED BY <1>10, <1>14, <1>15 DEF a, b, d

\* A job of the calculator is an input of tokens, or an operation on numbers.
LEMMA CalcIsTyped ==
  CalcSpec => []CalcTyped
<1>1. CalcInit => CalcTyped
  BY DEF CalcInit, CalcTyped
<1>2. CalcTyped /\ [CalcNext]_calcJob => CalcTyped'
  <2> SUFFICES ASSUME CalcTyped, [CalcNext]_calcJob PROVE CalcTyped'
    OBVIOUS
  <2>1. CASE Type
    <3>1. calcJob \in [do : {"parse"}, input : Seq(CalcTokens)]
      BY <2>1 DEF Type, CalcTyped
    <3>2. PICK tok \in CalcTokens : calcJob' = [calcJob EXCEPT !.input = Append(@, tok)]
      BY <2>1 DEF Type
    <3>3. Append(calcJob.input, tok) \in Seq(CalcTokens)
      BY <3>1
    <3> QED BY <3>1, <3>2, <3>3 DEF CalcTyped
  <2>2. CASE Calculate
    BY <2>2 DEF Calculate, CalcTyped, CalcOps
  <2>3. CASE UNCHANGED calcJob
    BY <2>3 DEF CalcTyped
  <2> QED BY <2>1, <2>2, <2>3 DEF CalcNext
<1> QED BY <1>1, <1>2, PTL DEF CalcSpec

\* An input is understood as it is written and answered with its value, for every set
\* of tokens, every length, all operands and every width (parse, evalBinary).
THEOREM AlwaysCalculatesRight ==
  CalcSpec => []CalculatesRight
<1>1. CalcTyped => CalculatesRight
  <2> SUFFICES ASSUME CalcTyped PROVE CalculatesRight
    OBVIOUS
  <2>1. calcJob.do = "parse" => Len(calcJob.input) \in Nat
    <3>1. calcJob.do = "parse" => calcJob.input \in Seq(CalcTokens)
      BY DEF CalcTyped
    <3> QED BY <3>1
  <2> QED BY <2>1, ParsesAsWritten, ParsesExpressions, ExactResults, QuotientsFit
          DEF CalculatesRight
<1> QED BY <1>1, CalcIsTyped, PTL
=============================================================================
