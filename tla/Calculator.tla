------------------------------ MODULE Calculator -----------------------------
(***************************************************************************)
(* The calculator of helpers/mathparser: the parser, by binding powers,    *)
(* and the operations.  A number or a name is the token "n"; an operation  *)
(* stands for all of its binding powers ("*" for * / //, "C" for P and C). *)
(* The node of a bracket, which the code does not build, tells what the    *)
(* tree was read from.                                                     *)
(*                                                                         *)
(* Of the operations, big.Int.Int64 keeps the low CalcWidth bits.  Results *)
(* of floating-point functions are left out, and the estimates of sizes    *)
(* by logarithms are exact.                                                *)
(***************************************************************************)
EXTENDS Integers, SequencesExt, FiniteSetsExt

CONSTANTS
  CalcTokens,       \* of an input
  MaxTokens,        \* bound: the length of an input
  CalcWidth,        \* 64
  maxResultBits,
  MaxNum, MaxDen    \* bounds: the operands

VARIABLE calcJob    \* an input, or an operation and its operands

precLowest  == 0
precAdd     == 1
precMul     == 2
precUnary   == 3
precPow     == 4
precPostfix == 5

prefixOps == {"(", "|", "+", "-", "sqrt"}

PrefixBp(tok) == IF tok \in {"(", "|"} THEN precLowest ELSE precUnary

Closing(tok) == IF tok = "(" THEN ")" ELSE "|"

\* Fault: ^ is read from the left.
LeftBp ==
  [tok \in {"+", "-", "*", "%", "^", "C", "!"} |->
     LET bp == CASE tok \in {"+", "-"} -> precAdd
                 [] tok \in {"*", "%"} -> precMul
                 [] tok = "^"          -> precPow
                 [] tok \in {"C", "!"} -> precPostfix
     IN  [left |-> bp, right |-> bp]]

InfixBp ==
  [tok \in {"+", "-", "*", "%", "^", "C", "!"} |->
     CASE tok \in {"+", "-"} -> [left |-> precAdd, right |-> precAdd]
       [] tok \in {"*", "%"} -> [left |-> precMul, right |-> precMul]
       [] tok = "^"          -> [left |-> precPow, right |-> precPow - 1]
       [] tok \in {"C", "!"} -> [left |-> precPostfix, right |-> precPostfix]]

\* A node of a tree: where its token is and the tokens of its operands (pos, left and right),
\* and the piece of the input that it was read from, up to the token before "to".
Nodes(s) ==
  [kind : {"leaf", "group", "prefix", "postfix", "infix"}, pos : 1 .. Len(s),
   left : 0 .. Len(s), right : 0 .. Len(s), from : 1 .. Len(s), to : 1 .. Len(s) + 1]

NoNode == [kind |-> "none", pos |-> 0, left |-> 0, right |-> 0, from |-> 0, to |-> 0]

Leaf(i) == [kind |-> "leaf", pos |-> i, left |-> 0, right |-> 0, from |-> i, to |-> i + 1]

\* What comes after its operand, or between its two.
Infix(left, i, right) ==
  [kind |-> "infix", pos |-> i, left |-> left.pos, right |-> right.pos,
   from |-> left.from, to |-> right.to]
Postfix(left, i) ==
  [kind |-> "postfix", pos |-> i, left |-> left.pos, right |-> 0, from |-> left.from, to |-> i + 1]

\* What comes before its operand.
Before(kind, i, right, to) ==
  [kind |-> kind, pos |-> i, left |-> 0, right |-> right.pos, from |-> i, to |-> to]

\* What has been read: the nodes, the one on top of them, and the next token.
Parsed(nodes, root, pos) == [ok |-> TRUE, nodes |-> nodes \cup {root}, root |-> root, pos |-> pos]
ParseError == [ok |-> FALSE, nodes |-> {}, root |-> NoNode, pos |-> 0]

\* Fault: no look at the token after a %.
AlwaysModulo(s, i) == FALSE

\* A % is a postfix unless the next token can start an expression.
IsPercent(s, i) ==
  s[i] = "%" /\ (i = Len(s) \/ s[i + 1] \notin prefixOps \cup {"n"})

PercentBp == [left |-> precPostfix, right |-> precPostfix]

\* parseExpression from a token on, or its loop, with what has been read as the left operand.
Call(at, minBP, left) == [at |-> at, minBP |-> minBP, left |-> left]
Calls(s) ==
  [at : 1 .. Len(s) + 1, minBP : precLowest .. precPostfix, left : Nodes(s) \cup {NoNode}]

ParsePrefix(s, i, parse) ==
  IF i > Len(s) THEN ParseError
  ELSE IF s[i] = "n" THEN Parsed({}, Leaf(i), i + 1)
  ELSE IF s[i] \notin prefixOps THEN ParseError
  ELSE LET right == parse[Call(i + 1, PrefixBp(s[i]), NoNode)]
       IN  IF ~right.ok THEN ParseError
           ELSE IF PrefixBp(s[i]) = precUnary
                THEN Parsed(right.nodes, Before("prefix", i, right.root, right.pos), right.pos)
           ELSE IF right.pos <= Len(s) /\ s[right.pos] = Closing(s[i])
                THEN Parsed(right.nodes, Before("group", i, right.root, right.pos + 1),
                            right.pos + 1)
           ELSE ParseError

\* The loop goes on with what has been read so far.
Continue(parse, read, minBP) ==
  LET rest == parse[Call(read.pos, minBP, read.root)]
  IN  IF rest.ok THEN Parsed(read.nodes \cup rest.nodes, rest.root, rest.pos) ELSE ParseError

\* The loop: operations on what has been read, as long as they bind tighter.
ParseRest(s, left, i, minBP, parse) ==
  IF i > Len(s) \/ s[i] \notin DOMAIN InfixBp THEN Parsed({}, left, i)
  ELSE LET percent == IsPercent(s, i)
           bp == IF percent THEN PercentBp ELSE InfixBp[s[i]]
       IN  IF bp.left <= minBP THEN Parsed({}, left, i)
           ELSE IF percent \/ s[i] = "!"
                THEN Continue(parse, Parsed({}, Postfix(left, i), i + 1), minBP)
           ELSE LET right == parse[Call(i + 1, bp.right, NoNode)]
                IN  IF right.ok
                    THEN Continue(parse, Parsed(right.nodes, Infix(left, i, right.root), right.pos),
                                  minBP)
                    ELSE ParseError

ParseExpression(s, i, minBP, parse) ==
  LET left == ParsePrefix(s, i, parse)
  IN  IF left.ok THEN Continue(parse, left, minBP) ELSE ParseError

Parser(s) ==
  LET parse[c \in Calls(s)] ==
        IF c.left = NoNode THEN ParseExpression(s, c.at, c.minBP, parse)
        ELSE ParseRest(s, c.left, c.at, c.minBP, parse)
  IN  parse

Parse(s) ==
  LET p == Parser(s)[Call(1, precLowest, NoNode)]
  IN  IF p.ok /\ p.pos > Len(s) THEN p ELSE ParseError
-----------------------------------------------------------------------------
(* Operations                                                              *)

Abs(x) == IF x < 0 THEN -x ELSE x
Sign(x) == IF x > 0 THEN 1 ELSE IF x < 0 THEN -1 ELSE 0

\* A big.Rat is in lowest terms.
Rat(num, den) ==
  LET low == Min({d \in 1 .. Abs(den) : (num * d) % Abs(den) = 0})
  IN  [num |-> (Sign(den) * num * low) \div Abs(den), den |-> low]

Mul(x, y) == Rat(x.num * y.num, x.den * y.den)
Reciprocal(x) == Rat(x.den, x.num)

IsInt(x) == x.den = 1

TooBig(n) == Abs(n) >= 2 ^ maxResultBits

Ok(x) == [is |-> "ok", val |-> x]
CalcError(what) == [is |-> what, val |-> Rat(0, 1)]

CheckRatResult(x) == IF TooBig(x.num) \/ TooBig(x.den) THEN CalcError("too big") ELSE Ok(x)

\* big.Int.Int64 of a number that does not fit.
Int64(n) == ((n + 2 ^ (CalcWidth - 1)) % 2 ^ CalcWidth) - 2 ^ (CalcWidth - 1)

FactorialInt(n) ==
  LET dst[i \in 0 .. n] == IF i < 2 THEN 1 ELSE dst[i - 1] * i
  IN  dst[n]

PermInt(n, r) ==
  LET dst[i \in 0 .. r] == IF i = 0 THEN 1 ELSE dst[i - 1] * (n - (i - 1))
  IN  dst[r]

\* Fault: the division comes before the multiplication.
CombDivFirst(n, r) ==
  LET k == Min({r, n - r})
      c[i \in 0 .. k] == IF i = 0 THEN 1 ELSE (c[i - 1] \div i) * (n - k + i)
  IN  c[k]

CombInt(n, r) ==
  LET k == Min({r, n - r})
      dst[i \in 0 .. k] == IF i = 0 THEN 1 ELSE (dst[i - 1] * (n - k + i)) \div i
  IN  dst[k]

\* By squaring, of a number or its inverse; the exponent is 0 after as many rounds as it is.
PowRat(base, exp) ==
  LET loop[k \in 0 .. Abs(exp)] ==
        IF k = 0
        THEN [dst |-> Rat(1, 1), tmp |-> IF exp < 0 THEN Reciprocal(base) ELSE base,
              exp |-> Abs(exp)]
        ELSE LET l == loop[k - 1]
             IN  IF l.exp = 0 THEN l
                 ELSE [dst |-> IF l.exp % 2 = 1 THEN Mul(l.dst, l.tmp) ELSE l.dst,
                       tmp |-> Mul(l.tmp, l.tmp), exp |-> l.exp \div 2]
  IN  loop[Abs(exp)].dst

EvalFactorial(x) ==
  LET n == Int64(x.num)
  IN  IF ~IsInt(x) THEN CalcError("requires int")
      ELSE IF n < 0 THEN CalcError("negative")
      ELSE CheckRatResult(Rat(FactorialInt(n), 1))

\* P and C; the count is looked at only when it is defined.
Selection(x, y, count) ==
  LET n == Int64(x.num) r == Int64(y.num)
  IN  IF ~IsInt(x) \/ ~IsInt(y) THEN CalcError("requires int")
      ELSE IF n < 0 \/ r < 0 \/ r > n THEN CalcError("invalid")
      ELSE CheckRatResult(Rat(count, 1))

EvalPow(x, y) ==
  IF ~IsInt(y) THEN CalcError("float")
  ELSE IF y.num < 0 /\ x.num = 0 THEN CalcError("by zero")
  ELSE IF Abs(y.num) >= 2 ^ (CalcWidth - 2) THEN CalcError("too big")
  ELSE CheckRatResult(PowRat(x, y.num))

\* Fault: it rounds down.
QuoDown(a, b) == (Sign(b) * a) \div Abs(b)

\* big.Int.Quo rounds to zero.
Quo(a, b) == Sign(a) * Sign(b) * (Abs(a) \div Abs(b))

EvalFloorDiv(x, y) ==
  IF y.num = 0 THEN CalcError("by zero")
  ELSE CheckRatResult(Rat(Quo(x.num * y.den, x.den * y.num), 1))

\* big.Int.Mod is never negative.
EvalMod(x, y) ==
  IF ~IsInt(x) \/ ~IsInt(y) THEN CalcError("requires int")
  ELSE IF y.num = 0 THEN CalcError("by zero")
  ELSE CheckRatResult(Rat(x.num % Abs(y.num), 1))

Eval(op, x, y) ==
  CASE op = "!"  -> EvalFactorial(x)
    [] op = "P"  -> Selection(x, y, PermInt(Int64(x.num), Int64(y.num)))
    [] op = "C"  -> Selection(x, y, CombInt(Int64(x.num), Int64(y.num)))
    [] op = "^"  -> EvalPow(x, y)
    [] op = "//" -> EvalFloorDiv(x, y)
    [] op = "%"  -> EvalMod(x, y)
    [] op = "/"  -> IF y.num = 0 THEN CalcError("by zero")
                    ELSE CheckRatResult(Rat(x.num * y.den, x.den * y.num))
-----------------------------------------------------------------------------
Operands == {Rat(num, den) : num \in -MaxNum .. MaxNum, den \in 1 .. MaxDen}

CalcInit == calcJob = [do |-> "parse", input |-> <<>>]

Type ==
  /\ calcJob.do = "parse" /\ Len(calcJob.input) < MaxTokens
  /\ \E tok \in CalcTokens : calcJob' = [calcJob EXCEPT !.input = Append(@, tok)]

Calculate ==
  /\ calcJob.do = "parse" /\ calcJob.input = <<>>
  /\ \E op \in {"!", "P", "C", "^", "//", "%", "/"}, x, y \in Operands :
       calcJob' = [do |-> "eval", op |-> op, x |-> x, y |-> y]

CalcNext == Type \/ Calculate

CalcSpec == CalcInit /\ [][CalcNext]_calcJob
-----------------------------------------------------------------------------
(* What a tree says                                                        *)

\* The operand of a node: the node of that token, which was read from that piece.
Operand(T, pos, from, to) == \E t \in T : t.pos = pos /\ t.from = from /\ t.to = to

\* The pieces of a node are its token and those of its operands in their order.
Spelled(s, T, t) ==
  CASE t.kind = "leaf" ->
         s[t.pos] = "n" /\ t.from = t.pos /\ t.to = t.pos + 1
    [] t.kind = "group" ->
         /\ s[t.pos] \in {"(", "|"} /\ s[t.to - 1] = Closing(s[t.pos]) /\ t.from = t.pos
         /\ Operand(T, t.right, t.pos + 1, t.to - 1)
    [] t.kind = "prefix" ->
         /\ s[t.pos] \in {"+", "-", "sqrt"} /\ t.from = t.pos
         /\ Operand(T, t.right, t.pos + 1, t.to)
    [] t.kind = "postfix" ->
         /\ s[t.pos] \in {"!", "%"} /\ t.to = t.pos + 1
         /\ Operand(T, t.left, t.from, t.pos)
    [] t.kind = "infix" ->
         /\ s[t.pos] \in {"+", "-", "*", "%", "^", "C"}
         /\ Operand(T, t.left, t.from, t.pos) /\ Operand(T, t.right, t.pos + 1, t.to)

\* No token belongs to two nodes.
Spells(s, T) ==
  /\ \A t, u \in T : t.pos = u.pos => t = u
  /\ \A t \in T : Spelled(s, T, t)

\* How tight the operation of a node binds.
Level(s, t) ==
  CASE t.kind = "prefix"  -> 3
    [] t.kind = "postfix" -> 5
    [] t.kind = "infix" /\ s[t.pos] \in {"+", "-"} -> 1
    [] t.kind = "infix" /\ s[t.pos] \in {"*", "%"} -> 2
    [] t.kind = "infix" /\ s[t.pos] = "^"          -> 4
    [] t.kind = "infix" /\ s[t.pos] = "C"          -> 5

\* An operation that comes last in what ends at the token of t, or first in what begins
\* after it, and that no bracket encloses, binds tighter than t, whose operand it is in.
Tighter(s, t, u) ==
  /\ t.kind \in {"infix", "postfix"} /\ u.kind \in {"infix", "prefix"} /\ u.to = t.pos =>
       Level(s, u) > Level(s, t) \/ (Level(s, u) = Level(s, t) /\ s[t.pos] # "^")
  /\ t.kind \in {"infix", "prefix"} /\ u.kind \in {"infix", "postfix"} /\ u.from = t.pos + 1 =>
       Level(s, u) > Level(s, t) \/ (Level(s, u) = Level(s, t) /\ s[t.pos] = "^")

Binds(s, T) == \A t, u \in T : Tighter(s, t, u)

\* The tree of an input has its tokens in their order, every operation has the operands
\* that it binds tighter than its neighbours do, and only ^ is read from the right
\* (parse).
ParsedAsWritten ==
  calcJob.do = "parse" =>
    LET s == calcJob.input p == Parse(s)
    IN  p.ok => /\ p.root \in p.nodes /\ p.root.from = 1 /\ p.root.to = Len(s) + 1
                /\ Spells(s, p.nodes) /\ Binds(s, p.nodes)

\* Which pieces of an input, from one token up to another, are expressions.
Expressions(s) ==
  LET is[p \in (1 .. Len(s) + 1) \X (1 .. Len(s) + 1)] ==
        LET i == p[1] j == p[2]
        IN  \/ j = i + 1 /\ s[i] = "n"
            \/ j > i + 1 /\ s[i] \in {"+", "-", "sqrt"} /\ is[<<i + 1, j>>]
            \/ j > i + 1 /\ s[j - 1] \in {"!", "%"} /\ is[<<i, j - 1>>]
            \/ /\ j > i + 2 /\ s[i] \in {"(", "|"} /\ s[j - 1] = Closing(s[i])
               /\ is[<<i + 1, j - 1>>]
            \/ \E k \in i + 1 .. j - 2 :
                 s[k] \in {"+", "-", "*", "%", "^", "C"} /\ is[<<i, k>>] /\ is[<<k + 1, j>>]
  IN  is

\* Every expression is parsed, but for those with a percentage at the end of an absolute
\* value: there the bar is taken for the beginning of another one (infixOp).
ExpressionsParse ==
  calcJob.do = "parse" =>
    LET s == calcJob.input
        barred == \E i \in 1 .. Len(s) - 1 : s[i] = "%" /\ s[i + 1] = "|"
    IN  Expressions(s)[<<1, Len(s) + 1>>] /\ ~barred => Parse(s).ok

Result == Eval(calcJob.op, calcJob.x, calcJob.y)

Fits(x) == Int64(x.num) = x.num

\* What is answered is the result: of the loops for powers, permutations and combinations
\* as they are defined by factorials, and within the limit of size (evalBinary).
ResultIsExact ==
  calcJob.do = "eval" /\ Result.is = "ok" =>
    LET x == calcJob.x y == calcJob.y z == Result.val
        product[k \in 0 .. Abs(y.num)] == IF k = 0 THEN Rat(1, 1) ELSE Mul(product[k - 1], x)
        power == product[Abs(y.num)]
    IN  /\ ~TooBig(z.num) /\ ~TooBig(z.den)
        /\ Fits(x) /\ Fits(y) =>
             CASE calcJob.op = "!" -> z.num = FactorialInt(x.num)
               [] calcJob.op = "P" -> z.num * FactorialInt(x.num - y.num) = FactorialInt(x.num)
               [] calcJob.op = "C" -> z.num * FactorialInt(y.num) * FactorialInt(x.num - y.num)
                                        = FactorialInt(x.num)
               [] calcJob.op = "^" -> z = IF y.num >= 0 THEN power ELSE Reciprocal(power)
               [] OTHER -> TRUE

\* The quotient // and the remainder % of a number that is not negative make up that
\* number again (evalBinary).
DivModFit ==
  calcJob.do = "eval" /\ calcJob.op = "//" /\ Result.is = "ok" =>
    LET x == calcJob.x y == calcJob.y rest == Eval("%", x, y)
    IN  IsInt(x) /\ IsInt(y) /\ x.num >= 0 /\ rest.is = "ok" =>
          x.num = Result.val.num * y.num + rest.val.num

\* An input is understood as it is written and answered with its value (parse,
\* evalBinary).
CalculatesRight == ParsedAsWritten /\ ExpressionsParse /\ ResultIsExact /\ DivModFit
=============================================================================
