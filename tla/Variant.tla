------------------------------- MODULE Variant -------------------------------
(***************************************************************************)
(* Arithmetic and comparison of SysVar (common/sys_variant.cpp), the type  *)
(* of a message's parameters: what a series of operations makes of a       *)
(* value, beside what they should by the rules of whole numbers.           *)
(*                                                                         *)
(* An operation first converts one of its operands to the type of the      *)
(* other, through double.  The result has its own type, which is not       *)
(* always theirs.  Types have the widths given; a float or a double holds  *)
(* whole numbers here, exactly.  What the language leaves undefined may    *)
(* give any value of the type.                                             *)
(***************************************************************************)
EXTENDS Integers

CONSTANTS
  CharBits, ShortBits, IntBits,
  Operands,  \* the values the program has at hand
  MaxOps     \* bound: operations in a series

ASSUME WidthsAssumption ==
  /\ CharBits \in Nat \ {0} /\ ShortBits \in Nat /\ IntBits \in Nat
  /\ CharBits <= ShortBits /\ ShortBits <= IntBits /\ MaxOps \in Nat

\* The order of SysVarType.
Rank == [EMPTY |-> 0, CHAR |-> 1, SHORT |-> 2, INT |-> 3, FLOAT |-> 4, DOUBLE |-> 5,
         STRING |-> 6, USTRING |-> 7, VOID |-> 8]
Bits == [CHAR |-> CharBits, SHORT |-> ShortBits, INT |-> IntBits]
Whole == DOMAIN Bits
Numeric == Whole \union {"FLOAT", "DOUBLE"}

\* num is the number, or the rank of a string among strings.
Var(t, n) == [type |-> t, num |-> n]
Nothing == Var("EMPTY", 0)

ASSUME OperandsAssumption ==
  /\ Operands \subseteq [type : DOMAIN Rank, num : Int]
  /\ \A w \in Operands : w.type = "EMPTY" => w = Nothing

ValuesOf(t) == - (2 ^ (Bits[t] - 1)) .. 2 ^ (Bits[t] - 1) - 1
Fits(n, t) == t \notin Whole \/ n \in ValuesOf(t)

VARIABLES
  acc,       \* the SysVar the operations are applied to
  exact,     \* history: the number it should hold
  faithful,  \* history: operands and results so far were within reach
  ended,     \* "no", "thrown" a TypeMismatchException, or "undefined"
  ops        \* how many operations there have been

variantVars == <<acc, exact, faithful, ended, ops>>

VariantInit ==
  /\ acc = Nothing /\ exact = 0 /\ faithful = TRUE /\ ended = "no" /\ ops = 0

-----------------------------------------------------------------------------
(* Casts of the language.                                                  *)

Wrap(n, t) == ((n + 2 ^ (Bits[t] - 1)) % (2 ^ Bits[t])) - 2 ^ (Bits[t] - 1)

\* From double, and of the result of an addition of ints: undefined out of range.
Cast(n, t) == IF Fits(n, t) THEN {n} ELSE ValuesOf(t)

\* From int to a narrower type.
Narrow(n, t) == {Wrap(n, t)}

Abs(n) == IF n < 0 THEN -n ELSE n
Quotient(m, n) == IF (m < 0) = (n < 0) THEN Abs(m) \div Abs(n) ELSE - (Abs(m) \div Abs(n))

-----------------------------------------------------------------------------
(* SysVar::convert.                                                        *)

CanConvert(v, t) == v.type = t \/ (v.type \in Numeric \union {"EMPTY"} /\ t \in Numeric \union {"EMPTY"})

\* A char is taken to be unsigned.
AsDouble(v) == IF v.type = "CHAR" /\ v.num < 0 THEN v.num + 2 ^ CharBits ELSE v.num

\* What convert gives for v and t; of no value it makes a zero.
Convert(v, t) ==
  IF v.type = t THEN {v.num}
  ELSE IF v.type = "EMPTY" THEN {0}
  ELSE Cast(AsDouble(v), t)

-----------------------------------------------------------------------------
(* The operators.                                                          *)

Common(v, w) == IF Rank[v.type] > Rank[w.type] THEN v.type ELSE w.type

\* Mutant of ResultType: the cast of a short's product to int is one to char.
ResultTypeOfProductChar(op, t) ==
  CASE op = "*" /\ t \in {"CHAR", "INT"} -> "CHAR"
    [] op = "-" /\ t = "INT" -> "SHORT"
    [] op = "/" /\ t \in Whole -> "FLOAT"
    [] op = "%" -> "INT"
    [] OTHER -> t

\* The casts in the operators' switches: of operands of type t.
ResultType(op, t) ==
  CASE op = "*" /\ t = "CHAR" -> "INT"
    [] op = "-" /\ t = "INT" -> "SHORT"
    [] op = "/" /\ t \in Whole -> "FLOAT"
    [] op = "%" -> "INT"
    [] OTHER -> t

\* The rules of whole numbers; / and % as C has them.
Reference(op, m, n) ==
  CASE op = "+" -> m + n [] op = "-" -> m - n [] op = "*" -> m * n
    [] op = "/" -> Quotient(m, n) [] op = "%" -> m - n * Quotient(m, n)

\* Of converted operands: int's own overflow is undefined, a narrower type wraps.
Results(op, t, m, n) ==
  LET r == Reference(op, m, n)
      type == ResultType(op, t)
  IN  IF t = "INT" THEN UNION {IF type \in {"CHAR", "SHORT"} THEN Narrow(i, type) ELSE {i} : i \in Cast(r, "INT")}
      ELSE IF type \in {"CHAR", "SHORT"} THEN Narrow(r, type)
      ELSE {r}

\* A string operand, on either side.
Textual == {"STRING", "USTRING", "VOID"}

\* Operands that leave the value as it is, with no result.
LeavesAlone(op, v, w) ==
  IF op = "+"
  THEN w.type = "EMPTY" \/ "VOID" \in {v.type, w.type} \/ (v.type \in {"STRING", "USTRING"} /\ w.type # v.type)
  ELSE v.type \in Textual

\* A second string is put into a block of sizeof(unsigned) bytes, and the first is
\* deleted twice.
BreaksMemory(op, v, w) == op = "+" /\ v.type \in {"STRING", "USTRING"} /\ w.type = v.type

\* Divisors that are zero, a fraction that no float of this model holds.
Divides(op, t, m, n) ==
  op \in {"/", "%"} => n # 0 /\ (t \notin Whole /\ op = "/" => Reference("%", m, n) = 0)

\* acc op= w.
Operate(op, w) ==
  /\ ended = "no" /\ ops < MaxOps
  /\ ops' = ops + 1
  /\ LET t == IF op = "%" THEN "INT" ELSE Common(acc, w)
     IN  \/ LeavesAlone(op, acc, w) /\ UNCHANGED <<acc, exact, faithful, ended>>
         \/ /\ ~LeavesAlone(op, acc, w) /\ BreaksMemory(op, acc, w)
            /\ ended' = "undefined" /\ UNCHANGED <<acc, exact, faithful>>
         \/ /\ ~LeavesAlone(op, acc, w) /\ ~BreaksMemory(op, acc, w)
            /\ ~CanConvert(acc, t) \/ ~CanConvert(w, t)
            /\ ended' = "thrown" /\ UNCHANGED <<acc, exact, faithful>>
         \/ /\ ~LeavesAlone(op, acc, w) /\ ~BreaksMemory(op, acc, w)
            /\ CanConvert(acc, t) /\ CanConvert(w, t)
            /\ IF t = "EMPTY" THEN UNCHANGED <<acc, exact, faithful>>
               ELSE \E m \in Convert(acc, t), n \in Convert(w, t) :
                      /\ Divides(op, t, m, n)
                      /\ \E r \in Results(op, t, m, n) : acc' = Var(ResultType(op, t), r)
                      /\ exact' = IF w.num = 0 /\ op \in {"/", "%"} THEN 0 ELSE Reference(op, exact, w.num)
                      /\ faithful' =
                           /\ faithful
                           /\ AsDouble(acc) = acc.num /\ AsDouble(w) = w.num
                           /\ Fits(acc.num, t) /\ Fits(w.num, t)
                           /\ Fits(exact', IF op = "-" /\ t = "INT" THEN "SHORT" ELSE t)
            /\ UNCHANGED ended

\* operator= of another value.
AssignVar(w) ==
  /\ ended = "no" /\ ops < MaxOps
  /\ acc' = w /\ exact' = w.num /\ faithful' = TRUE
  /\ ops' = ops + 1
  /\ UNCHANGED ended

-----------------------------------------------------------------------------
(* The comparisons: v < w and so on, of a SysVar v that is not changed.    *)

Comparable(v, w) ==
  \/ v.type = "STRING" /\ w.type = "STRING"
  \/ v.type \in Numeric /\ w.type \in Numeric

Holds(rel, m, n) ==
  CASE rel = "<" -> m < n [] rel = ">" -> m > n [] rel = "<=" -> m <= n [] rel = ">=" -> m >= n

\* Mutant of Compare: the left side is converted to the type of the right.
CompareLeft(rel, v, w) ==
  IF v.type = "STRING" THEN {v.num < w.num} ELSE {Holds(rel, m, w.num) : m \in Convert(v, w.type)}

\* The right side is converted to the type of the left.  For strings all four are
\* the same comparison.
Compare(rel, v, w) ==
  IF v.type = "STRING" THEN {v.num < w.num} ELSE {Holds(rel, v.num, n) : n \in Convert(w, v.type)}

\* operator== compares the numbers as doubles, a char as signed.
Equal(v, w) == v.num = w.num

-----------------------------------------------------------------------------
VariantNext ==
  \E w \in Operands : AssignVar(w) \/ \E op \in {"+", "-", "*", "/", "%"} : Operate(op, w)

VariantSpec == VariantInit /\ [][VariantNext]_variantVars

-----------------------------------------------------------------------------
(* Properties.                                                             *)

\* A series of operations computes what whole numbers do, through all the types its
\* results go through on the way, as long as no operand is a negative char, and the
\* exact result fits the wider of the operands' types.  A difference of ints has to
\* fit a short, to which the code casts it.
ComputesExactly == acc.type \in Numeric /\ faithful => acc.num = exact

\* The five comparisons of numbers agree with each other and with the numbers when
\* the right one fits the type of the left and is no negative char that is
\* converted; strings are ordered by < alone.
ComparesExactly ==
  \A w \in Operands :
    Comparable(acc, w) =>
      IF acc.type = "STRING" THEN Compare("<", acc, w) = {acc.num < w.num}
      ELSE Fits(w.num, acc.type) /\ (w.type # acc.type => AsDouble(w) = w.num) =>
             \A rel \in {"<", ">", "<=", ">="} : Compare(rel, acc, w) = {Holds(rel, acc.num, w.num)}

\* Where the operands' types leave room for the result, SysVar's operators are those of
\* whole numbers, through any series of them (operator+= to operator>=).
OperatorsExact == ComputesExactly /\ ComparesExactly
=============================================================================
