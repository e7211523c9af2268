---------------------------- MODULE MachineWords ----------------------------
(***************************************************************************)
(* Arithmetic of fixed width: bits are kept as 0..WordSize-1, and a signed *)
(* reading of them is taken where the code takes one (asSigned).  All      *)
(* integers of a program have this one width.                              *)
(***************************************************************************)
EXTENDS Integers

CONSTANT WordSize

ASSUME WordSizeAssumption == WordSize \in Nat /\ WordSize > 3 /\ WordSize % 2 = 0

Word == 0..(WordSize - 1)
Wrap(v) == v % WordSize
SignedMin == -(WordSize \div 2)
SignedMax == (WordSize \div 2) - 1
Signed(bits) == IF bits > SignedMax THEN bits - WordSize ELSE bits
FitsSigned(v) == v \in SignedMin..SignedMax

(* C division cuts towards zero. *)
Quotient(a, b) ==
    LET size(v) == IF v < 0 THEN -v ELSE v
        q == size(a) \div size(b)
    IN  IF (a < 0) = (b < 0) THEN q ELSE -q

(* Division has a result unless it is by zero or does not fit. *)
Divides(left, right) ==
    right # 0 /\ ~(Signed(left) = SignedMin /\ Signed(right) = -1)

(* evalBinary, on operands for which the operation has a result. *)
Compute(op, left, right) ==
    CASE op = "Add" -> Wrap(left + right)
      [] op = "Sub" -> Wrap(left - right)
      [] op = "Mul" -> Wrap(left * right)
      [] op = "Div" -> Wrap(Quotient(Signed(left), Signed(right)))

(* compareJumpTaken, for relations on signed operands. *)
Holds(cond, left, right) ==
    CASE cond = "UNCONDITIONAL" -> TRUE
      [] cond = "IF_EQUAL" -> left = right
      [] cond = "IF_NOT_EQUAL" -> left # right
      [] cond = "IF_BELOW" -> Signed(left) < Signed(right)
      [] cond = "IF_ABOVE_OR_EQUAL" -> Signed(left) >= Signed(right)
=============================================================================
