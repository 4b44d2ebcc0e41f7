----------------------------- MODULE KsRsMatrix -----------------------------
(***************************************************************************)
(* The KS+RS matrix of improved TESLA: which packets of a group each       *)
(* aggregate tag (tau) covers, the tags a sender computes, and how a       *)
(* receiver locates altered packets from the tags that still match.        *)
(* Columns are the group's positions 0 .. size - 1. A column is read as    *)
(* the coefficients of a polynomial over a prime field of q elements; a    *)
(* row is an evaluation point and a value, and contains the columns whose  *)
(* polynomial takes that value there.                                      *)
(***************************************************************************)
EXTENDS Naturals, Sequences, FiniteSets, FiniteSetsExt, SequencesExt

CONSTANTS MaxField      \* largest field tried (MAX_FIELD_SIZE, 10000 in the code)

ASSUME MaxFieldAssumption == MaxField \in Nat

MaxMessage == 64        \* MAX_MESSAGE_LENGTH

\* What the constructor accepts: a shape is a group size and a threshold.
ValidShape(shape) ==
  /\ shape.size > 0
  /\ shape.threshold > 0
  /\ shape.threshold < shape.size

IsPrime(p) == p > 1 /\ \A d \in 2 .. p - 1 : p % d # 0

\* Coefficients needed to tell size columns apart in a field of q elements, 0
\* when there is no need of any or too many.
MinExponent(size, q) ==
  LET Capacity[e \in 0 .. MaxMessage] == IF e = 0 THEN 1 ELSE q * Capacity[e - 1]
      Enough(e) == Capacity[e] >= size
  IN IF size > 1 /\ \E e \in 1 .. MaxMessage : Enough(e)
     THEN CHOOSE e \in 1 .. MaxMessage : Enough(e) /\ \A f \in 1 .. e - 1 : ~Enough(f)
     ELSE 0

\* The fields that can be used, each with its message and code length.
Candidates(shape) ==
  {c \in {[field |-> q, message |-> MinExponent(shape.size, q),
           length |-> MinExponent(shape.size, q) + 2 * shape.threshold] :
            q \in {p \in 2 * shape.threshold + 1 .. MaxField : IsPrime(p)}} :
     c.message > 0 /\ c.length <= c.field}

RowTotal(c) == c.length * c.field

\* The candidate with the fewest rows, the smallest field among equals.
BestParameters(shape) ==
  CHOOSE c \in Candidates(shape) :
    \A d \in Candidates(shape) :
      RowTotal(c) < RowTotal(d) \/ (RowTotal(c) = RowTotal(d) /\ c.field <= d.field)

\* Mutant: only the first coefficient counts.
SymbolConstant(column, e, best) == column % best.field

\* The value at point e of the polynomial whose coefficients are the digits
\* of column in base q, the lowest first.
Symbol(column, e, best) ==
  LET q == best.field
      Value[i \in 0 .. best.message] ==        \* i digits left to read
        [rest \in 0 .. column |->
           IF i = 0 THEN 0
           ELSE ((rest % q) + e * Value[i - 1][rest \div q]) % q]
  IN Value[best.message][column]

\* The rows in order: point by point, and value by value for a point. Row r
\* of the result is the set of positions it contains.
Matrix(shape) ==
  LET best == BestParameters(shape)
  IN [r \in 1 .. RowTotal(best) |->
        {c \in 0 .. shape.size - 1 : Symbol(c, (r - 1) \div best.field, best) = (r - 1) % best.field}]

TauCount(shape) == RowTotal(BestParameters(shape))
-----------------------------------------------------------------------------
\* A hash is collision free: the digest of the MACs of a row, in the order of
\* their positions, is these MACs. macs is the sequence of the MACs of positions
\* 0, 1, ...; a group at the end of a round may be shorter than the matrix is wide.
RowMacs(row, macs) == [c \in {p \in row : p < Len(macs)} |-> macs[c + 1]]

Aggregate(rows, macs) == [r \in DOMAIN rows |-> RowMacs(rows[r], macs)]

\* A row is judged when it has a position of the group and none of its
\* packets is missing (the slot of a missing packet holds NoMac).
NoMac == <<>>

RowJudged(row, slots) ==
  LET present == {c \in row : c < Len(slots)}
  IN present # {} /\ \A c \in present : slots[c + 1] # NoMac

\* The positions of the rows whose tag matches are good, the others bad.
Locate(rows, threshold, slots, taus) ==
  LET matching == {r \in DOMAIN rows : RowJudged(rows[r], slots) /\ RowMacs(rows[r], slots) = taus[r]}
      positions == 0 .. Len(slots) - 1
      good == {c \in positions : \E r \in matching : c \in rows[r]}
  IN [good |-> good, bad |-> positions \ good,
      exceeded |-> Cardinality(positions \ good) > threshold]
-----------------------------------------------------------------------------
CONSTANT Shapes         \* the shapes tried

ASSUME ShapesAssumption ==
  /\ Shapes \subseteq [size : Nat, threshold : Nat]
  /\ \A s \in Shapes : ValidShape(s) /\ Candidates(s) # {}

Matrices == [s \in Shapes |-> Matrix(s)]
=============================================================================
