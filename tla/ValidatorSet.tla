--------------------------- MODULE ValidatorSet ---------------------------
(***************************************************************************)
(* The validator set of consensus/hotstuff/validator: the sorted list of   *)
(* addresses, the fault bound F and the quorum size Q derived from its     *)
(* length, and the round-robin choice of the proposer of a round.          *)
(***************************************************************************)
EXTENDS Integers, FiniteSets

CONSTANTS
  Validators,  \* the addresses of the validators
  valList,     \* defaultSet.validators: index -> address, sorted once at start
  NoAddress    \* common.Address{}, the "proposer" of the genesis block

Size == Cardinality(Validators)

ASSUME ValidatorsAssumption ==
  /\ IsFiniteSet(Validators)
  /\ Validators # {}
  /\ NoAddress \notin Validators

ASSUME ValListAssumption ==
  /\ valList \in [0 .. Size - 1 -> Validators]
  /\ \A v \in Validators : \E i \in 0 .. Size - 1 : valList[i] = v
  /\ \A i, j \in 0 .. Size - 1 : valList[i] = valList[j] => i = j

F == (Size - 1) \div 3

(* The quorum size.  2F + 1 is the same only when Size = 3F + 1. *)
TwoFPlus1 == 2 * F + 1
Q == Size - F

---------------------------------------------------------------------------
(* GetByAddress: the index of an address, or 0 for an address outside the  *)
(* set, which is how calcSeed uses the result.                             *)
Offset(addr) ==
  IF addr \in Validators
  THEN CHOOSE i \in 0 .. Size - 1 : valList[i] = addr
  ELSE 0

CalcSeed(addr, round) == Offset(addr) + round

RoundRobinSelector(last, round) ==
  LET seed == IF last = NoAddress THEN round ELSE CalcSeed(last, round) + 1
  IN  valList[seed % Size]
===========================================================================
