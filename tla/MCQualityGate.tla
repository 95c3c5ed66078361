--------------------------- MODULE MCQualityGate ---------------------------
EXTENDS QualityGate, TLC

ASSUME ConstantsOfGate == GateConstants

\* Versions of the rules are only compared.
RuleSymmetry == Permutations(Rules)

=============================================================================
