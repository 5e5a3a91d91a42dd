-------------------------- MODULE MCAcmeRevocation --------------------------
EXTENDS AcmeRevocation, TLC
CertSymmetry == Permutations(Certificate)
=============================================================================
