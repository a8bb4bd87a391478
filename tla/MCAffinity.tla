----------------------------- MODULE MCAffinity -----------------------------
EXTENDS Affinity
CONSTANTS a, b, h
AllMasks == (SUBSET Cpus) \ {{}}
CoveredMasks == {{a}, {b}, {a, b, h}}
=============================================================================
