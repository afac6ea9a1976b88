------------------------------ MODULE MCPassTwo ------------------------------
\* Both passes on the traces and the formulas of the small program.
EXTENDS PassTwo, MCFormulas

MCWordsTwo == MCWords \cup MCLongWords \cup MCComparison
=============================================================================
