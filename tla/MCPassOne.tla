------------------------------ MODULE MCPassOne ------------------------------
\* PassOne on the traces and the formulas of the small program.
EXTENDS PassOne, MCFormulas
=============================================================================
