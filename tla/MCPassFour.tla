----------------------------- MODULE MCPassFour -----------------------------
\* All of MakeAFAutProof on the traces and the formulas of the small program.
EXTENDS PassFour, MCFormulas

\* The constant true is a condition too: that of the assertion.
MCRev == [f \in {MCTrue} \cup {Atom(MCAssume[a]) : a \in AssumeSym \ {"assert"}} |->
             CHOOSE a \in AssumeSym : MCAssume[a] = f[2]]

MCOthers == UNION {[1..n -> mAllSyms] : n \in 0..3}
MCFewOthers == UNION {[1..n -> mAllSyms] : n \in 0..2}

MCWordsFour == MCWords \cup MCLongWords
=============================================================================
