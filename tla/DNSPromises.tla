----------------------------- MODULE DNSPromises -----------------------------
(***************************************************************************)
(* What the documentation says of Create and Update and the code does not  *)
(* keep in every case.                                                     *)
(***************************************************************************)
EXTENDS DNSSafety

\* "Plan until the provider reports no drift" (design document): after a
\* successful Update, Diff reports none.
DriftEnds ==
    [][\A p \in Ops :
         ReadOutput(p) /\ kind[p] = "Update" /\ ~disturbed[p] /\ Consistent(spec[p])
         => Diff(out'[p], spec[p]) = {{}}]_vars

=============================================================================
