----------------------------- MODULE MCMetrics -----------------------------
(* Instance of Metrics for TLC.                                            *)
EXTENDS Metrics

\* Two rules that deny, one of them shadowed too.
MCKeys == {<<"a", "deny", FALSE>>, <<"a", "deny", TRUE>>, <<"b", "allow", FALSE>>}
=============================================================================
