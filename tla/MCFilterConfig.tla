---------------------------- MODULE MCFilterConfig ----------------------------
(* The configurations that the run of FilterConfig starts from.              *)
EXTENDS FilterConfig

\* One filter, or two of which the second depends on the first.
Configurations == {<<{}>>, <<{}, {1}>>}
=============================================================================
