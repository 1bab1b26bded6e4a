---------------------------- MODULE MCWebStreams ----------------------------
EXTENDS WebStreams, TLC

\* A logo with a line end and padding, one that is cut short, and one with
\* digits behind its padding.
MCTexts == {<<"digit", "digit", "other", "digit", "=">>,
            <<"digit", "digit", "digit", "digit", "digit", "digit", "=">>,
            <<"digit", "digit", "=", "=", "digit", "digit", "=", "=">>}

Symmetry == Permutations(Request)
=============================================================================
