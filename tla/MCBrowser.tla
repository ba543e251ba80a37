------------------------------- MODULE MCBrowser -------------------------------
(***************************************************************************)
(* Two tabs, two CSRF tokens and two sessions to draw, one page besides    *)
(* home and one link that leaves the site.                                 *)
(***************************************************************************)
EXTENDS Browser, TLC

CONSTANTS tab1, tab2, k1, k2, s1, s2, home, account, elsewhere

MCSymmetry == Permutations(Tabs) \cup Permutations(CsrfTokens) \cup Permutations(SessTokens)
================================================================================
