---------------------------- MODULE MCBrowserTabs ----------------------------
(***************************************************************************)
(* Instances of BrowserTabs for TLC: two tabs of one browser for safety,   *)
(* one page with two API calls for liveness.                               *)
(***************************************************************************)
EXTENDS BrowserTabs, TLC

\* All sets hold interchangeable elements.  For safety only.
Symmetry ==
    UNION {Permutations(S) : S \in {Tabs, Calls, Asks, Families, Jtis}}
=============================================================================
