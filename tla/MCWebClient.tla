----------------------------- MODULE MCWebClient -----------------------------
(* Small instances of WebClient for TLC: one user, one browser.             *)
EXTENDS WebClient, TLC

CONSTANTS u1, k1, k2, k3, s1, s2, b1, t1, t2

MCUser == {u1}
ThreeKeys == {k1, k2, k3}
MCBrowser == {b1}
MCKeyOwner == [k \in KeyId |-> u1]
MCSessionUser == [s \in Session |-> u1]
MCPerson == [b \in Browser |-> u1]
MCBrowserOf == [t \in Tab |-> b1]
OneTab == {t1}
TwoTabs == {t1, t2}
TwoSessions == {s1, s2}

\* Keys and sessions are chosen with CHOOSE, so they are not symmetric.
TabSymmetry == Permutations(Tab)
=============================================================================
