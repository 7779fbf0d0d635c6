---------------------------- MODULE MCWifiConnect ----------------------------
\* Small instances of WifiConnect: one caller, or two that are alike.
EXTENDS WifiConnect, TLC

CONSTANTS c1, c2

MCSymmetry == Permutations({c1, c2})

MCKind(bssid, open, user) == [bssid |-> bssid, open |-> open, user |-> user]

\* Both functions, open and WPA networks, and wifi_connect with a semaphore of
\* the caller's.
MCKinds == {MCKind(b, o, FALSE) : b \in BOOLEAN, o \in BOOLEAN}
           \cup {MCKind(FALSE, o, TRUE) : o \in BOOLEAN}

\* The same call twice.
MCKindsOne == {MCKind(FALSE, FALSE, FALSE)}
=============================================================================
