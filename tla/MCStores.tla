---- MODULE MCStores ----
EXTENDS Stores, TLC

CONSTANTS s1, s2, u1, u2

\* The second process has LANCE_ROOT in its environment.
MCLanceRoot == s1 :> NoUri @@ s2 :> u1
====
