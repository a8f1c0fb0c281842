----------------------------- MODULE MCProxyLoop -----------------------------
(* Instances of ProxyLoop for TLC. *)
EXTENDS ProxyLoop, TLC

CONSTANTS c1, c2   \* clients, interchangeable

ClientSymmetry == Permutations({c1, c2})

ListenerFd == 3
TwoFds   == {5, 6}
ThreeFds == {5, 6, 7}
FourFds  == {5, 6, 7, 8}
=============================================================================
