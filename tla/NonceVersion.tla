---------------------------- MODULE NonceVersion ----------------------------
(***************************************************************************)
(* The nonce version a wave of a group is encrypted under (crypt_splitter).*)
(***************************************************************************)
EXTENDS Integers

CONSTANTS
    PortRange,  \* PORT_RANGE (14)
    GroupIds    \* the group ids considered

ASSUME NonceVersionAssumption == PortRange \in Nat /\ GroupIds \subseteq Nat

VARIABLE group  \* what is sent: its id, its length and the port mapping

\* A mutant: the two ids added, without the square.
SumOfIds(a, b) == a + b

calculate_nonce_version(a, b) == IF a < b THEN a + b * b ELSE a * a + a + b

\* No wave of the group that is sent is encrypted under the nonce version of another
\* of its waves, or of a wave of another group (calculate_nonce_version).
NonceVersionsDiffer ==
    \A w1, w2 \in 0..2 * PortRange, g \in GroupIds :
        calculate_nonce_version(w1, group.id) = calculate_nonce_version(w2, g) =>
            w1 = w2 /\ group.id = g
=============================================================================
