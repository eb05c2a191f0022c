---------------------------- MODULE Permutation ----------------------------
(***************************************************************************)
(* The order of a sweep (permutation.rs): a Feistel network of six rounds  *)
(* over the smallest even number of bits that holds the endpoint indexes,  *)
(* applied again while its result is not an index (cycle walking).  The    *)
(* keyed hash of a round is an arbitrary function from half words to half  *)
(* words.  The module evaluates get for every order position in turn, one  *)
(* pass of the loop per step.                                              *)
(***************************************************************************)
EXTENDS Integers

CONSTANTS
    Sizes,          \* target counts tried
    Hash,           \* functions a round may compute, see Key
    xor(_, _),      \* bitwise exclusive or
    MaxHalf         \* bits of the widest half word

HalfWord(h) == 0 .. 2 ^ h - 1

(* A key gives the function of each of the six rounds; the code's mask     *)
(* cuts its value to the half word.                                        *)
Rounds == 0 .. 5
Key == [Rounds -> Hash]

ASSUME SizesAssumption == Sizes \subseteq Nat \ {0} /\ MaxHalf \in Nat \ {0}
ASSUME PowerAssumption == \A h \in 1 .. MaxHalf : 2 ^ h \in Nat \ {0} /\ 2 ^ h <= 2 ^ MaxHalf

(* bits = the bit length of n - 1, at least 1, rounded up to even *)
half_holds(m, h) ==
    /\ m <= 2 ^ h * 2 ^ h
    /\ \A g \in 1 .. h - 1 : m > 2 ^ g * 2 ^ g

ASSUME WidthAssumption ==
    \A m \in Sizes : \E h \in 1 .. MaxHalf : half_holds(m, h)
ASSUME HashAssumption == Hash \subseteq [HalfWord(MaxHalf) -> Nat]
ASSUME XorAssumption ==
    \A h \in 1 .. MaxHalf : \A a, b \in HalfWord(h) :
        /\ xor(a, b) \in HalfWord(h)
        /\ xor(xor(a, b), b) = a

VARIABLES
    n, key,     \* Permutation { n, key, .. }
    half,       \* bits of a half word
    order,      \* the argument of get
    x,          \* its loop variable
    image,      \* results so far: get(0), get(1), ...
    walked      \* history: <<order, x>> for every application of full

vars == <<n, key, half, order, x, image, walked>>

half_of(m) == CHOOSE h \in 1 .. MaxHalf : half_holds(m, h)

mask(v) == v % 2 ^ half

round(r, i) == mask(key[i][r])

(* the half words of a number, and back *)
Word == HalfWord(half) \X HalfWord(half)
Split(v) == <<v \div 2 ^ half, mask(v)>>
Joined(w) == w[1] * 2 ^ half + w[2]

(* mutant: the left half is overwritten instead of combined *)
FeistelLossy(i) == [w \in Word |-> <<w[2], round(w[2], i)>>]

(* (l, r) = (r, (l ^ round(r, i)) & mask) *)
Feistel(i) == [w \in Word |-> <<w[2], mask(xor(w[1], round(w[2], i)))>>]

full(v) ==
    Joined(Feistel(5)[Feistel(4)[Feistel(3)[
           Feistel(2)[Feistel(1)[Feistel(0)[Split(v)]]]]]])

Init ==
    /\ n \in Sizes
    /\ key \in Key
    /\ half = half_of(n)
    /\ order = 0 /\ x = 0
    /\ image = [i \in {} |-> 0]
    /\ walked = {}

(* get returns y; the sweep goes on to the next position *)
Return(y) ==
    /\ image' = [i \in 0 .. order |-> IF i = order THEN y ELSE image[i]]
    /\ order' = order + 1
    /\ x' = order + 1

GetOnly ==
    /\ n = 1 /\ order < n
    /\ Return(0)
    /\ walked' = walked \cup {<<order, x>>}
    /\ UNCHANGED <<n, key, half>>

(* mutant: the loop starts over from the position *)
WalkAgain ==
    /\ n > 1 /\ order < n
    /\ full(x) >= n
    /\ x' = order
    /\ walked' = walked \cup {<<order, x>>}
    /\ UNCHANGED <<n, key, half, order, image>>

Walk ==
    /\ n > 1 /\ order < n
    /\ full(x) >= n
    /\ x' = full(x)
    /\ walked' = walked \cup {<<order, x>>}
    /\ UNCHANGED <<n, key, half, order, image>>

GetReturns ==
    /\ n > 1 /\ order < n
    /\ full(x) < n
    /\ Return(full(x))
    /\ walked' = walked \cup {<<order, x>>}
    /\ UNCHANGED <<n, key, half>>

Next == GetOnly \/ Walk \/ GetReturns

Spec == Init /\ [][Next]_vars
FairSpec == Spec /\ WF_vars(Next)

-----------------------------------------------------------------------------
(* Properties *)

Index == 0 .. n - 1

(* Every variable has its type: results are endpoint indexes and the loop  *)
(* variable stays within the bits of the network.                          *)
TypeOK ==
    /\ n \in Sizes /\ key \in Key
    /\ half \in 1 .. MaxHalf /\ n <= 2 ^ half * 2 ^ half
    /\ order \in 0 .. n
    /\ x \in 0 .. 2 ^ half * 2 ^ half
    /\ order < n => x < 2 ^ half * 2 ^ half
    /\ image \in [0 .. order - 1 -> Index]
    /\ walked \subseteq Index \X Nat

(* No endpoint is probed twice in a round, whatever the round functions    *)
(* are: different positions of the sweep give different endpoints.  And    *)
(* none is left out: a whole sweep gives all of them.                      *)
SweepIsPermutation ==
    /\ \A i, j \in DOMAIN image : image[i] = image[j] => i = j
    /\ order = n => {image[i] : i \in DOMAIN image} = Index

(* Cycle walking always comes back to an index: get returns. *)
WalkEnds == <>(order = n)

=============================================================================
