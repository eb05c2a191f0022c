-------------------------- MODULE EndpointsProofs --------------------------
(***************************************************************************)
(* Which endpoints a job probes, and in which order: the theorems about    *)
(* Permutation and Targets.                                                *)
(*                                                                         *)
(* The sweep order is a permutation of the endpoint indexes for every      *)
(* target count, every width and every choice of round functions.  A       *)
(* Feistel round is one-to-one because the exclusive or can be undone;     *)
(* cycle walking keeps that because two walks that meet would have to      *)
(* have met one step earlier, back to where one of them started.           *)
(*                                                                         *)
(* The files of the shards hold every pair of an address in scope and a    *)
(* service, once, for every choice of files, policy, services and number   *)
(* of shards, and the binary search finds each pair again.  Every loop of  *)
(* the code has its own invariant here: merge and subtract keep a list of  *)
(* ranges Apart and say which addresses are Among it, iter is Increasing,  *)
(* and each pass of the search makes the interval shorter.                 *)
(***************************************************************************)
EXTENDS Permutation, Targets, TLAPS, NaturalsInduction, FiniteSetTheorems,
        FunctionTheorems, SequenceTheorems

-----------------------------------------------------------------------------
(* Arithmetic of half words, for a radix M *)

LEMMA ModRange ==
    ASSUME NEW a \in Nat, NEW M \in Nat \ {0}
    PROVE  a % M \in 0 .. M - 1
OBVIOUS

LEMMA ModSmall ==
    ASSUME NEW M \in Nat \ {0}, NEW a \in 0 .. M - 1
    PROVE  a % M = a
OBVIOUS

LEMMA DivMod ==
    ASSUME NEW v \in Nat, NEW M \in Nat \ {0}
    PROVE  /\ v \div M \in Nat
           /\ v = M * (v \div M) + (v % M)
OBVIOUS

LEMMA TimesMono ==
    ASSUME NEW a \in Nat, NEW b \in Nat, NEW M \in Nat \ {0}, a < b
    PROVE  M * a + M <= M * b
OBVIOUS

(* The high half of a number below M * M is below M. *)
LEMMA DivBound ==
    ASSUME NEW M \in Nat \ {0}, NEW v \in Nat, v < M * M
    PROVE  v \div M \in 0 .. M - 1
<1>1. v \div M \in Nat /\ v = M * (v \div M) + (v % M) /\ v % M \in Nat
  BY DivMod, ModRange
<1>2. SUFFICES ASSUME v \div M >= M PROVE FALSE
  BY <1>1
<1>3. PICK q \in Nat : q = v \div M
  BY <1>1
<1>4. M * q >= M * M
  <2>1. CASE q = M BY <2>1
  <2>2. CASE q > M BY <2>2, TimesMono
  <2> QED BY <1>2, <1>3, <2>1, <2>2
<1> QED BY <1>1, <1>3, <1>4

(* A number has one pair of half words. *)
LEMMA JoinUnique ==
    ASSUME NEW M \in Nat \ {0},
           NEW l1 \in Nat, NEW l2 \in Nat,
           NEW r1 \in 0 .. M - 1, NEW r2 \in 0 .. M - 1,
           l1 * M + r1 = l2 * M + r2
    PROVE  l1 = l2 /\ r1 = r2
<1>1. ~(l1 < l2)
  BY TimesMono
<1>2. ~(l2 < l1)
  BY TimesMono
<1>3. l1 = l2
  BY <1>1, <1>2
<1> QED BY <1>3

LEMMA JoinBound ==
    ASSUME NEW M \in Nat \ {0}, NEW l \in 0 .. M - 1, NEW r \in 0 .. M - 1
    PROVE  l * M + r \in Nat /\ l * M + r < M * M
<1>1. M * l + M <= M * M
  BY TimesMono
<1>2. l * M = M * l /\ l * M \in Nat
  OBVIOUS
<1> QED BY <1>1, <1>2

-----------------------------------------------------------------------------
(* The network *)

Number == 0 .. 2 ^ half * 2 ^ half - 1

LEMMA RadixPositive ==
    ASSUME half \in 1 .. MaxHalf
    PROVE  2 ^ half \in Nat \ {0} /\ 2 ^ half <= 2 ^ MaxHalf
BY PowerAssumption

LEMMA RoundType ==
    ASSUME half \in 1 .. MaxHalf, key \in Key,
           NEW r \in HalfWord(half), NEW i \in Rounds
    PROVE  round(r, i) \in HalfWord(half)
<1>1. PICK M \in Nat \ {0} : M = 2 ^ half /\ M <= 2 ^ MaxHalf
  BY RadixPositive
<1>2. 2 ^ MaxHalf \in Nat
  BY PowerAssumption, SizesAssumption
<1>3. r \in HalfWord(MaxHalf)
  BY <1>1, <1>2 DEF HalfWord
<1>4. key[i] \in [HalfWord(MaxHalf) -> Nat]
  BY HashAssumption DEF Key
<1>5. key[i][r] \in Nat
  BY <1>3, <1>4
<1>6. key[i][r] % M \in 0 .. M - 1
  BY <1>5, ModRange
<1> QED BY <1>1, <1>6 DEF round, mask, HalfWord

LEMMA MaskHalf ==
    ASSUME half \in 1 .. MaxHalf, NEW a \in HalfWord(half)
    PROVE  mask(a) = a
BY RadixPositive, ModSmall DEF mask, HalfWord

LEMMA XorUndo ==
    ASSUME half \in 1 .. MaxHalf, NEW a \in HalfWord(half),
           NEW b \in HalfWord(half)
    PROVE  xor(a, b) \in HalfWord(half) /\ xor(xor(a, b), b) = a
BY XorAssumption

(* A round maps words to words, and different words to different words:    *)
(* the new left half is the old right one, and with it the exclusive or    *)
(* gives back the old left half.                                           *)
LEMMA FeistelRound ==
    ASSUME half \in 1 .. MaxHalf, key \in Key, NEW i \in Rounds
    PROVE  /\ \A w \in Word : Feistel(i)[w] \in Word
           /\ \A v, w \in Word : Feistel(i)[v] = Feistel(i)[w] => v = w
<1> DEFINE F(w) == xor(w[1], round(w[2], i))
<1>1. ASSUME NEW w \in Word
      PROVE  /\ w[1] \in HalfWord(half) /\ w[2] \in HalfWord(half)
             /\ w = <<w[1], w[2]>>
             /\ Feistel(i)[w] = <<w[2], F(w)>>
             /\ F(w) \in HalfWord(half)
             /\ xor(F(w), round(w[2], i)) = w[1]
  <2>1. w[1] \in HalfWord(half) /\ w[2] \in HalfWord(half) /\ w = <<w[1], w[2]>>
    BY DEF Word
  <2>2. round(w[2], i) \in HalfWord(half)
    BY <2>1, RoundType
  <2>3. F(w) \in HalfWord(half) /\ xor(F(w), round(w[2], i)) = w[1]
    BY <2>1, <2>2, XorUndo
  <2>4. mask(F(w)) = F(w)
    BY <2>3, MaskHalf
  <2>5. Feistel(i)[w] = <<w[2], mask(F(w))>>
    BY DEF Feistel
  <2> QED BY <2>1, <2>3, <2>4, <2>5
<1>2. ASSUME NEW w \in Word PROVE Feistel(i)[w] \in Word
  BY <1>1 DEF Word
<1>3. ASSUME NEW v \in Word, NEW w \in Word, Feistel(i)[v] = Feistel(i)[w]
      PROVE  v = w
  <2> HIDE DEF F
  <2>1. <<v[2], F(v)>> = <<w[2], F(w)>>
    BY <1>1, <1>3
  <2>2. v[2] = w[2] /\ F(v) = F(w)
    BY <2>1
  <2>3. v[1] = w[1]
    BY <1>1, <2>2
  <2> QED BY <1>1, <2>2, <2>3
<1> QED BY <1>2, <1>3

LEMMA SplitWord ==
    ASSUME half \in 1 .. MaxHalf
    PROVE  /\ \A v \in Number : Split(v) \in Word
           /\ \A u, v \in Number : Split(u) = Split(v) => u = v
<1>1. PICK M \in Nat \ {0} : M = 2 ^ half
  BY RadixPositive
<1>2. ASSUME NEW v \in 0 .. M * M - 1
      PROVE  v \div M \in 0 .. M - 1 /\ v % M \in 0 .. M - 1
  <2>1. v \in Nat /\ v < M * M
    OBVIOUS
  <2>2. v \div M \in 0 .. M - 1
    BY <2>1, DivBound
  <2>3. v % M \in 0 .. M - 1
    BY <2>1, ModRange
  <2> QED BY <2>2, <2>3
<1>3. \A u, v \in 0 .. M * M - 1 :
          u \div M = v \div M /\ u % M = v % M => u = v
  BY DivMod
<1> QED BY <1>1, <1>2, <1>3 DEF Number, Split, mask, Word, HalfWord

LEMMA JoinedNumber ==
    ASSUME half \in 1 .. MaxHalf
    PROVE  /\ \A w \in Word : Joined(w) \in Number
           /\ \A v, w \in Word : Joined(v) = Joined(w) => v = w
<1>1. PICK M \in Nat \ {0} : M = 2 ^ half
  BY RadixPositive
<1>2. ASSUME NEW w \in Word
      PROVE  /\ w[1] \in 0 .. M - 1 /\ w[2] \in 0 .. M - 1
             /\ w = <<w[1], w[2]>>
             /\ Joined(w) = w[1] * M + w[2]
  BY <1>1 DEF Word, HalfWord, Joined
<1>3. ASSUME NEW w \in Word PROVE Joined(w) \in Number
  BY <1>1, <1>2, JoinBound DEF Number
<1>4. ASSUME NEW v \in Word, NEW w \in Word, Joined(v) = Joined(w) PROVE v = w
  <2>1. v[1] = w[1] /\ v[2] = w[2]
    BY <1>2, <1>4, JoinUnique
  <2> QED BY <1>2, <2>1
<1> QED BY <1>3, <1>4

(* full is one-to-one on the numbers of the network's width. *)
LEMMA FullInjective ==
    ASSUME half \in 1 .. MaxHalf, key \in Key
    PROVE  /\ \A v \in Number : full(v) \in Number
           /\ \A u, v \in Number : full(u) = full(v) => u = v
<1> DEFINE A(v) == Feistel(0)[Split(v)]
           B(v) == Feistel(1)[A(v)]
           C(v) == Feistel(2)[B(v)]
           D(v) == Feistel(3)[C(v)]
           E(v) == Feistel(4)[D(v)]
           G(v) == Feistel(5)[E(v)]
<1>0. 0 \in Rounds /\ 1 \in Rounds /\ 2 \in Rounds /\ 3 \in Rounds
      /\ 4 \in Rounds /\ 5 \in Rounds
  BY DEF Rounds
<1>f. \A v \in Number : full(v) = Joined(G(v))
  BY DEF full
<1>1. \A v \in Number : A(v) \in Word
  BY <1>0, SplitWord, FeistelRound
<1>2. \A u, v \in Number : A(u) = A(v) => u = v
  BY <1>0, SplitWord, FeistelRound
<1> HIDE DEF A
<1>3. \A v \in Number : B(v) \in Word
  BY <1>0, <1>1, FeistelRound
<1>4. \A u, v \in Number : B(u) = B(v) => u = v
  BY <1>0, <1>1, <1>2, FeistelRound
<1> HIDE DEF B
<1>5. \A v \in Number : C(v) \in Word
  BY <1>0, <1>3, FeistelRound
<1>6. \A u, v \in Number : C(u) = C(v) => u = v
  BY <1>0, <1>3, <1>4, FeistelRound
<1> HIDE DEF C
<1>7. \A v \in Number : D(v) \in Word
  BY <1>0, <1>5, FeistelRound
<1>8. \A u, v \in Number : D(u) = D(v) => u = v
  BY <1>0, <1>5, <1>6, FeistelRound
<1> HIDE DEF D
<1>9. \A v \in Number : E(v) \in Word
  BY <1>0, <1>7, FeistelRound
<1>10. \A u, v \in Number : E(u) = E(v) => u = v
  BY <1>0, <1>7, <1>8, FeistelRound
<1> HIDE DEF E
<1>11. \A v \in Number : G(v) \in Word
  BY <1>0, <1>9, FeistelRound
<1>12. \A u, v \in Number : G(u) = G(v) => u = v
  BY <1>0, <1>9, <1>10, FeistelRound
<1> HIDE DEF G
<1> QED BY <1>f, <1>11, <1>12, JoinedNumber

-----------------------------------------------------------------------------
(* The walks *)

(* where a walk of position a may be: at its start, or outside the indexes *)
(* and one application of full after a point it has visited                *)
Follows(a, p) ==
    \/ p = a
    \/ p >= n /\ \E q \in Number : <<a, q>> \in walked /\ full(q) = p

(* The inductive invariant: visited points are chained back to the start   *)
(* of their walk, no point is visited by two walks, and a result is full   *)
(* of a visited point.                                                     *)
WalkInv ==
    /\ walked \subseteq (0 .. order) \X Number
    /\ \A a \in Index : \A p \in Number : <<a, p>> \in walked => Follows(a, p)
    /\ order < n => Follows(order, x)
    /\ \A a, b \in Index : \A p \in Number :
           <<a, p>> \in walked /\ <<b, p>> \in walked => a = b
    /\ n > 1 => \A a \in 0 .. order - 1 :
           \E q \in Number : <<a, q>> \in walked /\ full(q) = image[a]

Inv == TypeOK /\ WalkInv

LEMMA InitInv == Init => Inv
<1> SUFFICES ASSUME Init PROVE Inv
  OBVIOUS
<1>1. n \in Nat \ {0} /\ n \in Sizes
  BY SizesAssumption DEF Init
<1>2. half \in 1 .. MaxHalf /\ n <= 2 ^ half * 2 ^ half
  BY <1>1, WidthAssumption DEF Init, half_of, half_holds
<1>3. PICK M \in Nat \ {0} : M = 2 ^ half
  BY <1>2, RadixPositive
<1>4. TypeOK
  <2>1. 0 < 2 ^ half * 2 ^ half /\ 2 ^ half * 2 ^ half \in Nat
    BY <1>3
  <2> QED BY <1>1, <1>2, <2>1 DEF TypeOK, Init, Index
<1>5. WalkInv
  BY <1>1 DEF WalkInv, Init, Follows, Index
<1> QED BY <1>4, <1>5 DEF Inv

(* what a step that keeps the permutation leaves alone *)
LEMMA SameNetwork ==
    ASSUME n' = n, key' = key, half' = half
    PROVE  /\ Number' = Number /\ Index' = Index
           /\ \A q : full(q)' = full(q)
BY DEF Number, Index, full, Joined, Feistel, Split, Word, HalfWord, mask, round

(* Visiting x: the chains stay chains and no other walk has been there.    *)
LEMMA Visit ==
    ASSUME Inv, order < n, walked' = walked \cup {<<order, x>>},
           n' = n, key' = key, half' = half, order' \in {order, order + 1}
    PROVE  /\ x \in Number /\ order \in Index
           /\ walked' \subseteq (0 .. order') \X Number'
           /\ \A a \in Index', p \in Number' :
                  <<a, p>> \in walked' => Follows(a, p)'
           /\ \A a, b \in Index' : \A p \in Number' :
                  <<a, p>> \in walked' /\ <<b, p>> \in walked' => a = b
<1> USE DEF Inv
<1>1. n \in Nat /\ order \in Nat /\ half \in 1 .. MaxHalf /\ key \in Key
  BY SizesAssumption DEF TypeOK
<1>2. 2 ^ half * 2 ^ half \in Nat
  BY <1>1, RadixPositive
<1>3. x \in Number /\ order \in Index
  BY <1>1, <1>2 DEF TypeOK, Number, Index
<1>4. Number' = Number /\ Index' = Index /\ (\A q : full(q)' = full(q))
  BY SameNetwork
<1>5. walked' \subseteq (0 .. order') \X Number'
  BY <1>1, <1>3, <1>4 DEF WalkInv
<1>6. Follows(order, x)
  BY DEF WalkInv
<1>7. ASSUME NEW a \in Index, NEW p \in Number, Follows(a, p)
      PROVE  Follows(a, p)'
  BY <1>4, <1>7 DEF Follows
<1>8. ASSUME NEW a \in Index, NEW p \in Number, <<a, p>> \in walked'
      PROVE  Follows(a, p)
  <2>1. CASE <<a, p>> \in walked
    BY <2>1 DEF WalkInv
  <2>2. CASE <<a, p>> = <<order, x>>
    BY <2>2, <1>6
  <2> QED BY <1>8, <2>1, <2>2
<1>9. ASSUME NEW b \in Index, <<b, x>> \in walked PROVE b = order
  <2>1. Follows(b, x)
    BY <1>3, <1>9 DEF WalkInv
  <2>2. CASE x < n
    BY <1>1, <1>3, <1>6, <2>1, <2>2 DEF Follows, Number, Index
  <2>3. CASE x >= n
    <3>0. x # order /\ x # b
      BY <1>1, <2>3 DEF Index
    <3>1. PICK q \in Number : <<order, q>> \in walked /\ full(q) = x
      BY <1>6, <3>0 DEF Follows
    <3>2. PICK r \in Number : <<b, r>> \in walked /\ full(r) = x
      BY <2>1, <3>0 DEF Follows
    <3>3. q = r
      BY <1>1, <3>1, <3>2, FullInjective
    <3> QED BY <1>3, <3>1, <3>2, <3>3 DEF WalkInv
  <2> QED BY <1>1, <1>2, <1>3, <2>2, <2>3 DEF Number
<1>10. ASSUME NEW a \in Index, NEW b \in Index, NEW p \in Number,
              <<a, p>> \in walked', <<b, p>> \in walked'
       PROVE  a = b
  <2>1. CASE <<a, p>> \in walked /\ <<b, p>> \in walked
    BY <2>1 DEF WalkInv
  <2>2. CASE <<a, p>> = <<order, x>>
    BY <1>9, <1>10, <2>2
  <2>3. CASE <<b, p>> = <<order, x>>
    BY <1>9, <1>10, <2>3
  <2> QED BY <1>10, <2>1, <2>2, <2>3
<1> QED BY <1>3, <1>4, <1>5, <1>7, <1>8, <1>10

(* The step of the walk that reaches no index *)
LEMMA WalkStep == Inv /\ Walk => Inv'
<1> SUFFICES ASSUME Inv, Walk PROVE Inv'
  OBVIOUS
<1>1. n \in Nat /\ order \in 0 .. n /\ half \in 1 .. MaxHalf /\ key \in Key
      /\ n' = n /\ key' = key /\ half' = half /\ order' = order /\ order < n
      /\ image' = image /\ walked' = walked \cup {<<order, x>>} /\ x' = full(x)
      /\ full(x) >= n
  BY SizesAssumption DEF Inv, TypeOK, Walk
<1>2. 2 ^ half * 2 ^ half \in Nat
  BY <1>1, RadixPositive
<1>3. Number' = Number /\ Index' = Index /\ (\A q : full(q)' = full(q))
  BY <1>1, SameNetwork
<1>4. /\ x \in Number /\ order \in Index
      /\ walked' \subseteq (0 .. order') \X Number'
      /\ \A a \in Index', p \in Number' :
             <<a, p>> \in walked' => Follows(a, p)'
      /\ \A a, b \in Index' : \A p \in Number' :
             <<a, p>> \in walked' /\ <<b, p>> \in walked' => a = b
  BY <1>1, Visit
<1>5. full(x) \in Number
  BY <1>1, <1>4, FullInjective
<1>6. TypeOK'
  BY <1>1, <1>2, <1>3, <1>4, <1>5 DEF Inv, TypeOK, Index, Number
<1>7. Follows(order, x)'
  BY <1>1, <1>3, <1>4 DEF Follows
<1>8. ASSUME n > 1, NEW a \in 0 .. order - 1
      PROVE  \E q \in Number : <<a, q>> \in walked' /\ full(q)' = image'[a]
  BY <1>1, <1>3, <1>8 DEF Inv, WalkInv
<1>9. WalkInv'
  BY <1>1, <1>3, <1>4, <1>7, <1>8 DEF WalkInv
<1> QED BY <1>6, <1>9 DEF Inv

(* get returns: the next position starts its walk at itself *)
LEMMA ReturnStep ==
    ASSUME Inv, order < n, NEW y \in Index, Return(y),
           walked' = walked \cup {<<order, x>>},
           n' = n, key' = key, half' = half,
           n > 1 => full(x) = y
    PROVE  Inv'
<1>1. n \in Nat /\ order \in 0 .. n /\ half \in 1 .. MaxHalf /\ key \in Key
      /\ image \in [0 .. order - 1 -> Index] /\ n <= 2 ^ half * 2 ^ half
  BY SizesAssumption DEF Inv, TypeOK
<1>2. 2 ^ half * 2 ^ half \in Nat
  BY <1>1, RadixPositive
<1>3. Number' = Number /\ Index' = Index /\ (\A q : full(q)' = full(q))
  BY SameNetwork
<1>r. /\ order' = order + 1 /\ x' = order + 1
      /\ image' = [i \in 0 .. order |-> IF i = order THEN y ELSE image[i]]
  BY DEF Return
<1>4. /\ x \in Number /\ order \in Index
      /\ walked' \subseteq (0 .. order') \X Number'
      /\ \A a \in Index', p \in Number' :
             <<a, p>> \in walked' => Follows(a, p)'
      /\ \A a, b \in Index' : \A p \in Number' :
             <<a, p>> \in walked' /\ <<b, p>> \in walked' => a = b
  BY <1>1, <1>r, Visit
<1>5. image' \in [0 .. order' - 1 -> Index']
  BY <1>1, <1>3, <1>r
<1>w. walked' \subseteq Index' \X Nat
  BY <1>1, <1>2, <1>3, <1>4 DEF Inv, TypeOK, Number
<1>6. TypeOK'
  BY <1>1, <1>2, <1>3, <1>r, <1>5, <1>w DEF Inv, TypeOK
<1>7. Follows(order, x)'
  BY <1>r DEF Follows
<1>8. ASSUME n > 1, NEW a \in 0 .. order
      PROVE  \E q \in Number : <<a, q>> \in walked' /\ full(q) = image'[a]
  <2>1. CASE a = order
    BY <1>4, <1>8, <1>r, <2>1
  <2>2. CASE a \in 0 .. order - 1
    <3>1. image'[a] = image[a]
      BY <1>1, <1>r, <2>2
    <3>2. PICK q \in Number : <<a, q>> \in walked /\ full(q) = image[a]
      BY <1>8, <2>2 DEF Inv, WalkInv
    <3> QED BY <3>1, <3>2
  <2>3. a = order \/ a \in 0 .. order - 1
    BY <1>1
  <2> QED BY <2>1, <2>2, <2>3
<1>9. WalkInv'
  <2>1. 0 .. order' - 1 = 0 .. order
    BY <1>1, <1>r
  <2> QED BY <1>3, <1>4, <1>7, <1>8, <2>1 DEF WalkInv
<1> QED BY <1>6, <1>9 DEF Inv

LEMMA StepInv == Inv /\ [Next]_vars => Inv'
<1> SUFFICES ASSUME Inv, [Next]_vars PROVE Inv'
  OBVIOUS
<1>1. n \in Nat \ {0} /\ order \in 0 .. n /\ half \in 1 .. MaxHalf /\ key \in Key
  BY SizesAssumption DEF Inv, TypeOK
<1>2. CASE GetOnly
  <2>1. 0 \in Index
    BY <1>1 DEF Index
  <2> QED BY <1>1, <1>2, <2>1, ReturnStep DEF GetOnly
<1>3. CASE Walk
  BY <1>3, WalkStep
<1>4. CASE GetReturns
  <2>1. x \in Number
    BY <1>1, <1>4, RadixPositive DEF GetReturns, Inv, TypeOK, Number
  <2>2. full(x) \in Number
    BY <1>1, <2>1, FullInjective
  <2>3. full(x) \in Index
    BY <1>1, <1>4, <2>2, RadixPositive DEF GetReturns, Index, Number
  <2> QED BY <1>1, <1>4, <2>3, ReturnStep DEF GetReturns
<1>5. CASE UNCHANGED vars
  <2>1. n' = n /\ key' = key /\ half' = half /\ order' = order /\ x' = x
        /\ image' = image /\ walked' = walked
    BY <1>5 DEF vars
  <2>2. Number' = Number /\ Index' = Index /\ (\A q : full(q)' = full(q))
    BY <2>1, SameNetwork
  <2>3. TypeOK'
    BY <2>1, <2>2 DEF Inv, TypeOK
  <2>4. \A a, p : Follows(a, p)' <=> Follows(a, p)
    BY <2>1, <2>2 DEF Follows
  <2>5. WalkInv'
    BY <2>1, <2>2, <2>4 DEF Inv, WalkInv
  <2> QED BY <2>3, <2>5 DEF Inv
<1> QED BY <1>2, <1>3, <1>4, <1>5 DEF Next

(* Two results that are equal come from the same visited point, hence from *)
(* the same walk; a one-to-one map of a finite set to itself is onto.      *)
LEMMA InvSweep == Inv => SweepIsPermutation
<1> SUFFICES ASSUME Inv PROVE SweepIsPermutation
  OBVIOUS
<1>1. n \in Nat \ {0} /\ order \in 0 .. n /\ half \in 1 .. MaxHalf /\ key \in Key
      /\ image \in [0 .. order - 1 -> Index]
  BY SizesAssumption DEF Inv, TypeOK
<1>2. ASSUME NEW i \in 0 .. order - 1, NEW j \in 0 .. order - 1,
             image[i] = image[j]
      PROVE  i = j
  <2>1. CASE n = 1
    BY <1>1, <2>1
  <2>2. CASE n > 1
    <3>1. PICK q \in Number : <<i, q>> \in walked /\ full(q) = image[i]
      BY <2>2 DEF Inv, WalkInv
    <3>2. PICK r \in Number : <<j, r>> \in walked /\ full(r) = image[j]
      BY <2>2 DEF Inv, WalkInv
    <3>3. q = r
      BY <1>1, <1>2, <3>1, <3>2, FullInjective
    <3>4. i \in Index /\ j \in Index
      BY <1>1 DEF Index
    <3> QED BY <3>1, <3>2, <3>3, <3>4 DEF Inv, WalkInv
  <2> QED BY <1>1, <2>1, <2>2
<1>3. ASSUME order = n PROVE {image[i] : i \in DOMAIN image} = Index
  <2>1. image \in Injection(Index, Index)
    BY <1>1, <1>2, <1>3 DEF Injection, IsInjective, Index
  <2>2. IsFiniteSet(Index)
    BY <1>1, FS_Interval DEF Index
  <2>3. image \in Surjection(Index, Index)
    BY <2>1, <2>2, FS_Injection
  <2>4. DOMAIN image = Index
    BY <1>1, <1>3 DEF Index
  <2> QED BY <1>1, <2>3, <2>4 DEF Surjection
<1> QED BY <1>1, <1>2, <1>3 DEF SweepIsPermutation

-----------------------------------------------------------------------------
(* Every result is an endpoint index and the loop variable stays within    *)
(* the bits of the network: Permutation::get never reads outside a file.   *)
THEOREM TypeCorrect == Spec => []TypeOK
<1>1. Inv => TypeOK
  BY DEF Inv
<1> QED BY <1>1, InitInv, StepInv, PTL DEF Spec

(* Permutation::get visits every endpoint exactly once per round, for      *)
(* every target count and every key: no endpoint gets two SYNs in a round  *)
(* and none is left out.                                                   *)
THEOREM SweepPermutes == Spec => []SweepIsPermutation
BY InitInv, StepInv, InvSweep, PTL DEF Spec
-----------------------------------------------------------------------------
(* Loops.  A loop of the code is a recursive function on the number of     *)
(* passes.  That the recursion has a solution, and what holds of it after  *)
(* every pass, follow by induction on that number.                         *)

LEMMA Least ==
    ASSUME NEW S \in SUBSET Nat, S # {}
    PROVE  \E m \in S : \A y \in S : m <= y
<1>1. PICK m \in S : \A y \in S : ~(<<y, m>> \in OpToRel(<, Nat))
  BY NatLessThanWellFounded, WFMin
<1>2. ASSUME NEW y \in S PROVE m <= y
  <2>1. <<y, m>> \in Nat \X Nat /\ <<y, m>>[1] = y /\ <<y, m>>[2] = m
    OBVIOUS
  <2>2. ~(y < m)
    BY <1>1, <2>1, Zenon DEF OpToRel
  <2> QED BY <2>2
<1> QED BY <1>2

(* What holds before the first pass and is kept by each holds after all. *)
LEMMA Passes ==
    ASSUME NEW top \in Nat, NEW S, 0 \in S,
           \A k \in 0 .. top - 1 : k \in S => k + 1 \in S
    PROVE  \A k \in 0 .. top : k \in S
<1> DEFINE Bad == {k \in 0 .. top : k \notin S}
<1>1. CASE Bad = {}
  BY <1>1
<1>2. CASE Bad # {}
  <2>1. Bad \in SUBSET Nat
    OBVIOUS
  <2>2. PICK m \in Bad : \A y \in Bad : m <= y
    <3> HIDE DEF Bad
    <3> QED BY <1>2, <2>1, Least
  <2>3. m \in 0 .. top /\ m \notin S /\ m # 0
    OBVIOUS
  <2>4. m - 1 \in 0 .. top - 1 /\ m - 1 \in 0 .. top
    BY <2>3
  <2>5. m - 1 \notin Bad
    <3> HIDE DEF Bad
    <3> QED BY <2>2, <2>3
  <2>6. m - 1 \in S
    BY <2>4, <2>5
  <2> QED BY <2>3, <2>4, <2>6
<1> QED BY <1>1, <1>2

(* f lists the values of a loop of t passes over G *)
Loops(f, base, G, t) == f[0] = base /\ \A k \in 1 .. t : f[k] = G[k][f[k - 1]]

LEMMA LoopExists ==
    ASSUME NEW A, NEW base \in A, NEW top \in Nat,
           NEW G \in [1 .. top -> [A -> A]]
    PROVE  \E f \in [0 .. top -> A] : Loops(f, base, G, top)
<1> DEFINE Runs(f, t) == f[0] = base /\ \A k \in 1 .. t : f[k] = G[k][f[k - 1]]
           S == {t \in 0 .. top : \E f \in [0 .. t -> A] : Runs(f, t)}
<1>1. 0 \in S
  <2>1. [k \in 0 .. 0 |-> base] \in [0 .. 0 -> A]
    OBVIOUS
  <2>2. Runs([k \in 0 .. 0 |-> base], 0)
    OBVIOUS
  <2>3. 0 \in 0 .. top
    OBVIOUS
  <2>4. \E f \in [0 .. 0 -> A] : Runs(f, 0)
    BY <2>1, <2>2, Zenon
  <2> QED BY <2>3, <2>4
<1>2. ASSUME NEW t \in 0 .. top - 1, t \in S PROVE t + 1 \in S
  <2>1. PICK f \in [0 .. t -> A] : Runs(f, t)
    BY <1>2
  <2>2. t + 1 \in 1 .. top /\ t + 1 \in 0 .. top /\ t \in 0 .. t /\ t \in Nat
    OBVIOUS
  <2>3. G[t + 1][f[t]] \in A
    BY <2>2
  <2> DEFINE h == [k \in 0 .. t + 1 |-> IF k = t + 1 THEN G[t + 1][f[t]] ELSE f[k]]
  <2>4. h \in [0 .. t + 1 -> A]
    BY <2>2, <2>3
  <2>5. ASSUME NEW k \in 1 .. t + 1 PROVE h[k] = G[k][h[k - 1]]
    <3>1. CASE k = t + 1
      <4>1. k - 1 = t /\ h[k - 1] = f[t] /\ h[k] = G[t + 1][f[t]]
        BY <2>2, <3>1
      <4> QED BY <3>1, <4>1
    <3>2. CASE k # t + 1
      <4>1. k \in 1 .. t /\ k - 1 \in 0 .. t /\ h[k - 1] = f[k - 1] /\ h[k] = f[k]
        BY <2>2, <3>2
      <4> QED BY <2>1, <4>1
    <3> QED BY <3>1, <3>2
  <2>6. h[0] = base
    BY <2>1, <2>2
  <2> HIDE DEF h
  <2>7. Runs(h, t + 1)
    BY <2>5, <2>6
  <2> QED BY <2>2, <2>4, <2>7
<1> HIDE DEF S
<1>3. \A t \in 0 .. top : t \in S
  BY <1>1, <1>2, Passes
<1>4. top \in S
  BY <1>3
<1> QED BY <1>4 DEF S, Loops

(* The values of a loop stay in a set that every pass keeps. *)
LEMMA LoopTyped ==
    ASSUME NEW A, NEW g, NEW top \in Nat, g[0] \in A,
           \A k \in 1 .. top : g[k - 1] \in A => g[k] \in A
    PROVE  \A k \in 0 .. top : g[k] \in A
<1> DEFINE S == {k \in 0 .. top : g[k] \in A}
<1>1. 0 \in S
  OBVIOUS
<1>2. ASSUME NEW k \in 0 .. top - 1, k \in S PROVE k + 1 \in S
  <2>1. k + 1 \in 1 .. top /\ k + 1 \in 0 .. top /\ (k + 1) - 1 = k
    OBVIOUS
  <2> QED BY <1>2, <2>1
<1>3. \A k \in 0 .. top : k \in S
  <2> HIDE DEF S
  <2> QED BY <1>1, <1>2, Passes
<1> QED BY <1>3

-----------------------------------------------------------------------------
(* Ranges *)

Block == {r \in [start : Nat, end : Nat] : r.start <= r.end}
Blocks == Seq(Block)

Inside(a, r) == r.start <= a /\ a <= r.end
Among(a, rs) == \E i \in 1 .. Len(rs) : Inside(a, rs[i])

(* in order and without a common address *)
Apart(rs) == \A i, j \in 1 .. Len(rs) : i < j => rs[i].end < rs[j].start

Sorted(rs) == \A i, j \in 1 .. Len(rs) : i <= j => rs[i].start <= rs[j].start

LEMMA BlockFields ==
    ASSUME NEW rs \in Blocks, NEW i \in 1 .. Len(rs)
    PROVE  /\ rs[i] \in Block /\ rs[i] \in [start : Nat, end : Nat]
           /\ rs[i].start \in Nat /\ rs[i].end \in Nat
           /\ rs[i].start <= rs[i].end
<1>1. rs[i] \in Block
  BY ElementOfSeq DEF Blocks
<1> QED BY <1>1 DEF Block

LEMMA SpanBlock ==
    ASSUME NEW a \in Nat, NEW b \in Nat, a <= b
    PROVE  Span(a, b) \in Block /\ Span(a, b).start = a /\ Span(a, b).end = b
BY DEF Span, Block

LEMMA AppendBlock ==
    ASSUME NEW out \in Blocks, NEW r \in Block
    PROVE  LET more == Append(out, r)
           IN  /\ more \in Blocks /\ Len(more) = Len(out) + 1
               /\ \A i \in 1 .. Len(out) : more[i] = out[i]
               /\ more[Len(out) + 1] = r
               /\ \A a : Among(a, more) <=> Among(a, out) \/ Inside(a, r)
<1> DEFINE more == Append(out, r)
<1>1. /\ more \in Blocks /\ Len(more) = Len(out) + 1 /\ Len(out) \in Nat
      /\ \A i \in 1 .. Len(out) : more[i] = out[i]
      /\ more[Len(out) + 1] = r
  BY AppendProperties, LenProperties DEF Blocks
<1> HIDE DEF more
<1>2. ASSUME NEW a PROVE Among(a, more) <=> Among(a, out) \/ Inside(a, r)
  <2>1. \A i \in 1 .. Len(out) + 1 : i \in 1 .. Len(out) \/ i = Len(out) + 1
    BY <1>1
  <2>2. \A i \in 1 .. Len(out) : i \in 1 .. Len(more)
    BY <1>1
  <2>3. Len(out) + 1 \in 1 .. Len(more)
    BY <1>1
  <2> QED BY <1>1, <2>1, <2>2, <2>3 DEF Among
<1> QED BY <1>1, <1>2 DEF more

-----------------------------------------------------------------------------
(* merge *)

(* One pass keeps the list in order and adds the addresses of one range. *)
LEMMA MergeStep ==
    ASSUME NEW out \in Blocks, NEW r \in Block, Apart(out),
           \A i \in 1 .. Len(out) : out[i].start <= r.start
    PROVE  LET new == MergeOne(out, r)
           IN  /\ new \in Blocks /\ Apart(new)
               /\ \A i \in 1 .. Len(new) : new[i].start <= r.start
               /\ \A a \in Nat : Among(a, new) <=> Among(a, out) \/ Inside(a, r)
<1>0. Len(out) \in Nat /\ r.start \in Nat /\ r.end \in Nat /\ r.start <= r.end
  BY LenProperties DEF Blocks, Block
<1>1. CASE out # <<>> /\ Joins(Last(out), r)
  <2>1. Len(out) \in 1 .. Len(out)
    BY <1>0, <1>1, EmptySeq DEF Blocks
  <2>2. PICK last \in Block : last = out[Len(out)] /\ last.start \in Nat
                           /\ last.end \in Nat /\ last.start <= last.end
    BY <2>1, BlockFields
  <2>3. last = Last(out) /\ r.start <= last.end + 1
    BY <1>1, <2>2 DEF Last, Joins
  <2>4. PICK e \in Nat : e = larger(last.end, r.end) /\ e >= last.end /\ e >= r.end
                      /\ (e = last.end \/ e = r.end)
    BY <1>0, <2>2 DEF larger
  <2> DEFINE grown == [last EXCEPT !.end = e]
             new == [out EXCEPT ![Len(out)] = grown]
  <2>5. grown \in Block /\ grown.start = last.start /\ grown.end = e
    BY <2>2, <2>4 DEF Block
  <2>6. MergeOne(out, r) = new
    BY <1>1, <2>1, <2>2, <2>4 DEF MergeOne, Blocks
  <2>7. /\ new \in Blocks /\ Len(new) = Len(out)
        /\ \A i \in 1 .. Len(out) : new[i] = IF i = Len(out) THEN grown ELSE out[i]
    BY <2>1, <2>5, ExceptSeq DEF Blocks
  <2> HIDE DEF grown, new
  <2>8. Apart(new)
    <3>1. ASSUME NEW i \in 1 .. Len(new), NEW j \in 1 .. Len(new), i < j
          PROVE  new[i].end < new[j].start
      <4>1. i \in 1 .. Len(out) /\ j \in 1 .. Len(out) /\ i # Len(out)
        BY <1>0, <2>7, <3>1
      <4>2. out[i].end < out[j].start
        BY <3>1, <4>1 DEF Apart
      <4> QED BY <2>2, <2>5, <2>7, <4>1, <4>2
    <3> QED BY <3>1 DEF Apart
  <2>9. \A i \in 1 .. Len(new) : new[i].start <= r.start
    BY <2>1, <2>2, <2>5, <2>7
  <2>10. ASSUME NEW a \in Nat
         PROVE  Among(a, new) <=> Among(a, out) \/ Inside(a, r)
    <3>1. Inside(a, grown) <=> Inside(a, last) \/ Inside(a, r)
      <4>1. last.start <= r.start
        BY <2>1, <2>2
      <4> QED BY <1>0, <2>2, <2>3, <2>4, <2>5, <4>1 DEF Inside
    <3> QED BY <2>1, <2>2, <2>7, <3>1 DEF Among
  <2> QED BY <2>6, <2>7, <2>8, <2>9, <2>10
<1>2. CASE ~(out # <<>> /\ Joins(Last(out), r))
  <2> DEFINE new == Append(out, r)
  <2>1. MergeOne(out, r) = new
    BY <1>2 DEF MergeOne
  <2>2. /\ new \in Blocks /\ Len(new) = Len(out) + 1
        /\ \A i \in 1 .. Len(out) : new[i] = out[i]
        /\ new[Len(out) + 1] = r
        /\ \A a : Among(a, new) <=> Among(a, out) \/ Inside(a, r)
    BY AppendBlock
  <2> HIDE DEF new
  <2>3. ASSUME NEW i \in 1 .. Len(out) PROVE out[i].end < r.start
    <3>1. out # <<>> /\ Len(out) \in 1 .. Len(out)
      BY <1>0, EmptySeq
    <3>2. /\ out[i].end \in Nat /\ out[i].start \in Nat
          /\ out[Len(out)].end \in Nat /\ out[Len(out)].start \in Nat
          /\ out[Len(out)].start <= out[Len(out)].end
      BY <3>1, BlockFields
    <3>3. out[Len(out)].end < r.start
      BY <1>0, <1>2, <3>1, <3>2 DEF Joins, Last
    <3>4. i = Len(out) \/ out[i].end < out[Len(out)].start
      BY <1>0, <3>1 DEF Apart
    <3> QED BY <1>0, <3>2, <3>3, <3>4
  <2>4. Apart(new)
    <3>1. ASSUME NEW i \in 1 .. Len(new), NEW j \in 1 .. Len(new), i < j
          PROVE  new[i].end < new[j].start
      <4>1. i \in 1 .. Len(out) /\ (j \in 1 .. Len(out) \/ j = Len(out) + 1)
        BY <1>0, <2>2, <3>1
      <4> QED BY <2>2, <2>3, <3>1, <4>1 DEF Apart
    <3> QED BY <3>1 DEF Apart
  <2>5. \A i \in 1 .. Len(new) : new[i].start <= r.start
    <3>1. \A i \in 1 .. Len(new) : i \in 1 .. Len(out) \/ i = Len(out) + 1
      BY <1>0, <2>2
    <3> QED BY <1>0, <2>2, <3>1
  <2> QED BY <2>1, <2>2, <2>4, <2>5
<1> QED BY <1>1, <1>2

LEMMA MergeOneBlocks ==
    ASSUME NEW out \in Blocks, NEW r \in Block
    PROVE  MergeOne(out, r) \in Blocks
<1>0. Len(out) \in Nat /\ r.end \in Nat
  BY LenProperties DEF Blocks, Block
<1>1. CASE out # <<>> /\ Joins(Last(out), r)
  <2>1. Len(out) \in 1 .. Len(out)
    BY <1>0, <1>1, EmptySeq DEF Blocks
  <2>2. PICK last \in Block : last = out[Len(out)] /\ last.start \in Nat
                           /\ last.end \in Nat /\ last.start <= last.end
    BY <2>1, BlockFields
  <2>3. PICK e \in Nat : e = larger(last.end, r.end) /\ e >= last.end
    BY <1>0, <2>2 DEF larger
  <2> DEFINE grown == [last EXCEPT !.end = e]
  <2>g. grown \in Block
    BY <2>2, <2>3 DEF Block
  <2>4. MergeOne(out, r) = [out EXCEPT ![Len(out)] = grown]
    BY <1>1, <2>1, <2>2, <2>3 DEF MergeOne, Blocks
  <2> HIDE DEF grown
  <2> QED BY <2>1, <2>4, <2>g, ExceptSeq DEF Blocks
<1>2. CASE ~(out # <<>> /\ Joins(Last(out), r))
  BY <1>2, AppendProperties DEF MergeOne, Blocks
<1> QED BY <1>1, <1>2

LEMMA MergeUnfolds ==
    ASSUME NEW s \in Blocks
    PROVE  \E f : /\ Merged(s) = f[Len(s)] /\ f[0] = <<>>
                  /\ \A k \in 0 .. Len(s) : f[k] \in Blocks
                  /\ \A k \in 1 .. Len(s) : f[k] = MergeOne(f[k - 1], s[k])
<1> DEFINE top == Len(s)
           Step(h, k) == IF k = 0 THEN <<>> ELSE MergeOne(h[k - 1], s[k])
           G == [k \in 1 .. top |-> [out \in Blocks |-> MergeOne(out, s[k])]]
           g == CHOOSE h : h = [k \in 0 .. top |-> Step(h, k)]
<1>0. top \in Nat /\ \A k \in 1 .. top : s[k] \in Block
  BY BlockFields, LenProperties DEF Blocks
<1>1. <<>> \in Blocks
  BY DEF Blocks
<1>2. Merged(s) = g[top]
  BY Zenon DEF Merged
<1> HIDE DEF top
<1>3. G \in [1 .. top -> [Blocks -> Blocks]]
  BY <1>0, MergeOneBlocks
<1>4. PICK f \in [0 .. top -> Blocks] :
         f[0] = <<>> /\ \A k \in 1 .. top : f[k] = G[k][f[k - 1]]
  <2>1. top \in Nat
    BY <1>0
  <2> HIDE DEF G
  <2>2. \E f \in [0 .. top -> Blocks] : Loops(f, <<>>, G, top)
    BY <1>1, <1>3, <2>1, LoopExists, Zenon
  <2> QED BY <2>2, Zenon DEF Loops
<1>5. f = [k \in 0 .. top |-> Step(f, k)]
  <2>1. ASSUME NEW k \in 0 .. top PROVE f[k] = Step(f, k)
    <3>1. CASE k # 0
      <4>1. k \in 1 .. top /\ k - 1 \in 0 .. top
        BY <1>0, <3>1
      <4>2. G[k][f[k - 1]] = MergeOne(f[k - 1], s[k])
        BY <4>1
      <4> QED BY <1>4, <3>1, <4>1, <4>2
    <3> QED BY <1>4, <3>1
  <2> HIDE DEF Step
  <2> QED BY <2>1
<1>6. g = [k \in 0 .. top |-> Step(g, k)]
  BY <1>5, Zenon
<1> HIDE DEF g
<1>7. g[0] = <<>> /\ \A k \in 1 .. top : g[k] = MergeOne(g[k - 1], s[k])
  BY <1>0, <1>6
<1>8. \A k \in 0 .. top : g[k] \in Blocks
  BY <1>0, <1>1, <1>7, MergeOneBlocks, LoopTyped
<1> QED BY <1>2, <1>7, <1>8 DEF top

(* Merging a sorted list loses and invents no address. *)
LEMMA MergeSorted ==
    ASSUME NEW s \in Blocks, Sorted(s)
    PROVE  /\ Merged(s) \in Blocks /\ Apart(Merged(s))
           /\ \A a \in Nat : Among(a, Merged(s)) <=> Among(a, s)
<1>0. Len(s) \in Nat /\ \A k \in 1 .. Len(s) : s[k] \in Block /\ s[k].start \in Nat
  BY BlockFields, LenProperties DEF Blocks
<1>1. PICK f : /\ Merged(s) = f[Len(s)] /\ f[0] = <<>>
               /\ \A k \in 0 .. Len(s) : f[k] \in Blocks
               /\ \A k \in 1 .. Len(s) : f[k] = MergeOne(f[k - 1], s[k])
  BY MergeUnfolds
<1> DEFINE Good(k) ==
              /\ Apart(f[k])
              /\ \A j \in k + 1 .. Len(s) :
                    \A i \in 1 .. Len(f[k]) : f[k][i].start <= s[j].start
              /\ \A a \in Nat : Among(a, f[k]) <=> \E i \in 1 .. k : Inside(a, s[i])
           S == {k \in 0 .. Len(s) : Good(k)}
<1>2. 0 \in S
  <2>1. Len(f[0]) = 0
    BY <1>1
  <2>2. Good(0)
    BY <2>1 DEF Apart, Among
  <2> HIDE DEF Good
  <2> QED BY <1>0, <2>2
<1>3. ASSUME NEW k \in 0 .. Len(s) - 1, k \in S PROVE k + 1 \in S
  <2>0. /\ k \in Nat /\ k + 1 \in 1 .. Len(s) /\ (k + 1) - 1 = k
        /\ k \in 0 .. Len(s) /\ k + 1 \in 0 .. Len(s)
        /\ k + 1 \in k + 1 .. Len(s)
    BY <1>0
  <2>1. PICK out, r, new : out = f[k] /\ r = s[k + 1] /\ new = f[k + 1]
    OBVIOUS
  <2>2. /\ out \in Blocks /\ r \in Block /\ r.start \in Nat
        /\ new = MergeOne(out, r)
    BY <1>0, <1>1, <2>0, <2>1
  <2>3. Apart(out) /\ \A i \in 1 .. Len(out) : out[i].start <= r.start
    BY <1>3, <2>0, <2>1
  <2>4. /\ new \in Blocks /\ Apart(new)
        /\ \A i \in 1 .. Len(new) : new[i].start <= r.start
        /\ \A a \in Nat : Among(a, new) <=> Among(a, out) \/ Inside(a, r)
    BY <2>2, <2>3, MergeStep
  <2>5. ASSUME NEW j \in (k + 1) + 1 .. Len(s), NEW i \in 1 .. Len(new)
        PROVE  new[i].start <= s[j].start
    <3>1. j \in 1 .. Len(s) /\ k + 1 <= j
      BY <1>0, <2>0
    <3>2. r.start <= s[j].start /\ s[j].start \in Nat
      BY <1>0, <2>0, <2>1, <3>1 DEF Sorted
    <3>3. new[i].start \in Nat /\ new[i].start <= r.start
      BY <2>4, BlockFields
    <3> QED BY <2>2, <3>2, <3>3
  <2>6. ASSUME NEW a \in Nat
        PROVE  Among(a, new) <=> \E i \in 1 .. k + 1 : Inside(a, s[i])
    <3>1. Among(a, out) <=> \E i \in 1 .. k : Inside(a, s[i])
      BY <1>3, <2>1
    <3>2. \A i \in 1 .. k + 1 : i \in 1 .. k \/ i = k + 1
      BY <2>0
    <3>3. \A i \in 1 .. k : i \in 1 .. k + 1
      BY <2>0
    <3>4. k + 1 \in 1 .. k + 1
      BY <2>0
    <3> QED BY <2>1, <2>4, <3>1, <3>2, <3>3, <3>4
  <2>7. Good(k + 1)
    BY <2>1, <2>4, <2>5, <2>6
  <2> HIDE DEF Good
  <2> QED BY <2>0, <2>7
<1>4. Good(Len(s))
  <2>1. \A k \in 0 .. Len(s) : k \in S
    <3> HIDE DEF S
    <3> QED BY <1>0, <1>2, <1>3, Passes
  <2>2. Len(s) \in S
    BY <1>0, <2>1
  <2> QED BY <2>2
<1> QED BY <1>0, <1>1, <1>4 DEF Among

(* Whichever order sort_unstable leaves equal starts in, the list is       *)
(* sorted and has the same ranges.                                         *)
LEMMA SortKeeps ==
    ASSUME NEW rs \in Blocks, NEW s \in sort_unstable(rs)
    PROVE  s \in Blocks /\ Sorted(s) /\ \A a : Among(a, s) <=> Among(a, rs)
<1>0. Len(rs) \in Nat /\ DOMAIN rs = 1 .. Len(rs)
      /\ \A i \in 1 .. Len(rs) : rs[i] \in Block
  BY BlockFields, LenProperties DEF Blocks
<1>1. PICK p \in Bijection(DOMAIN rs, DOMAIN rs) :
         /\ s = [i \in DOMAIN rs |-> rs[p[i]]]
         /\ \A i \in 1 .. Len(rs) - 1 : s[i].start <= s[i + 1].start
  BY DEF sort_unstable
<1>2. /\ p \in [1 .. Len(rs) -> 1 .. Len(rs)]
      /\ \A j \in 1 .. Len(rs) : \E i \in 1 .. Len(rs) : p[i] = j
  BY <1>0 DEF Bijection, Surjection
<1>3. s \in Blocks /\ Len(s) = Len(rs)
      /\ \A i \in 1 .. Len(rs) : s[i] = rs[p[i]] /\ s[i].start \in Nat
  <2>1. s = [i \in 1 .. Len(rs) |-> rs[p[i]]]
    BY <1>0, <1>1
  <2>2. s \in [1 .. Len(rs) -> Block]
    BY <1>0, <1>2, <2>1
  <2>3. s \in Seq(Block) /\ Len(s) = Len(rs)
    BY <1>0, <2>2, IsASeq, LenProperties
  <2> QED BY <2>1, <2>3, BlockFields DEF Blocks
<1>4. Sorted(s)
  <2>1. SUFFICES ASSUME NEW i \in 1 .. Len(s)
                 PROVE  \A j \in 1 .. Len(s) : i <= j => s[i].start <= s[j].start
    BY DEF Sorted
  <2> DEFINE S == {d \in 0 .. Len(s) - i : s[i].start <= s[i + d].start}
             top == Len(s) - i
  <2>2. top \in Nat /\ Len(s) \in Nat /\ i \in Nat
    BY <1>0, <1>3
  <2>3. 0 \in S
    BY <1>3, <2>2
  <2>4. ASSUME NEW d \in 0 .. top - 1, d \in S PROVE d + 1 \in S
    <3>1. i + d \in 1 .. Len(rs) - 1 /\ i + d \in 1 .. Len(rs)
          /\ i + (d + 1) \in 1 .. Len(rs) /\ i + (d + 1) = (i + d) + 1
          /\ d + 1 \in 0 .. Len(s) - i
      BY <1>0, <1>3, <2>2
    <3>2. s[i].start <= s[i + d].start
      BY <2>4
    <3>3. s[i + d].start <= s[i + (d + 1)].start
      BY <1>1, <3>1
    <3>4. s[i].start \in Nat /\ s[i + d].start \in Nat /\ s[i + (d + 1)].start \in Nat
      BY <1>3, <3>1
    <3> QED BY <3>1, <3>2, <3>3, <3>4
  <2>5. \A d \in 0 .. top : d \in S
    <3> HIDE DEF S, top
    <3> QED BY <2>2, <2>3, <2>4, Passes
  <2>6. ASSUME NEW j \in 1 .. Len(s), i <= j PROVE s[i].start <= s[j].start
    <3>1. j - i \in 0 .. top /\ i + (j - i) = j
      BY <2>2, <2>6
    <3> QED BY <2>5, <3>1
  <2> QED BY <2>6
<1>5. ASSUME NEW a PROVE Among(a, s) <=> Among(a, rs)
  <2>1. ASSUME NEW i \in 1 .. Len(s), Inside(a, s[i]) PROVE Among(a, rs)
    BY <1>2, <1>3, <2>1 DEF Among
  <2>2. ASSUME NEW j \in 1 .. Len(rs), Inside(a, rs[j]) PROVE Among(a, s)
    BY <1>2, <1>3, <2>2 DEF Among
  <2> QED BY <2>1, <2>2 DEF Among
<1> QED BY <1>3, <1>4, <1>5

LEMMA MergeExact ==
    ASSUME NEW rs \in Blocks, NEW out \in merge(rs)
    PROVE  /\ out \in Blocks /\ Apart(out)
           /\ \A a \in Nat : Among(a, out) <=> Among(a, rs)
<1>1. PICK s \in sort_unstable(rs) : out = Merged(s)
  BY DEF merge
<1>2. s \in Blocks /\ Sorted(s) /\ \A a : Among(a, s) <=> Among(a, rs)
  BY SortKeeps
<1> QED BY <1>1, <1>2, MergeSorted

-----------------------------------------------------------------------------
(* subtract *)

(* j is where the code's first inner loop stops. *)
LEMMA SkipStops ==
    ASSUME NEW ex \in Blocks, NEW from \in 1 .. Len(ex) + 1, NEW inc \in Block
    PROVE  LET j == SkipTo(ex, from, inc)
           IN  /\ j \in from .. Len(ex) + 1
               /\ \A i \in from .. j - 1 : ex[i].end < inc.start
<1>0. Len(ex) \in Nat /\ inc.start \in Nat
      /\ \A i \in 1 .. Len(ex) : ex[i].end \in Nat
  BY BlockFields, LenProperties DEF Blocks, Block
<1> DEFINE S == {k \in from .. Len(ex) + 1 : k = Len(ex) + 1 \/ ex[k].end >= inc.start}
<1>1. S \in SUBSET Nat /\ S # {}
  <2>1. Len(ex) + 1 \in S
    BY <1>0
  <2> QED BY <1>0, <2>1
<1>2. PICK m \in S : \A y \in S : m <= y
  <2> HIDE DEF S
  <2> QED BY <1>1, Least
<1>3. ASSUME NEW i \in from .. m - 1 PROVE ex[i].end < inc.start
  <2>1. m \in from .. Len(ex) + 1
    OBVIOUS
  <2>2. i \in from .. Len(ex) + 1 /\ i \in 1 .. Len(ex) /\ i < m
    BY <1>0, <2>1
  <2>3. i \notin S
    <3> HIDE DEF S
    <3>1. m \in Nat /\ i \in Nat
      BY <2>2, <1>0, <1>1
    <3> QED BY <1>2, <2>2, <3>1
  <2> QED BY <1>0, <2>2, <2>3
<1>4. m \in from .. Len(ex) + 1 /\ (m = Len(ex) + 1 \/ ex[m].end >= inc.start)
  OBVIOUS
<1> DEFINE Stops(k) == /\ k = Len(ex) + 1 \/ ex[k].end >= inc.start
                       /\ \A i \in from .. k - 1 : ex[i].end < inc.start
<1>5. \E k \in from .. Len(ex) + 1 : Stops(k)
  BY <1>3, <1>4
<1>6. SkipTo(ex, from, inc) = CHOOSE k \in from .. Len(ex) + 1 : Stops(k)
  BY DEF SkipTo
<1>7. PICK j : j = SkipTo(ex, from, inc) /\ j \in from .. Len(ex) + 1 /\ Stops(j)
  <2> HIDE DEF Stops
  <2> QED BY <1>5, <1>6
<1> QED BY <1>7

(* What is left of an include while the excludes are carved out of it *)
Carved == [out : Blocks, cur : Nat, over : BOOLEAN]

LEMMA CarveOneType ==
    ASSUME NEW acc \in Carved, NEW ex \in Block, NEW end \in Nat
    PROVE  CarveOne(acc, ex, end) \in Carved
<1>0. /\ acc.out \in Blocks /\ acc.cur \in Nat /\ acc.over \in BOOLEAN
      /\ ex.start \in Nat /\ ex.end \in Nat
  BY DEF Carved, Block
<1>1. CASE acc.over \/ ex.start > end
  BY <1>1, <1>0 DEF CarveOne, Carved
<1>2. CASE ~(acc.over \/ ex.start > end)
  <2>1. larger(acc.cur, ex.end + 1) \in Nat
    BY <1>0 DEF larger
  <2>2. ex.start > acc.cur => Append(acc.out, Span(acc.cur, ex.start - 1)) \in Blocks
    BY <1>0, SpanBlock, AppendBlock
  <2>3. (larger(acc.cur, ex.end + 1) > end) \in BOOLEAN
    OBVIOUS
  <2> QED BY <1>0, <1>2, <2>1, <2>2, <2>3 DEF CarveOne, Carved
<1> QED BY <1>1, <1>2

LEMMA CarveUnfolds ==
    ASSUME NEW out \in Blocks, NEW inc \in Block, NEW ex \in Blocks,
           NEW j \in 1 .. Len(ex) + 1
    PROVE  \E f :
              /\ Carve(out, inc, ex, j) = f[Len(ex)]
              /\ \A k \in 0 .. Len(ex) : f[k] \in Carved
              /\ \A k \in 0 .. j - 1 :
                    f[k] = [out |-> out, cur |-> inc.start, over |-> FALSE]
              /\ \A k \in j .. Len(ex) : f[k] = CarveOne(f[k - 1], ex[k], inc.end)
<1>w. PICK whole \in Carved : whole = [out |-> out, cur |-> inc.start, over |-> FALSE]
  BY DEF Carved, Block
<1> DEFINE top == Len(ex)
           Step(h, k) == IF k < j THEN whole ELSE CarveOne(h[k - 1], ex[k], inc.end)
           G == [k \in 1 .. top |-> [acc \in Carved |->
                    IF k < j THEN whole ELSE CarveOne(acc, ex[k], inc.end)]]
           g == CHOOSE h : h = [k \in 0 .. top |-> Step(h, k)]
<1>0. top \in Nat /\ j \in 1 .. top + 1 /\ \A k \in 1 .. top : ex[k] \in Block
  BY BlockFields, LenProperties DEF Blocks
<1>1. inc.end \in Nat
  BY DEF Block
<1>2. Carve(out, inc, ex, j) = g[top]
  BY <1>w, Zenon DEF Carve
<1> HIDE DEF top
<1>3. G \in [1 .. top -> [Carved -> Carved]]
  BY <1>0, <1>1, CarveOneType
<1>4. PICK f \in [0 .. top -> Carved] :
         f[0] = whole /\ \A k \in 1 .. top : f[k] = G[k][f[k - 1]]
  <2>1. top \in Nat
    BY <1>0
  <2> HIDE DEF G
  <2>2. \E f \in [0 .. top -> Carved] : Loops(f, whole, G, top)
    BY <1>3, <2>1, LoopExists, Zenon
  <2> QED BY <2>2, Zenon DEF Loops
<1>5. f = [k \in 0 .. top |-> Step(f, k)]
  <2>1. ASSUME NEW k \in 0 .. top PROVE f[k] = Step(f, k)
    <3>1. CASE k # 0
      <4>1. k \in 1 .. top /\ k - 1 \in 0 .. top
        BY <1>0, <3>1
      <4>2. G[k][f[k - 1]] = IF k < j THEN whole ELSE CarveOne(f[k - 1], ex[k], inc.end)
        BY <4>1
      <4> QED BY <1>4, <3>1, <4>1, <4>2
    <3>2. CASE k = 0
      BY <1>4, <3>2
    <3> QED BY <3>1, <3>2
  <2> HIDE DEF Step
  <2> QED BY <2>1
<1>6. g = [k \in 0 .. top |-> Step(g, k)]
  BY <1>5, Zenon
<1> HIDE DEF g
<1>7. /\ \A k \in 0 .. j - 1 : g[k] = whole
      /\ \A k \in j .. top : g[k] = CarveOne(g[k - 1], ex[k], inc.end)
  BY <1>0, <1>6
<1>8. \A k \in 0 .. top : g[k] \in Carved
  <2>1. g[0] \in Carved
    BY <1>1, <1>7
  <2>2. ASSUME NEW k \in 1 .. top, g[k - 1] \in Carved PROVE g[k] \in Carved
    <3>1. CASE k < j
      BY <1>0, <1>1, <1>7, <3>1
    <3>2. CASE k >= j
      <4>1. k \in j .. top /\ ex[k] \in Block
        BY <1>0, <3>2
      <4> QED BY <1>1, <1>7, <2>2, <4>1, CarveOneType
    <3> QED BY <1>0, <3>1, <3>2
  <2> QED BY <1>0, <2>1, <2>2, LoopTyped
<1> QED BY <1>w, <1>2, <1>7, <1>8 DEF top

LEMMA EndsAmong ==
    ASSUME NEW rs \in Blocks, NEW i \in 1 .. Len(rs)
    PROVE  /\ rs[i].start \in Nat /\ rs[i].end \in Nat
           /\ Among(rs[i].start, rs) /\ Among(rs[i].end, rs)
BY BlockFields DEF Among, Inside

(* A range above all others is put at the end. *)
LEMMA AppendApart ==
    ASSUME NEW out \in Blocks, NEW r \in Block, Apart(out),
           \A a \in Nat : Among(a, out) => a < r.start
    PROVE  Apart(Append(out, r))
<1> DEFINE new == Append(out, r)
<1>1. /\ Len(out) \in Nat /\ Len(new) = Len(out) + 1
      /\ \A i \in 1 .. Len(out) : new[i] = out[i]
      /\ new[Len(out) + 1] = r
  BY AppendBlock, LenProperties DEF Blocks
<1> HIDE DEF new
<1>2. ASSUME NEW i \in 1 .. Len(new), NEW k \in 1 .. Len(new), i < k
      PROVE  new[i].end < new[k].start
  <2>1. i \in 1 .. Len(out) /\ (k \in 1 .. Len(out) \/ k = Len(out) + 1)
    BY <1>1, <1>2
  <2>2. out[i].end < r.start
    BY <2>1, EndsAmong
  <2> QED BY <1>1, <1>2, <2>1, <2>2 DEF Apart
<1>3. Apart(new)
  BY <1>2 DEF Apart
<1> QED BY <1>3 DEF new

(* What holds of an include after the first m excludes: the part below cur *)
(* is decided, and none of them reaches into the part that is left.        *)
CarveInv(acc, out, inc, ex, m) ==
    /\ acc \in Carved /\ Apart(acc.out) /\ inc.start <= acc.cur
    /\ \A a \in Nat :
          Among(a, acc.out) <=>
             Among(a, out) \/ (Inside(a, inc) /\ a < acc.cur /\ ~Among(a, ex))
    /\ acc.cur > inc.end \/
       \A i \in 1 .. m : ex[i].end < acc.cur \/ ex[i].start > inc.end
    /\ acc.over => \/ acc.cur > inc.end
                   \/ \A i \in m + 1 .. Len(ex) : ex[i].start > inc.end

LEMMA CarveStep ==
    ASSUME NEW out \in Blocks, NEW inc \in Block, NEW ex \in Blocks, Apart(ex),
           \A a \in Nat : Among(a, out) => a < inc.start,
           NEW m \in 0 .. Len(ex) - 1, NEW acc, CarveInv(acc, out, inc, ex, m)
    PROVE  CarveInv(CarveOne(acc, ex[m + 1], inc.end), out, inc, ex, m + 1)
<1>0. /\ Len(ex) \in Nat /\ m \in Nat /\ m + 1 \in 1 .. Len(ex)
      /\ \A i \in 1 .. Len(ex) : /\ ex[i].start \in Nat /\ ex[i].end \in Nat
                                 /\ ex[i].start <= ex[i].end
  BY BlockFields, LenProperties DEF Blocks
<1>1. PICK e \in Block : e = ex[m + 1] /\ e.start \in Nat /\ e.end \in Nat
                      /\ e.start <= e.end
  BY <1>0, BlockFields
<1>2. PICK a0 \in Nat, b \in Nat : a0 = inc.start /\ b = inc.end /\ a0 <= b
  BY DEF Block
<1>3. /\ acc.out \in Blocks /\ acc.cur \in Nat /\ acc.over \in BOOLEAN
      /\ acc \in Carved /\ Apart(acc.out) /\ a0 <= acc.cur
  BY <1>2 DEF CarveInv, Carved
<1>4. PICK new : new = CarveOne(acc, e, b)
  OBVIOUS
<1>5. new \in Carved
  BY <1>1, <1>2, <1>3, <1>4, CarveOneType
<1>6. \A i \in m + 2 .. Len(ex) : e.end < ex[i].start
  <2>1. \A i \in m + 2 .. Len(ex) : i \in 1 .. Len(ex) /\ m + 1 < i
    BY <1>0
  <2> QED BY <1>0, <1>1, <2>1 DEF Apart
<1>7. \A i \in 1 .. Len(ex) : i \in 1 .. m \/ i = m + 1 \/ i \in m + 2 .. Len(ex)
  BY <1>0
<1>8. CASE acc.over \/ e.start > b
  <2>1. new = [acc EXCEPT !.over = TRUE]
    BY <1>4, <1>8 DEF CarveOne
  <2>2. new.out = acc.out /\ new.cur = acc.cur /\ new.over = TRUE
    BY <1>3, <2>1 DEF Carved
  <2>3. acc.cur > b \/ \A i \in m + 1 .. Len(ex) : ex[i].start > b
    <3>1. CASE acc.over
      BY <1>2, <3>1 DEF CarveInv
    <3>2. CASE e.start > b
      <4>1. \A i \in m + 1 .. Len(ex) : i = m + 1 \/ i \in m + 2 .. Len(ex)
        BY <1>0
      <4>2. ASSUME NEW i \in m + 2 .. Len(ex) PROVE ex[i].start > b
        <5>1. i \in 1 .. Len(ex)
          BY <1>0
        <5>2. ex[i].start \in Nat /\ e.end < ex[i].start
          BY <1>0, <1>6, <5>1
        <5> QED BY <1>1, <1>2, <3>2, <5>2
      <4> QED BY <1>1, <3>2, <4>1, <4>2
    <3> QED BY <1>8, <3>1, <3>2
  <2>4. acc.cur > b \/ \A i \in (m + 1) + 1 .. Len(ex) : ex[i].start > b
    <3>1. \A i \in (m + 1) + 1 .. Len(ex) : i \in m + 1 .. Len(ex)
      BY <1>0
    <3> QED BY <2>3, <3>1
  <2>5. acc.cur > b \/ \A i \in 1 .. m + 1 : ex[i].end < acc.cur \/ ex[i].start > b
    <3>1. \A i \in 1 .. m + 1 : i \in 1 .. m \/ i \in m + 1 .. Len(ex)
      BY <1>0
    <3>2. acc.cur > b \/ \A i \in 1 .. m : ex[i].end < acc.cur \/ ex[i].start > b
      BY <1>2 DEF CarveInv
    <3> QED BY <2>3, <3>1, <3>2
  <2> QED
    BY <1>1, <1>2, <1>3, <1>4, <1>5, <2>2, <2>4, <2>5 DEF CarveInv
<1>9. CASE ~(acc.over \/ e.start > b)
  <2> DEFINE piece == Span(acc.cur, e.start - 1)
  <2>1. PICK cur \in Nat : cur = larger(acc.cur, e.end + 1)
                        /\ cur >= acc.cur /\ cur > e.end
                        /\ (cur = acc.cur \/ cur = e.end + 1)
    BY <1>1, <1>3 DEF larger
  <2>2. /\ new.out = (IF e.start > acc.cur THEN Append(acc.out, piece) ELSE acc.out)
        /\ new.cur = cur /\ new.over = (cur > b)
    BY <1>4, <1>9, <2>1 DEF CarveOne
  <2>3. e.start > acc.cur =>
           /\ piece \in Block
           /\ piece.start = acc.cur /\ piece.end = e.start - 1
    <3>1. e.start > acc.cur => e.start - 1 \in Nat /\ acc.cur <= e.start - 1
      BY <1>1, <1>3
    <3> QED BY <1>3, <3>1, SpanBlock
  <2> HIDE DEF piece
  <2>4. \A a \in Nat : Among(a, acc.out) => a < acc.cur
    BY <1>2, <1>3 DEF CarveInv
  <2>5. Apart(new.out)
    BY <1>3, <2>2, <2>3, <2>4, AppendApart
  <2>6. \A a \in Nat : Among(a, new.out) <=>
           Among(a, acc.out) \/ (acc.cur <= a /\ a < e.start)
    <3>1. CASE e.start > acc.cur
      <4>1. \A a \in Nat : Inside(a, piece) <=> acc.cur <= a /\ a < e.start
        BY <1>1, <1>3, <2>3, <3>1 DEF Inside
      <4>2. \A a \in Nat : Among(a, new.out) <=> Among(a, acc.out) \/ Inside(a, piece)
        BY <1>3, <2>2, <2>3, <3>1, AppendBlock
      <4> QED BY <4>1, <4>2
    <3>2. CASE ~(e.start > acc.cur)
      BY <1>1, <1>3, <2>2, <3>2
    <3> QED BY <3>1, <3>2
  <2>7. ASSUME NEW a \in Nat, acc.cur <= a, a < cur, a <= b
        PROVE  Among(a, ex) <=> ~(a < e.start)
    <3>1. CASE a < e.start
      <4>1. ASSUME NEW i \in 1 .. Len(ex) PROVE ~Inside(a, ex[i])
        <5>1. CASE i \in 1 .. m
          <6>1. acc.cur > b \/ ex[i].end < acc.cur \/ ex[i].start > b
            BY <1>2, <5>1 DEF CarveInv
          <6> QED BY <1>0, <1>3, <2>7, <6>1 DEF Inside
        <5>2. CASE i = m + 1
          BY <1>1, <3>1, <5>2 DEF Inside
        <5>3. CASE i \in m + 2 .. Len(ex)
          BY <1>0, <1>1, <1>6, <3>1, <5>3 DEF Inside
        <5> QED BY <1>7, <5>1, <5>2, <5>3
      <4> QED BY <3>1, <4>1 DEF Among
    <3>2. CASE ~(a < e.start)
      <4>1. Inside(a, e)
        BY <1>1, <1>3, <2>1, <2>7, <3>2 DEF Inside
      <4> QED BY <1>0, <1>1, <3>2, <4>1 DEF Among
    <3> QED BY <3>1, <3>2
  <2>8. ASSUME NEW a \in Nat
        PROVE  Among(a, new.out) <=>
                  Among(a, out) \/ (Inside(a, inc) /\ a < cur /\ ~Among(a, ex))
    <3>1. Among(a, acc.out) <=>
             Among(a, out) \/ (Inside(a, inc) /\ a < acc.cur /\ ~Among(a, ex))
      BY DEF CarveInv
    <3>2. Inside(a, inc) <=> a0 <= a /\ a <= b
      BY <1>2 DEF Inside
    <3>3. (acc.cur <= a /\ a < e.start) <=>
             (a0 <= a /\ a <= b /\ acc.cur <= a /\ a < cur /\ ~Among(a, ex))
      BY <1>1, <1>2, <1>3, <1>9, <2>1, <2>7
    <3> QED BY <1>3, <2>1, <2>6, <3>1, <3>2, <3>3
  <2>9. cur > b \/ \A i \in 1 .. m + 1 : ex[i].end < cur \/ ex[i].start > b
    <3>1. acc.cur > b \/ \A i \in 1 .. m : ex[i].end < acc.cur \/ ex[i].start > b
      BY <1>2 DEF CarveInv
    <3>2. CASE acc.cur > b
      BY <1>2, <1>3, <2>1, <3>2
    <3>3. ASSUME \A i \in 1 .. m : ex[i].end < acc.cur \/ ex[i].start > b,
                 NEW i \in 1 .. m + 1
          PROVE  ex[i].end < cur \/ ex[i].start > b
      <4>1. CASE i = m + 1
        BY <1>1, <2>1, <4>1
      <4>2. CASE i # m + 1
        <5>1. i \in 1 .. m /\ i \in 1 .. Len(ex)
          BY <1>0, <4>2
        <5>2. ex[i].end \in Nat /\ (ex[i].end < acc.cur \/ ex[i].start > b)
          BY <1>0, <3>3, <5>1
        <5> QED BY <1>3, <2>1, <5>2
      <4> QED BY <4>1, <4>2
    <3> QED BY <3>1, <3>2, <3>3
  <2>10. a0 <= cur
    BY <1>2, <1>3, <2>1
  <2> QED
    BY <1>1, <1>2, <1>4, <1>5, <2>2, <2>5, <2>8, <2>9, <2>10 DEF CarveInv
<1> QED BY <1>8, <1>9

(* The whole loop over the excludes, and what is left after it *)
LEMMA CarveExact ==
    ASSUME NEW out \in Blocks, NEW inc \in Block, NEW ex \in Blocks,
           Apart(out), Apart(ex),
           \A a \in Nat : Among(a, out) => a < inc.start,
           NEW j \in 1 .. Len(ex) + 1,
           \A i \in 1 .. j - 1 : ex[i].end < inc.start
    PROVE  CarveInv(Carve(out, inc, ex, j), out, inc, ex, Len(ex))
<1>0. Len(ex) \in Nat /\ j - 1 \in 0 .. Len(ex) /\ j \in Nat
  BY LenProperties DEF Blocks
<1>1. PICK f :
         /\ Carve(out, inc, ex, j) = f[Len(ex)]
         /\ \A k \in 0 .. Len(ex) : f[k] \in Carved
         /\ \A k \in 0 .. j - 1 :
               f[k] = [out |-> out, cur |-> inc.start, over |-> FALSE]
         /\ \A k \in j .. Len(ex) : f[k] = CarveOne(f[k - 1], ex[k], inc.end)
  BY CarveUnfolds
<1> DEFINE top == Len(ex) - (j - 1)
           S == {d \in 0 .. top : CarveInv(f[(j - 1) + d], out, inc, ex, (j - 1) + d)}
<1>2. top \in Nat /\ 0 \in 0 .. top /\ (j - 1) + 0 = j - 1 /\ (j - 1) + top = Len(ex)
  BY <1>0
<1>3. 0 \in S
  <2>1. PICK acc : acc = f[j - 1]
    OBVIOUS
  <2>2. /\ acc \in Carved /\ acc.out = out /\ acc.cur = inc.start /\ acc.over = FALSE
        /\ inc.start \in Nat
    BY <1>0, <1>1, <2>1 DEF Block
  <2>3. \A a \in Nat : Inside(a, inc) => ~(a < inc.start)
    BY <2>2 DEF Inside
  <2>4. CarveInv(acc, out, inc, ex, j - 1)
    BY <2>2, <2>3 DEF CarveInv
  <2> QED BY <1>2, <2>1, <2>4
<1>4. ASSUME NEW d \in 0 .. top - 1, d \in S PROVE d + 1 \in S
  <2>1. PICK m \in 0 .. Len(ex) - 1 :
           /\ m = (j - 1) + d /\ m + 1 = (j - 1) + (d + 1)
           /\ m + 1 \in j .. Len(ex) /\ (m + 1) - 1 = m /\ d + 1 \in 0 .. top
    BY <1>0
  <2>2. CarveInv(f[m], out, inc, ex, m)
    BY <1>4, <2>1
  <2>3. f[m + 1] = CarveOne(f[m], ex[m + 1], inc.end)
    BY <1>1, <2>1
  <2>4. CarveInv(f[m + 1], out, inc, ex, m + 1)
    BY <2>2, <2>3, CarveStep
  <2> QED BY <2>1, <2>4
<1>5. \A d \in 0 .. top : d \in S
  <2> HIDE DEF S, top
  <2> QED BY <1>2, <1>3, <1>4, Passes
<1>6. top \in S
  BY <1>2, <1>5
<1> QED BY <1>1, <1>2, <1>6

(* The state of the loop over the includes *)
Subtracted(ex) == [j : 1 .. Len(ex) + 1, out : Blocks]

(* What holds after the first k includes *)
SubtractInv(acc, inc, ex, k) ==
    /\ acc \in Subtracted(ex) /\ Apart(acc.out)
    /\ \A a \in Nat : Among(a, acc.out) <=>
          (\E i \in 1 .. k : Inside(a, inc[i])) /\ ~Among(a, ex)
    /\ \A m \in k + 1 .. Len(inc) :
          \A i \in 1 .. acc.j - 1 : ex[i].end < inc[m].start

LEMMA SubtractStep ==
    ASSUME NEW inc \in Blocks, NEW ex \in Blocks, Apart(inc), Apart(ex),
           NEW k \in 0 .. Len(inc) - 1, NEW acc, SubtractInv(acc, inc, ex, k)
    PROVE  SubtractInv(SubtractOne(acc, inc[k + 1], ex), inc, ex, k + 1)
<1>0. /\ Len(ex) \in Nat /\ Len(inc) \in Nat /\ k \in Nat /\ k + 1 \in 1 .. Len(inc)
      /\ k + 1 \in k + 1 .. Len(inc)
      /\ \A i \in 1 .. Len(inc) : /\ inc[i].start \in Nat /\ inc[i].end \in Nat
                                  /\ inc[i].start <= inc[i].end
      /\ \A i \in 1 .. Len(ex) : ex[i].end \in Nat /\ ex[i].start \in Nat
  BY BlockFields, LenProperties DEF Blocks
<1>1. PICK r \in Block : r = inc[k + 1] /\ r.start \in Nat /\ r.end \in Nat
                      /\ r.start <= r.end
  BY <1>0, BlockFields
<1>2. /\ acc.out \in Blocks /\ Apart(acc.out)
      /\ acc.j \in 1 .. Len(ex) + 1
      /\ \A a \in Nat : Among(a, acc.out) <=>
            (\E i \in 1 .. k : Inside(a, inc[i])) /\ ~Among(a, ex)
  BY DEF SubtractInv, Subtracted
<1>3. PICK j \in 1 .. Len(ex) + 1 :
         /\ j = SkipTo(ex, acc.j, r) /\ acc.j <= j
         /\ \A i \in acc.j .. j - 1 : ex[i].end < r.start
  <2>1. SkipTo(ex, acc.j, r) \in acc.j .. Len(ex) + 1
        /\ \A i \in acc.j .. SkipTo(ex, acc.j, r) - 1 : ex[i].end < r.start
    BY <1>2, SkipStops
  <2>2. SkipTo(ex, acc.j, r) \in 1 .. Len(ex) + 1 /\ acc.j <= SkipTo(ex, acc.j, r)
    BY <1>0, <1>2, <2>1
  <2> QED BY <2>1, <2>2
<1>4. ASSUME NEW i \in 1 .. j - 1 PROVE ex[i].end < r.start
  <2>1. i \in 1 .. acc.j - 1 \/ i \in acc.j .. j - 1
    BY <1>0, <1>2, <1>3
  <2>2. i \in 1 .. acc.j - 1 => ex[i].end < r.start
    BY <1>0, <1>1 DEF SubtractInv
  <2> QED BY <1>3, <2>1, <2>2
<1>5. \A a \in Nat : Among(a, acc.out) => a < r.start
  <2>1. SUFFICES ASSUME NEW a \in Nat, NEW i \in 1 .. k, Inside(a, inc[i])
                 PROVE  a < r.start
    BY <1>2
  <2>2. i \in 1 .. Len(inc) /\ i < k + 1
    BY <1>0
  <2>3. inc[i].end < r.start
    BY <1>0, <1>1, <2>2 DEF Apart
  <2>4. inc[i].end \in Nat /\ a <= inc[i].end
    BY <1>0, <2>1, <2>2 DEF Inside
  <2> QED BY <1>1, <2>3, <2>4
<1>6. PICK c : c = Carve(acc.out, r, ex, j) /\ CarveInv(c, acc.out, r, ex, Len(ex))
  BY <1>2, <1>4, <1>5, CarveExact
<1>7. /\ c.out \in Blocks /\ Apart(c.out) /\ c.cur \in Nat /\ r.start <= c.cur
      /\ \A a \in Nat :
            Among(a, c.out) <=>
               Among(a, acc.out) \/ (Inside(a, r) /\ a < c.cur /\ ~Among(a, ex))
      /\ c.cur > r.end \/
         \A i \in 1 .. Len(ex) : ex[i].end < c.cur \/ ex[i].start > r.end
  BY <1>6 DEF CarveInv, Carved
<1> DEFINE rest == Span(c.cur, r.end)
           out == IF c.cur <= r.end THEN Append(c.out, rest) ELSE c.out
<1>8. SubtractOne(acc, r, ex) = [j |-> j, out |-> out]
  BY <1>3, <1>6 DEF SubtractOne
<1>9. c.cur <= r.end => rest \in Block /\ rest.start = c.cur /\ rest.end = r.end
  BY <1>1, <1>7, SpanBlock
<1> HIDE DEF rest
<1>10. \A a \in Nat : Among(a, c.out) => a < c.cur
  BY <1>1, <1>5, <1>7
<1>11. out \in Blocks /\ Apart(out)
  BY <1>7, <1>9, <1>10, AppendBlock, AppendApart
<1>12. ASSUME NEW a \in Nat
       PROVE  Among(a, out) <=> Among(a, acc.out) \/ (Inside(a, r) /\ ~Among(a, ex))
  <2>1. Among(a, c.out) <=>
           Among(a, acc.out) \/ (Inside(a, r) /\ a < c.cur /\ ~Among(a, ex))
    BY <1>7
  <2>2. Inside(a, r) <=> r.start <= a /\ a <= r.end
    BY DEF Inside
  <2>3. CASE c.cur <= r.end
    <3>1. Among(a, out) <=> Among(a, c.out) \/ (c.cur <= a /\ a <= r.end)
      BY <1>7, <1>9, <2>3, AppendBlock DEF Inside
    <3>2. ASSUME c.cur <= a, a <= r.end PROVE ~Among(a, ex)
      <4>1. ASSUME NEW i \in 1 .. Len(ex) PROVE ~Inside(a, ex[i])
        <5>1. ex[i].end < c.cur \/ ex[i].start > r.end
          BY <1>1, <1>7, <2>3
        <5>2. PICK from \in Nat, to \in Nat : from = ex[i].start /\ to = ex[i].end
          BY <1>0
        <5>3. PICK cur \in Nat, last \in Nat : cur = c.cur /\ last = r.end
          BY <1>1, <1>7
        <5>4. cur <= a /\ a <= last /\ (to < cur \/ from > last)
          BY <3>2, <5>1, <5>2, <5>3, Zenon
        <5>5. ~(from <= a /\ a <= to)
          BY <5>4
        <5> QED BY <5>2, <5>5, Zenon DEF Inside
      <4> QED BY <4>1 DEF Among
    <3> QED BY <1>1, <1>7, <2>1, <2>2, <3>1, <3>2
  <2>4. CASE ~(c.cur <= r.end)
    BY <1>1, <1>7, <2>1, <2>2, <2>4
  <2> QED BY <2>3, <2>4
<1> HIDE DEF out
<1>13. ASSUME NEW a \in Nat
       PROVE  Among(a, out) <=>
                 (\E i \in 1 .. k + 1 : Inside(a, inc[i])) /\ ~Among(a, ex)
  <2>1. \A i \in 1 .. k + 1 : i \in 1 .. k \/ i = k + 1
    BY <1>0
  <2>2. \A i \in 1 .. k : i \in 1 .. k + 1
    BY <1>0
  <2>3. k + 1 \in 1 .. k + 1
    BY <1>0
  <2> QED BY <1>1, <1>2, <1>12, <2>1, <2>2, <2>3
<1>14. ASSUME NEW m \in (k + 1) + 1 .. Len(inc), NEW i \in 1 .. j - 1
       PROVE  ex[i].end < inc[m].start
  <2>1. m \in 1 .. Len(inc) /\ k + 1 < m /\ i \in 1 .. Len(ex)
    BY <1>0, <1>3
  <2>2. r.end < inc[m].start
    BY <1>0, <1>1, <2>1 DEF Apart
  <2> QED BY <1>0, <1>1, <1>4, <2>1, <2>2
<1>15. SubtractInv([j |-> j, out |-> out], inc, ex, k + 1)
  BY <1>3, <1>11, <1>13, <1>14 DEF SubtractInv, Subtracted
<1> QED BY <1>1, <1>8, <1>15

LEMMA CarveType ==
    ASSUME NEW out \in Blocks, NEW inc \in Block, NEW ex \in Blocks,
           NEW j \in 1 .. Len(ex) + 1
    PROVE  Carve(out, inc, ex, j) \in Carved
<1>1. PICK f :
         /\ Carve(out, inc, ex, j) = f[Len(ex)]
         /\ \A k \in 0 .. Len(ex) : f[k] \in Carved
         /\ \A k \in 0 .. j - 1 :
               f[k] = [out |-> out, cur |-> inc.start, over |-> FALSE]
         /\ \A k \in j .. Len(ex) : f[k] = CarveOne(f[k - 1], ex[k], inc.end)
  BY CarveUnfolds
<1>2. Len(ex) \in 0 .. Len(ex)
  BY LenProperties DEF Blocks
<1> QED BY <1>1, <1>2

LEMMA SubtractOneType ==
    ASSUME NEW ex \in Blocks, NEW acc \in Subtracted(ex), NEW r \in Block
    PROVE  SubtractOne(acc, r, ex) \in Subtracted(ex)
<1>0. /\ acc.j \in 1 .. Len(ex) + 1 /\ acc.out \in Blocks
      /\ r.end \in Nat /\ Len(ex) \in Nat
  BY LenProperties DEF Subtracted, Blocks, Block
<1>1. PICK j \in 1 .. Len(ex) + 1 : j = SkipTo(ex, acc.j, r)
  <2>1. SkipTo(ex, acc.j, r) \in acc.j .. Len(ex) + 1
    BY <1>0, SkipStops
  <2> QED BY <1>0, <2>1
<1>2. PICK c \in Carved : c = Carve(acc.out, r, ex, j)
  BY <1>0, CarveType
<1>3. c.out \in Blocks /\ c.cur \in Nat
  BY DEF Carved
<1>4. c.cur <= r.end => Append(c.out, Span(c.cur, r.end)) \in Blocks
  BY <1>0, <1>3, SpanBlock, AppendBlock
<1> QED BY <1>1, <1>2, <1>3, <1>4 DEF SubtractOne, Subtracted

LEMMA SubtractUnfolds ==
    ASSUME NEW inc \in Blocks, NEW ex \in Blocks
    PROVE  \E f :
              /\ subtract(inc, ex) = f[Len(inc)].out
              /\ f[0] = [j |-> 1, out |-> <<>>]
              /\ \A k \in 0 .. Len(inc) : f[k] \in Subtracted(ex)
              /\ \A k \in 1 .. Len(inc) : f[k] = SubtractOne(f[k - 1], inc[k], ex)
<1>0. Len(inc) \in Nat /\ Len(ex) \in Nat
      /\ \A k \in 1 .. Len(inc) : inc[k] \in Block
  BY BlockFields, LenProperties DEF Blocks
<1>1. PICK start \in Subtracted(ex) : start = [j |-> 1, out |-> <<>>]
  <2>1. <<>> \in Blocks /\ 1 \in 1 .. Len(ex) + 1
    BY <1>0 DEF Blocks
  <2> QED BY <2>1 DEF Subtracted
<1> DEFINE top == Len(inc)
           Step(h, k) == IF k = 0 THEN start ELSE SubtractOne(h[k - 1], inc[k], ex)
           G == [k \in 1 .. top |->
                   [acc \in Subtracted(ex) |-> SubtractOne(acc, inc[k], ex)]]
           g == CHOOSE h : h = [k \in 0 .. top |-> Step(h, k)]
<1>2. subtract(inc, ex) = g[top].out
  BY <1>1, Zenon DEF subtract
<1> HIDE DEF top
<1>a. top \in Nat /\ \A k \in 1 .. top : inc[k] \in Block
  BY <1>0 DEF top
<1>3. G \in [1 .. top -> [Subtracted(ex) -> Subtracted(ex)]]
  BY <1>a, SubtractOneType
<1>4. PICK f \in [0 .. top -> Subtracted(ex)] :
         f[0] = start /\ \A k \in 1 .. top : f[k] = G[k][f[k - 1]]
  <2>1. top \in Nat
    BY <1>a
  <2> HIDE DEF G
  <2>2. \E f \in [0 .. top -> Subtracted(ex)] : Loops(f, start, G, top)
    BY <1>3, <2>1, LoopExists, Zenon
  <2> QED BY <2>2, Zenon DEF Loops
<1>5. f = [k \in 0 .. top |-> Step(f, k)]
  <2>1. ASSUME NEW k \in 0 .. top PROVE f[k] = Step(f, k)
    <3>1. CASE k # 0
      <4>1. k \in 1 .. top /\ k - 1 \in 0 .. top
        BY <1>a, <3>1
      <4>2. G[k][f[k - 1]] = SubtractOne(f[k - 1], inc[k], ex)
        BY <4>1
      <4> QED BY <1>4, <3>1, <4>1, <4>2
    <3> QED BY <1>4, <3>1
  <2> HIDE DEF Step
  <2> QED BY <2>1
<1>6. g = [k \in 0 .. top |-> Step(g, k)]
  BY <1>5, Zenon
<1> HIDE DEF g
<1>7. g[0] = start /\ \A k \in 1 .. top : g[k] = SubtractOne(g[k - 1], inc[k], ex)
  BY <1>a, <1>6
<1>8. \A k \in 0 .. top : g[k] \in Subtracted(ex)
  BY <1>a, <1>7, SubtractOneType, LoopTyped
<1> QED BY <1>1, <1>2, <1>7, <1>8 DEF top

LEMMA SubtractExact ==
    ASSUME NEW inc \in Blocks, NEW ex \in Blocks, Apart(inc), Apart(ex)
    PROVE  /\ subtract(inc, ex) \in Blocks /\ Apart(subtract(inc, ex))
           /\ \A a \in Nat : Among(a, subtract(inc, ex)) <=>
                                Among(a, inc) /\ ~Among(a, ex)
<1>0. Len(inc) \in Nat /\ Len(ex) \in Nat
  BY LenProperties DEF Blocks
<1>1. PICK f :
         /\ subtract(inc, ex) = f[Len(inc)].out
         /\ f[0] = [j |-> 1, out |-> <<>>]
         /\ \A k \in 0 .. Len(inc) : f[k] \in Subtracted(ex)
         /\ \A k \in 1 .. Len(inc) : f[k] = SubtractOne(f[k - 1], inc[k], ex)
  BY SubtractUnfolds
<1> DEFINE S == {k \in 0 .. Len(inc) : SubtractInv(f[k], inc, ex, k)}
<1>2. 0 \in S
  <2>1. PICK acc : acc = f[0]
    OBVIOUS
  <2>2. acc \in Subtracted(ex) /\ acc.j = 1 /\ acc.out = <<>> /\ Len(acc.out) = 0
    BY <1>0, <1>1, <2>1
  <2>3. SubtractInv(acc, inc, ex, 0)
    BY <2>2 DEF SubtractInv, Apart, Among
  <2> QED BY <1>0, <2>1, <2>3
<1>3. ASSUME NEW k \in 0 .. Len(inc) - 1, k \in S PROVE k + 1 \in S
  <2>1. k + 1 \in 1 .. Len(inc) /\ (k + 1) - 1 = k /\ k + 1 \in 0 .. Len(inc)
    BY <1>0
  <2>2. SubtractInv(f[k], inc, ex, k) /\ f[k + 1] = SubtractOne(f[k], inc[k + 1], ex)
    BY <1>1, <1>3, <2>1
  <2>3. SubtractInv(f[k + 1], inc, ex, k + 1)
    BY <2>2, SubtractStep
  <2> QED BY <2>1, <2>3
<1>4. SubtractInv(f[Len(inc)], inc, ex, Len(inc))
  <2>1. \A k \in 0 .. Len(inc) : k \in S
    <3> HIDE DEF S
    <3> QED BY <1>0, <1>2, <1>3, Passes
  <2> QED BY <1>0, <2>1
<1> QED BY <1>1, <1>4 DEF SubtractInv, Subtracted, Among

-----------------------------------------------------------------------------
(* Lists put together from lists *)

Has(s, v) == \E i \in 1 .. Len(s) : s[i] = v

LEMMA ConcatHas ==
    ASSUME NEW S, NEW s \in Seq(S), NEW t \in Seq(S), NEW v
    PROVE  Has(s \o t, v) <=> Has(s, v) \/ Has(t, v)
<1> DEFINE st == s \o t
<1>1. /\ Len(s) \in Nat /\ Len(t) \in Nat /\ Len(st) = Len(s) + Len(t)
      /\ \A i \in 1 .. Len(s) + Len(t) :
            st[i] = IF i <= Len(s) THEN s[i] ELSE t[i - Len(s)]
  BY ConcatProperties, LenProperties
<1> HIDE DEF st
<1>2. ASSUME NEW i \in 1 .. Len(st), st[i] = v PROVE Has(s, v) \/ Has(t, v)
  <2>1. i \in 1 .. Len(s) \/ i - Len(s) \in 1 .. Len(t)
    BY <1>1
  <2>2. st[i] = IF i <= Len(s) THEN s[i] ELSE t[i - Len(s)]
    BY <1>1
  <2>3. i <= Len(s) => i \in 1 .. Len(s)
    BY <1>1
  <2>4. ~(i <= Len(s)) => i - Len(s) \in 1 .. Len(t)
    BY <1>1
  <2> QED BY <1>2, <2>2, <2>3, <2>4 DEF Has
<1>3. ASSUME NEW i \in 1 .. Len(s), s[i] = v PROVE Has(st, v)
  <2>1. i \in 1 .. Len(st) /\ st[i] = s[i]
    BY <1>1
  <2> QED BY <1>3, <2>1 DEF Has
<1>4. ASSUME NEW i \in 1 .. Len(t), t[i] = v PROVE Has(st, v)
  <2>1. /\ Len(s) + i \in 1 .. Len(st) /\ ~(Len(s) + i <= Len(s))
        /\ (Len(s) + i) - Len(s) = i
    BY <1>1
  <2>2. st[Len(s) + i] = t[i]
    BY <1>1, <2>1
  <2> QED BY <1>4, <2>1, <2>2 DEF Has
<1>5. Has(st, v) <=> Has(s, v) \/ Has(t, v)
  BY <1>2, <1>3, <1>4 DEF Has
<1> QED BY <1>5 DEF st

LEMMA FlattenUnfolds ==
    ASSUME NEW S, NEW ss \in Seq(Seq(S))
    PROVE  \E f : /\ FlattenSeq(ss) = f[Len(ss)] /\ f[0] = <<>>
                  /\ \A k \in 0 .. Len(ss) : f[k] \in Seq(S)
                  /\ \A k \in 1 .. Len(ss) : f[k] = f[k - 1] \o ss[k]
<1>0. Len(ss) \in Nat /\ <<>> \in Seq(S)
      /\ \A k \in 1 .. Len(ss) : ss[k] \in Seq(S)
  BY ElementOfSeq, LenProperties, EmptySeq
<1>1. CASE Len(ss) = 0
  <2> DEFINE f == [k \in {0} |-> <<>>]
  <2>1. ss = <<>>
    BY <1>1, EmptySeq
  <2>2. FlattenSeq(ss) = <<>>
    BY <1>1, <2>1 DEF FlattenSeq
  <2>3. f[0] = <<>>
    OBVIOUS
  <2>4. (\A k \in 0 .. Len(ss) : k = 0) /\ ~(\E k \in 1 .. Len(ss) : TRUE)
    BY <1>1
  <2> HIDE DEF f
  <2> QED BY <1>0, <1>1, <2>2, <2>3, <2>4
<1>2. CASE Len(ss) # 0
  <2> DEFINE top == Len(ss)
             Step(h, k) == IF k = 1 THEN ss[k] ELSE h[k - 1] \o ss[k]
             G == [k \in 1 .. top |-> [s \in Seq(S) |-> s \o ss[k]]]
             g == CHOOSE h : h = [k \in 1 .. top |-> Step(h, k)]
  <2>1. FlattenSeq(ss) = g[top]
    BY <1>2, Zenon DEF FlattenSeq
  <2> HIDE DEF top
  <2>2. top \in Nat /\ top >= 1 /\ \A k \in 1 .. top : ss[k] \in Seq(S)
    BY <1>0, <1>2 DEF top
  <2>3. G \in [1 .. top -> [Seq(S) -> Seq(S)]]
    BY <2>2, ConcatProperties
  <2>4. PICK f \in [0 .. top -> Seq(S)] :
           f[0] = <<>> /\ \A k \in 1 .. top : f[k] = G[k][f[k - 1]]
    <3>1. top \in Nat
      BY <2>2
    <3> HIDE DEF G
    <3>2. <<>> \in Seq(S)
      BY <1>0
    <3>3. \E f \in [0 .. top -> Seq(S)] : Loops(f, <<>>, G, top)
      BY <2>3, <3>1, <3>2, LoopExists, Zenon
    <3> QED BY <3>3, Zenon DEF Loops
  <2>5. ASSUME NEW k \in 1 .. top PROVE f[k] = f[k - 1] \o ss[k]
    <3>1. k - 1 \in 0 .. top
      BY <2>2
    <3> QED BY <2>4, <3>1
  <2> DEFINE h == [k \in 1 .. top |-> f[k]]
  <2>6. h = [k \in 1 .. top |-> Step(h, k)]
    <3>1. ASSUME NEW k \in 1 .. top PROVE f[k] = Step(h, k)
      <4>1. CASE k = 1
        <5>1. f[k - 1] = <<>> /\ ss[k] \in Seq(S)
          BY <2>2, <2>4, <4>1
        <5> QED BY <2>5, <4>1, <5>1, ConcatEmptySeq
      <4>2. CASE k # 1
        <5>1. k - 1 \in 1 .. top
          BY <2>2, <4>2
        <5> QED BY <2>5, <4>2, <5>1
      <4> QED BY <4>1, <4>2
    <3> HIDE DEF Step
    <3> QED BY <3>1
  <2>7. g = [k \in 1 .. top |-> Step(g, k)]
    <3> HIDE DEF h
    <3> QED BY <2>6, Zenon
  <2> HIDE DEF g
  <2> DEFINE p == [k \in 0 .. top |-> IF k = 0 THEN <<>> ELSE g[k]]
  <2>8. p[0] = <<>> /\ p[top] = g[top]
    BY <2>2
  <2>9. ASSUME NEW k \in 1 .. top PROVE p[k] = p[k - 1] \o ss[k]
    <3>1. k \in 0 .. top /\ k - 1 \in 0 .. top /\ k # 0
      BY <2>2
    <3>2. CASE k = 1
      <4>1. p[k] = ss[k] /\ p[k - 1] = <<>> /\ ss[k] \in Seq(S)
        BY <2>2, <2>7, <3>1, <3>2
      <4> QED BY <4>1, ConcatEmptySeq
    <3>3. CASE k # 1
      <4>1. p[k] = g[k] /\ p[k - 1] = g[k - 1]
        BY <2>2, <3>1, <3>3
      <4>2. g[k] = Step(g, k)
        <5> HIDE DEF Step
        <5> QED BY <2>7
      <4> QED BY <3>3, <4>1, <4>2
    <3> QED BY <3>2, <3>3
  <2> HIDE DEF p
  <2>10. \A k \in 0 .. top : p[k] \in Seq(S)
    <3>1. p[0] \in Seq(S)
      BY <1>0, <2>8
    <3>2. ASSUME NEW k \in 1 .. top, p[k - 1] \in Seq(S) PROVE p[k] \in Seq(S)
      BY <2>2, <2>9, <3>2, ConcatProperties
    <3> QED BY <2>2, <3>1, <3>2, LoopTyped
  <2> QED BY <2>1, <2>8, <2>9, <2>10 DEF top
<1> QED BY <1>1, <1>2

LEMMA FlattenHas ==
    ASSUME NEW S, NEW ss \in Seq(Seq(S))
    PROVE  /\ FlattenSeq(ss) \in Seq(S)
           /\ \A v : Has(FlattenSeq(ss), v) <=> \E k \in 1 .. Len(ss) : Has(ss[k], v)
<1>0. Len(ss) \in Nat /\ \A k \in 1 .. Len(ss) : ss[k] \in Seq(S)
  BY ElementOfSeq, LenProperties
<1>1. PICK f : /\ FlattenSeq(ss) = f[Len(ss)] /\ f[0] = <<>>
               /\ \A k \in 0 .. Len(ss) : f[k] \in Seq(S)
               /\ \A k \in 1 .. Len(ss) : f[k] = f[k - 1] \o ss[k]
  BY FlattenUnfolds
<1> DEFINE Good(m) == \A v : Has(f[m], v) <=> \E k \in 1 .. m : Has(ss[k], v)
           T == {m \in 0 .. Len(ss) : Good(m)}
<1>2. 0 \in T
  <2>1. Len(f[0]) = 0
    BY <1>1
  <2>2. Good(0)
    BY <2>1 DEF Has
  <2> QED BY <1>0, <2>2
<1>3. ASSUME NEW m \in 0 .. Len(ss) - 1, m \in T PROVE m + 1 \in T
  <2>1. /\ m + 1 \in 1 .. Len(ss) /\ (m + 1) - 1 = m /\ m + 1 \in 0 .. Len(ss)
        /\ m \in 0 .. Len(ss) /\ m + 1 \in 1 .. m + 1
        /\ \A k \in 1 .. m + 1 : k \in 1 .. m \/ k = m + 1
        /\ \A k \in 1 .. m : k \in 1 .. m + 1
    BY <1>0
  <2>2. f[m + 1] = f[m] \o ss[m + 1] /\ f[m] \in Seq(S) /\ ss[m + 1] \in Seq(S)
    BY <1>0, <1>1, <2>1
  <2>3. ASSUME NEW v PROVE Has(f[m + 1], v) <=> \E k \in 1 .. m + 1 : Has(ss[k], v)
    <3>1. Has(f[m + 1], v) <=> Has(f[m], v) \/ Has(ss[m + 1], v)
      BY <2>2, ConcatHas
    <3>2. Has(f[m], v) <=> \E k \in 1 .. m : Has(ss[k], v)
      BY <1>3
    <3> QED BY <2>1, <3>1, <3>2
  <2> QED BY <2>1, <2>3
<1>4. Good(Len(ss))
  <2>1. \A m \in 0 .. Len(ss) : m \in T
    <3> HIDE DEF T
    <3> QED BY <1>0, <1>2, <1>3, Passes
  <2>2. Len(ss) \in T
    <3> HIDE DEF T
    <3> QED BY <1>0, <2>1
  <2> QED BY <2>2
<1>5. FlattenSeq(ss) \in Seq(S)
  BY <1>0, <1>1
<1> QED BY <1>1, <1>4, <1>5

-----------------------------------------------------------------------------
(* Target files and the address policy *)

LEMMA SizePositive ==
    ASSUME NEW b \in 0 .. Width
    PROVE  2 ^ (Width - b) \in Nat \ {0}
<1>1. Width - b \in 0 .. Width
  BY AddressAssumption
<1> QED BY <1>1, AddressAssumption

LEMMA EntryBlock ==
    ASSUME NEW en \in Entry
    PROVE  parse_entry(en) \in Block
<1>1. en.ip \in Nat /\ prefix_of(en) \in 0 .. Width
  BY AddressAssumption DEF Entry, Address, Addresses, prefix_of
<1>2. PICK size \in Nat \ {0} : size = 2 ^ (Width - prefix_of(en))
  BY <1>1, SizePositive
<1>3. PICK ip \in Nat : ip = en.ip
  BY <1>1
<1>4. ip - (ip % size) \in Nat
  OBVIOUS
<1>5. PICK start \in Nat : start = ip - (ip % size)
  BY <1>4
<1>6. Span(start, start + size - 1) \in Block
  <2>1. start + size - 1 \in Nat /\ start <= start + size - 1
    OBVIOUS
  <2> QED BY <2>1, SpanBlock
<1> QED BY <1>2, <1>3, <1>5, <1>6 DEF parse_entry

(* A line is turned into the addresses it stands for. *)
LEMMA EntryTargets ==
    ASSUME NEW en \in Entry
    PROVE  /\ parse_entry_targets(en) \in Blocks
           /\ Meant(en) \subseteq Nat
           /\ \A a \in Nat : Among(a, parse_entry_targets(en)) <=> a \in Meant(en)
<1>1. PICK r \in Block : r = parse_entry(en) /\ r.start \in Nat /\ r.end \in Nat
                      /\ r.start <= r.end
  BY EntryBlock DEF Block
<1>2. en.prefix \in 0 .. Width - 2 <=> en.prefix # NoPrefix /\ en.prefix <= Width - 2
  <2>1. en.prefix \in 0 .. Width \/ en.prefix = NoPrefix
    BY DEF Entry
  <2>2. NoPrefix \notin 0 .. Width
    BY EntryAssumption
  <2>3. en.prefix \in 0 .. Width - 2 => en.prefix \in 0 .. Width /\ en.prefix <= Width - 2
    BY AddressAssumption
  <2>4. en.prefix \in 0 .. Width /\ en.prefix <= Width - 2 => en.prefix \in 0 .. Width - 2
    BY AddressAssumption
  <2> QED BY <2>1, <2>2, <2>3, <2>4
<1>3. ASSUME NEW w \in Block
      PROVE  <<w>> \in Blocks /\ \A a : Among(a, <<w>>) <=> Inside(a, w)
  <2>1. <<w>> \in Blocks /\ Len(<<w>>) = 1 /\ <<w>>[1] = w
    BY DEF Blocks
  <2> QED BY <2>1 DEF Among
<1>4. CASE en.prefix \in 0 .. Width - 2
  <2>1. parse_entry_targets(en) =
           (IF r.start < r.end THEN <<Span(r.start, r.end - 1)>> ELSE <<>>)
    BY <1>1, <1>2, <1>4 DEF parse_entry_targets, trim_last_address
  <2>2. Meant(en) = (r.start .. r.end) \ {r.end}
    BY <1>1, <1>4 DEF Meant, Covers
  <2>3. CASE r.start < r.end
    <3>1. PICK w \in Block : w = Span(r.start, r.end - 1)
                          /\ w.start = r.start /\ w.end = r.end - 1
      BY <1>1, <2>3, SpanBlock
    <3>2. \A a \in Nat : Inside(a, w) <=> a \in (r.start .. r.end) \ {r.end}
      BY <1>1, <3>1 DEF Inside
    <3> QED BY <1>1, <1>3, <2>1, <2>2, <2>3, <3>1, <3>2
  <2>4. CASE ~(r.start < r.end)
    <3>1. parse_entry_targets(en) = <<>> /\ <<>> \in Blocks /\ Len(<<>>) = 0
      BY <2>1, <2>4 DEF Blocks
    <3>2. Meant(en) = {}
      BY <1>1, <2>2, <2>4
    <3> QED BY <3>1, <3>2 DEF Among
  <2> QED BY <2>3, <2>4
<1>5. CASE en.prefix \notin 0 .. Width - 2
  <2>1. parse_entry_targets(en) = <<r>>
    BY <1>1, <1>2, <1>5 DEF parse_entry_targets
  <2>2. Meant(en) = r.start .. r.end
    BY <1>1, <1>5 DEF Meant, Covers
  <2>3. \A a \in Nat : Inside(a, r) <=> a \in r.start .. r.end
    BY <1>1 DEF Inside
  <2> QED BY <1>1, <1>3, <2>1, <2>2, <2>3
<1> QED BY <1>4, <1>5

(* parse_files gives the addresses the lines stand for, whatever order     *)
(* the unstable sort leaves them in.                                       *)
LEMMA FilesExact ==
    ASSUME NEW lines \in Seq(Entry), NEW out \in parse_files(lines)
    PROVE  /\ out \in Blocks /\ Apart(out)
           /\ MeantBy(lines) \subseteq Nat
           /\ \A a \in Nat : Among(a, out) <=> a \in MeantBy(lines)
<1> DEFINE ss == [i \in DOMAIN lines |-> parse_entry_targets(lines[i])]
<1>0. DOMAIN lines = 1 .. Len(lines) /\ Len(lines) \in Nat
      /\ \A i \in 1 .. Len(lines) : lines[i] \in Entry
  BY ElementOfSeq, LenProperties
<1>1. /\ ss \in Seq(Seq(Block)) /\ Len(ss) = Len(lines)
      /\ \A i \in 1 .. Len(lines) : ss[i] = parse_entry_targets(lines[i])
  <2>1. ss \in [1 .. Len(lines) -> Blocks]
    BY <1>0, EntryTargets
  <2>2. ss \in Seq(Blocks) /\ Len(ss) = Len(lines)
    <3> HIDE DEF ss
    <3> QED BY <1>0, <2>1, IsASeq, LenProperties
  <2> QED BY <1>0, <2>2 DEF Blocks
<1>2. PICK rs : rs = FlattenSeq(ss)
  OBVIOUS
<1>3. out \in merge(rs)
  BY <1>2 DEF parse_files
<1> HIDE DEF ss
<1>4. rs \in Blocks /\ \A v : Has(rs, v) <=> \E k \in 1 .. Len(ss) : Has(ss[k], v)
  BY <1>1, <1>2, FlattenHas DEF Blocks
<1>5. out \in Blocks /\ Apart(out) /\ \A a \in Nat : Among(a, out) <=> Among(a, rs)
  BY <1>3, <1>4, MergeExact
<1>6. ASSUME NEW a PROVE Among(a, rs) <=> \E k \in 1 .. Len(lines) : Among(a, ss[k])
  <2>1. ASSUME NEW i \in 1 .. Len(rs), Inside(a, rs[i])
        PROVE  \E k \in 1 .. Len(lines) : Among(a, ss[k])
    <3>1. PICK k \in 1 .. Len(ss) : Has(ss[k], rs[i])
      BY <1>4 DEF Has
    <3> QED BY <1>1, <2>1, <3>1 DEF Has, Among
  <2>2. ASSUME NEW k \in 1 .. Len(lines), NEW i \in 1 .. Len(ss[k]),
               Inside(a, ss[k][i])
        PROVE  Among(a, rs)
    <3>1. Has(rs, ss[k][i])
      BY <1>1, <1>4 DEF Has
    <3> QED BY <2>2, <3>1 DEF Has, Among
  <2> QED BY <2>1, <2>2 DEF Among
<1>7. \A a : a \in MeantBy(lines) <=> \E k \in 1 .. Len(lines) : a \in Meant(lines[k])
  BY <1>0 DEF MeantBy
<1>8. MeantBy(lines) \subseteq Nat
  BY <1>0, <1>7, EntryTargets
<1>9. ASSUME NEW a \in Nat PROVE Among(a, out) <=> a \in MeantBy(lines)
  <2>1. \A k \in 1 .. Len(lines) : Among(a, ss[k]) <=> a \in Meant(lines[k])
    BY <1>0, <1>1, EntryTargets
  <2> QED BY <1>5, <1>6, <1>7, <2>1
<1> QED BY <1>5, <1>8, <1>9

LEMMA DeniedBlocks ==
    ASSUME NEW ok \in BOOLEAN
    PROVE  /\ denied_ranges(ok) \in Blocks
           /\ \A a : is_allowed(a, ok) <=> ~Among(a, denied_ranges(ok))
<1> DEFINE cidrs == RESERVED_CIDRS \o (IF ok THEN <<>> ELSE PRIVATE_CIDRS)
           rs == [i \in DOMAIN cidrs |-> cidr_range(cidrs[i])]
<1>1. cidrs \in Seq(Cidr)
  <2>1. RESERVED_CIDRS \in Seq(Cidr) /\ PRIVATE_CIDRS \in Seq(Cidr) /\ <<>> \in Seq(Cidr)
    BY EntryAssumption, EmptySeq
  <2>2. (IF ok THEN <<>> ELSE PRIVATE_CIDRS) \in Seq(Cidr)
    BY <2>1
  <2> QED BY <2>1, <2>2, ConcatProperties
<1>2. denied_ranges(ok) = rs
  BY DEF denied_ranges
<1> HIDE DEF cidrs
<1>3. /\ DOMAIN cidrs = 1 .. Len(cidrs) /\ Len(cidrs) \in Nat
      /\ \A i \in 1 .. Len(cidrs) : cidrs[i] \in Cidr
  BY <1>1, ElementOfSeq, LenProperties
<1>4. ASSUME NEW c \in Cidr PROVE cidr_range(c) \in Block
  <2>1. c.base \in Nat /\ c.bits \in 0 .. Width
    BY AddressAssumption DEF Cidr, Address, Addresses
  <2>2. PICK size \in Nat \ {0} : size = 2 ^ (Width - c.bits)
    BY <2>1, SizePositive
  <2>3. PICK base \in Nat : base = c.base
    BY <2>1
  <2>4. base % size \in 0 .. size - 1 /\ base % size <= base
    OBVIOUS
  <2>5. PICK rest \in 0 .. size - 1 : rest = base % size /\ rest <= base
    BY <2>4
  <2>6. base - rest + size - 1 \in Nat /\ base <= base - rest + size - 1
    OBVIOUS
  <2>7. Span(base, base - rest + size - 1) \in Block
    BY <2>6, SpanBlock
  <2> QED BY <2>2, <2>3, <2>5, <2>7 DEF cidr_range
<1>5. rs \in [1 .. Len(cidrs) -> Block]
  BY <1>3, <1>4
<1> HIDE DEF rs
<1>6. rs \in Seq(Block) /\ Len(rs) = Len(cidrs) /\ DOMAIN rs = 1 .. Len(rs)
  BY <1>3, <1>5, IsASeq, LenProperties
<1>7. \A a : is_allowed(a, ok) <=> ~Among(a, rs)
  BY <1>2, <1>6 DEF is_allowed, Among, Inside
<1> QED BY <1>2, <1>6, <1>7 DEF Blocks

(* prepare_targets: what is left is what is included, not excluded and     *)
(* allowed.                                                                *)
LEMMA AllowedExact ==
    ASSUME NEW inc \in Blocks, NEW ex \in Blocks, Apart(inc), Apart(ex),
           NEW ok \in BOOLEAN, NEW out \in filter_allowed(subtract(inc, ex), ok)
    PROVE  /\ out \in Blocks /\ Apart(out)
           /\ \A a \in Nat : Among(a, out) <=>
                 Among(a, inc) /\ ~Among(a, ex) /\ is_allowed(a, ok)
<1>1. PICK denied \in merge(denied_ranges(ok)) : out = subtract(subtract(inc, ex), denied)
  BY DEF filter_allowed
<1>2. /\ denied_ranges(ok) \in Blocks
      /\ \A a : is_allowed(a, ok) <=> ~Among(a, denied_ranges(ok))
  BY DeniedBlocks
<1>3. /\ denied \in Blocks /\ Apart(denied)
      /\ \A a \in Nat : Among(a, denied) <=> Among(a, denied_ranges(ok))
  BY <1>2, MergeExact
<1>4. PICK left : left = subtract(inc, ex)
  OBVIOUS
<1>5. /\ left \in Blocks /\ Apart(left)
      /\ \A a \in Nat : Among(a, left) <=> Among(a, inc) /\ ~Among(a, ex)
  BY <1>4, SubtractExact
<1>6. /\ out \in Blocks /\ Apart(out)
      /\ \A a \in Nat : Among(a, out) <=> Among(a, left) /\ ~Among(a, denied)
  BY <1>1, <1>3, <1>4, <1>5, SubtractExact
<1> QED BY <1>2, <1>3, <1>5, <1>6

-----------------------------------------------------------------------------
(* iter and count *)

Increasing(s) == \A i, j \in 1 .. Len(s) : i < j => s[i] < s[j]

LEMMA IncreasingConcat ==
    ASSUME NEW s \in Seq(Nat), NEW t \in Seq(Nat), Increasing(s), Increasing(t),
           \A v, w \in Nat : Has(s, v) /\ Has(t, w) => v < w
    PROVE  Increasing(s \o t)
<1> DEFINE st == s \o t
<1>1. /\ Len(s) \in Nat /\ Len(t) \in Nat /\ Len(st) = Len(s) + Len(t)
      /\ \A i \in 1 .. Len(s) + Len(t) :
            st[i] = IF i <= Len(s) THEN s[i] ELSE t[i - Len(s)]
      /\ \A i \in 1 .. Len(s) : s[i] \in Nat
      /\ \A i \in 1 .. Len(t) : t[i] \in Nat
  BY ConcatProperties, LenProperties, ElementOfSeq
<1> HIDE DEF st
<1>2. ASSUME NEW i \in 1 .. Len(st), NEW j \in 1 .. Len(st), i < j
      PROVE  st[i] < st[j]
  <2>1. /\ st[i] = IF i <= Len(s) THEN s[i] ELSE t[i - Len(s)]
        /\ st[j] = IF j <= Len(s) THEN s[j] ELSE t[j - Len(s)]
    BY <1>1
  <2>2. CASE j <= Len(s)
    <3>1. i \in 1 .. Len(s) /\ j \in 1 .. Len(s) /\ i <= Len(s)
      BY <1>1, <1>2, <2>2
    <3> QED BY <1>2, <2>1, <2>2, <3>1 DEF Increasing
  <2>3. CASE i <= Len(s) /\ ~(j <= Len(s))
    <3>1. i \in 1 .. Len(s) /\ j - Len(s) \in 1 .. Len(t)
      BY <1>1, <2>3
    <3>2. Has(s, s[i]) /\ Has(t, t[j - Len(s)])
      BY <3>1 DEF Has
    <3> QED BY <1>1, <2>1, <2>3, <3>1, <3>2
  <2>4. CASE ~(i <= Len(s))
    <3>1. /\ i - Len(s) \in 1 .. Len(t) /\ j - Len(s) \in 1 .. Len(t)
          /\ i - Len(s) < j - Len(s) /\ ~(j <= Len(s))
      BY <1>1, <1>2, <2>4
    <3> QED BY <2>1, <2>4, <3>1 DEF Increasing
  <2> QED BY <1>1, <2>2, <2>3, <2>4
<1>3. Increasing(st)
  BY <1>2 DEF Increasing
<1> QED BY <1>3 DEF st

LEMMA CountUnfolds ==
    ASSUME NEW rs \in Blocks
    PROVE  \E f : /\ count(rs) = f[Len(rs)] /\ f[0] = 0
                  /\ \A k \in 0 .. Len(rs) : f[k] \in Nat
                  /\ \A k \in 1 .. Len(rs) :
                        f[k] = f[k - 1] + (rs[k].end - rs[k].start + 1)
<1>0. Len(rs) \in Nat /\ \A k \in 1 .. Len(rs) : rs[k].end - rs[k].start + 1 \in Nat
  BY BlockFields, LenProperties DEF Blocks
<1> DEFINE top == Len(rs)
           Step(h, k) == IF k = 0 THEN 0 ELSE h[k - 1] + (rs[k].end - rs[k].start + 1)
           G == [k \in 1 .. top |-> [s \in Nat |-> s + (rs[k].end - rs[k].start + 1)]]
           g == CHOOSE h : h = [k \in 0 .. top |-> Step(h, k)]
<1>2. count(rs) = g[top]
  BY Zenon DEF count
<1> HIDE DEF top
<1>a. top \in Nat /\ \A k \in 1 .. top : rs[k].end - rs[k].start + 1 \in Nat
  BY <1>0 DEF top
<1>3. G \in [1 .. top -> [Nat -> Nat]]
  BY <1>a
<1>4. PICK f \in [0 .. top -> Nat] :
         f[0] = 0 /\ \A k \in 1 .. top : f[k] = G[k][f[k - 1]]
  <2>1. top \in Nat /\ 0 \in Nat
    BY <1>a
  <2> HIDE DEF G
  <2>2. \E f \in [0 .. top -> Nat] : Loops(f, 0, G, top)
    BY <1>3, <2>1, LoopExists, Zenon
  <2> QED BY <2>2, Zenon DEF Loops
<1>5. f = [k \in 0 .. top |-> Step(f, k)]
  <2>1. ASSUME NEW k \in 0 .. top PROVE f[k] = Step(f, k)
    <3>1. CASE k # 0
      <4>1. k \in 1 .. top /\ k - 1 \in 0 .. top
        BY <1>a, <3>1
      <4>2. G[k][f[k - 1]] = f[k - 1] + (rs[k].end - rs[k].start + 1)
        BY <4>1
      <4> QED BY <1>4, <3>1, <4>1, <4>2
    <3> QED BY <1>4, <3>1
  <2> HIDE DEF Step
  <2> QED BY <2>1
<1>6. g = [k \in 0 .. top |-> Step(g, k)]
  BY <1>5, Zenon
<1> HIDE DEF g
<1>7. /\ g[0] = 0
      /\ \A k \in 1 .. top : g[k] = g[k - 1] + (rs[k].end - rs[k].start + 1)
  BY <1>a, <1>6
<1>8. \A k \in 0 .. top : g[k] \in Nat
  <2>1. g[0] \in Nat
    BY <1>7
  <2>2. ASSUME NEW k \in 1 .. top, g[k - 1] \in Nat PROVE g[k] \in Nat
    BY <1>a, <1>7, <2>2
  <2> QED BY <1>a, <2>1, <2>2, LoopTyped
<1> QED BY <1>2, <1>7, <1>8 DEF top

(* The addresses of one range *)
Segment(r) == [k \in 1 .. r.end - r.start + 1 |-> r.start + k - 1]

LEMMA SegmentExact ==
    ASSUME NEW r \in Block
    PROVE  /\ Segment(r) \in Seq(Nat) /\ Len(Segment(r)) = r.end - r.start + 1
           /\ Increasing(Segment(r))
           /\ \A a : Has(Segment(r), a) <=> a \in Nat /\ Inside(a, r)
<1>0. r.start \in Nat /\ r.end \in Nat /\ r.start <= r.end
  BY DEF Block
<1>1. PICK size \in Nat : size = r.end - r.start + 1
  BY <1>0
<1>s. PICK s : s = Segment(r)
  OBVIOUS
<1>2. s = [k \in 1 .. size |-> r.start + k - 1]
  BY <1>1, <1>s DEF Segment
<1>3. s \in [1 .. size -> Nat]
  BY <1>0, <1>2
<1>4. s \in Seq(Nat) /\ Len(s) = size
  BY <1>3, IsASeq, LenProperties
<1>5. Increasing(s)
  BY <1>0, <1>2, <1>4 DEF Increasing
<1>6. ASSUME NEW a PROVE Has(s, a) <=> a \in Nat /\ Inside(a, r)
  <2>1. ASSUME NEW i \in 1 .. size, s[i] = a PROVE a \in Nat /\ Inside(a, r)
    BY <1>0, <1>1, <1>2, <2>1 DEF Inside
  <2>2. ASSUME a \in Nat, Inside(a, r) PROVE \E i \in 1 .. size : s[i] = a
    <3>1. a - r.start + 1 \in 1 .. size /\ r.start + (a - r.start + 1) - 1 = a
      BY <1>0, <1>1, <2>2 DEF Inside
    <3> QED BY <1>2, <3>1
  <2> QED BY <1>4, <2>1, <2>2 DEF Has
<1> QED BY <1>1, <1>s, <1>4, <1>5, <1>6

(* iter visits every address of the ranges once, in order, and count is    *)
(* the number of them.                                                     *)
LEMMA IterExact ==
    ASSUME NEW rs \in Blocks, Apart(rs)
    PROVE  /\ iter(rs) \in Seq(Nat) /\ Increasing(iter(rs))
           /\ Len(iter(rs)) = count(rs)
           /\ \A a : Has(iter(rs), a) <=> a \in Nat /\ Among(a, rs)
<1> DEFINE ss == [i \in DOMAIN rs |-> Segment(rs[i])]
<1>0. /\ Len(rs) \in Nat /\ DOMAIN rs = 1 .. Len(rs)
      /\ \A i \in 1 .. Len(rs) : /\ rs[i] \in Block /\ rs[i].start \in Nat
                                 /\ rs[i].end \in Nat /\ rs[i].start <= rs[i].end
  BY BlockFields, LenProperties DEF Blocks
<1>1. iter(rs) = FlattenSeq(ss)
  BY DEF iter, Segment
<1>2. /\ ss \in Seq(Seq(Nat)) /\ Len(ss) = Len(rs)
      /\ \A i \in 1 .. Len(rs) : ss[i] = Segment(rs[i])
  <2>1. ss \in [1 .. Len(rs) -> Seq(Nat)]
    BY <1>0, SegmentExact
  <2>2. ss \in Seq(Seq(Nat)) /\ Len(ss) = Len(rs)
    <3> HIDE DEF ss
    <3> QED BY <1>0, <2>1, IsASeq, LenProperties
  <2> QED BY <1>0, <2>2
<1> HIDE DEF ss
<1>3. PICK f : /\ FlattenSeq(ss) = f[Len(ss)] /\ f[0] = <<>>
               /\ \A k \in 0 .. Len(ss) : f[k] \in Seq(Nat)
               /\ \A k \in 1 .. Len(ss) : f[k] = f[k - 1] \o ss[k]
  BY <1>2, FlattenUnfolds
<1>4. PICK c : /\ count(rs) = c[Len(rs)] /\ c[0] = 0
               /\ \A k \in 0 .. Len(rs) : c[k] \in Nat
               /\ \A k \in 1 .. Len(rs) :
                     c[k] = c[k - 1] + (rs[k].end - rs[k].start + 1)
  BY CountUnfolds
<1> DEFINE Good(m) ==
              /\ Increasing(f[m]) /\ Len(f[m]) = c[m]
              /\ \A a : Has(f[m], a) <=> a \in Nat /\ \E i \in 1 .. m : Inside(a, rs[i])
           T == {m \in 0 .. Len(rs) : Good(m)}
<1>5. 0 \in T
  <2>1. Len(f[0]) = 0
    BY <1>3
  <2>2. Good(0)
    BY <1>4, <2>1 DEF Increasing, Has
  <2> HIDE DEF Good
  <2> QED BY <1>0, <2>2
<1>6. ASSUME NEW m \in 0 .. Len(rs) - 1, m \in T PROVE m + 1 \in T
  <2>1. /\ m + 1 \in 1 .. Len(rs) /\ (m + 1) - 1 = m /\ m + 1 \in 0 .. Len(rs)
        /\ m \in 0 .. Len(rs) /\ m + 1 \in 1 .. m + 1
        /\ \A i \in 1 .. m + 1 : i \in 1 .. m \/ i = m + 1
        /\ \A i \in 1 .. m : i \in 1 .. m + 1 /\ i \in 1 .. Len(rs) /\ i < m + 1
    BY <1>0
  <2>2. PICK s, t, r : s = f[m] /\ t = ss[m + 1] /\ r = rs[m + 1]
    OBVIOUS
  <2>3. /\ s \in Seq(Nat) /\ t = Segment(r) /\ f[m + 1] = s \o t
        /\ r \in Block /\ r.start \in Nat /\ r.end \in Nat
    BY <1>0, <1>2, <1>3, <2>1, <2>2
  <2>4. /\ Increasing(s) /\ Len(s) = c[m]
        /\ \A a : Has(s, a) <=> a \in Nat /\ \E i \in 1 .. m : Inside(a, rs[i])
    BY <1>6, <2>2
  <2>5. /\ t \in Seq(Nat) /\ Len(t) = r.end - r.start + 1 /\ Increasing(t)
        /\ \A a : Has(t, a) <=> a \in Nat /\ Inside(a, r)
    BY <2>3, SegmentExact
  <2>6. ASSUME NEW v \in Nat, NEW w \in Nat, Has(s, v), Has(t, w) PROVE v < w
    <3>1. PICK i \in 1 .. m : Inside(v, rs[i])
      BY <2>4, <2>6
    <3>2. rs[i].end < r.start /\ rs[i].end \in Nat
      BY <1>0, <2>1, <2>2 DEF Apart
    <3>3. Inside(w, r)
      BY <2>5, <2>6
    <3> QED BY <2>3, <3>1, <3>2, <3>3 DEF Inside
  <2>7. Increasing(s \o t)
    BY <2>3, <2>4, <2>5, <2>6, IncreasingConcat
  <2>8. Len(s \o t) = c[m + 1]
    <3>1. Len(s \o t) = Len(s) + Len(t)
      BY <2>3, <2>5, ConcatProperties
    <3>2. c[m + 1] = c[m] + (r.end - r.start + 1)
      BY <1>4, <2>1, <2>2
    <3> QED BY <2>4, <2>5, <3>1, <3>2
  <2>9. ASSUME NEW a
        PROVE  Has(s \o t, a) <=> a \in Nat /\ \E i \in 1 .. m + 1 : Inside(a, rs[i])
    <3>1. Has(s \o t, a) <=> Has(s, a) \/ Has(t, a)
      BY <2>3, <2>5, ConcatHas
    <3> QED BY <2>1, <2>2, <2>4, <2>5, <3>1
  <2>10. Good(m + 1)
    BY <2>3, <2>7, <2>8, <2>9
  <2> HIDE DEF Good
  <2> QED BY <2>1, <2>10
<1>7. Good(Len(rs))
  <2>1. \A m \in 0 .. Len(rs) : m \in T
    <3> HIDE DEF T
    <3> QED BY <1>0, <1>5, <1>6, Passes
  <2>2. Len(rs) \in T
    <3> HIDE DEF T
    <3> QED BY <1>0, <2>1
  <2> HIDE DEF Good
  <2> QED BY <2>2
<1>8. iter(rs) = f[Len(rs)] /\ iter(rs) \in Seq(Nat)
  BY <1>0, <1>1, <1>2, <1>3
<1> QED BY <1>4, <1>7, <1>8 DEF Among

(* A list without repetition is as long as its set of values is large. *)
LEMMA ListSet ==
    ASSUME NEW S, NEW s \in Seq(S),
           \A i, j \in 1 .. Len(s) : s[i] = s[j] => i = j
    PROVE  /\ \A v : v \in ToSet(s) <=> Has(s, v)
           /\ IsFiniteSet(ToSet(s)) /\ Cardinality(ToSet(s)) = Len(s)
<1>1. Len(s) \in Nat /\ DOMAIN s = 1 .. Len(s) /\ s \in [1 .. Len(s) -> S]
  BY LenProperties
<1>2. \A v : v \in ToSet(s) <=> \E i \in 1 .. Len(s) : s[i] = v
  BY <1>1 DEF ToSet
<1>3. s \in [1 .. Len(s) -> ToSet(s)]
  BY <1>1, <1>2
<1>4. s \in Bijection(1 .. Len(s), ToSet(s))
  <2>1. IsInjective(s)
    BY <1>1 DEF IsInjective
  <2>2. \A v \in ToSet(s) : \E i \in 1 .. Len(s) : s[i] = v
    BY <1>2
  <2> QED BY <1>3, <2>1, <2>2 DEF Bijection, Injection, Surjection
<1>5. ExistsBijection(1 .. Len(s), ToSet(s))
  BY <1>4 DEF ExistsBijection
<1>6. IsFiniteSet(1 .. Len(s)) /\ Cardinality(1 .. Len(s)) = Len(s)
  BY <1>1, FS_Interval
<1>7. IsFiniteSet(ToSet(s)) /\ Cardinality(ToSet(s)) = Len(s)
  BY <1>5, <1>6, FS_Bijection
<1> QED BY <1>2, <1>7 DEF Has

LEMMA IncreasingSet ==
    ASSUME NEW s \in Seq(Nat), Increasing(s)
    PROVE  /\ \A v : v \in ToSet(s) <=> Has(s, v)
           /\ IsFiniteSet(ToSet(s)) /\ Cardinality(ToSet(s)) = Len(s)
           /\ \A i, j \in 1 .. Len(s) : s[i] = s[j] => i = j
<1>1. Len(s) \in Nat /\ \A i \in 1 .. Len(s) : s[i] \in Nat
  BY LenProperties, ElementOfSeq
<1>2. ASSUME NEW i \in 1 .. Len(s), NEW j \in 1 .. Len(s), s[i] = s[j] PROVE i = j
  <2>1. ~(i < j)
    BY <1>1, <1>2 DEF Increasing
  <2>2. ~(j < i)
    BY <1>1, <1>2 DEF Increasing
  <2> QED BY <1>1, <2>1, <2>2
<1> QED BY <1>2, ListSet

-----------------------------------------------------------------------------
(* The scope of a job *)

(* what the ranges of a step must be *)
Spans(rs, scope) ==
    /\ rs \in Blocks /\ Apart(rs)
    /\ \A a \in Nat : Among(a, rs) <=> a \in scope

TargetsInv ==
    /\ pc \in {"edit", "parsed", "prepared", "created", "refused"}
    /\ include \in Seq(Entry) /\ exclude \in Seq(Entry)
    /\ allow_private \in BOOLEAN
    /\ pc = "parsed" =>
          Spans(includes, MeantBy(include)) /\ Spans(excludes, MeantBy(exclude))
    /\ pc \in {"prepared", "created", "refused"} => Spans(ranges, Scope)
    /\ pc = "created" =>
          \E m \in Nat \ {0}, i \in Nat : endpoints = ShardEndpoints(ranges, i, m)

LEMMA MeantNat ==
    ASSUME NEW lines \in Seq(Entry)
    PROVE  MeantBy(lines) \subseteq Nat
<1>1. DOMAIN lines = 1 .. Len(lines) /\ \A i \in 1 .. Len(lines) : lines[i] \in Entry
  BY ElementOfSeq, LenProperties
<1> QED BY <1>1, EntryTargets DEF MeantBy

LEMMA TargetsStep == TargetsInv /\ [NextTargets]_targetVars => TargetsInv'
<1> SUFFICES ASSUME TargetsInv, [NextTargets]_targetVars PROVE TargetsInv'
  OBVIOUS
<1>1. ASSUME NEW en \in IncludeEntries, WriteInclude(en) PROVE TargetsInv'
  <2>1. en \in Entry
    BY EntryAssumption
  <2>2. include' \in Seq(Entry)
    BY <1>1, <2>1, AppendProperties DEF TargetsInv, WriteInclude
  <2> QED BY <1>1, <2>2 DEF TargetsInv, WriteInclude
<1>2. ASSUME NEW en \in ExcludeEntries, WriteExclude(en) PROVE TargetsInv'
  <2>1. en \in Entry
    BY EntryAssumption
  <2>2. exclude' \in Seq(Entry)
    BY <1>2, <2>1, AppendProperties DEF TargetsInv, WriteExclude
  <2> QED BY <1>2, <2>2 DEF TargetsInv, WriteExclude
<1>3. CASE ParseFiles
  <2>1. /\ include \in Seq(Entry) /\ exclude \in Seq(Entry) /\ pc' = "parsed"
        /\ include' = include /\ exclude' = exclude /\ allow_private' = allow_private
        /\ includes' \in parse_files(include) /\ excludes' \in parse_files(exclude)
    BY <1>3 DEF TargetsInv, ParseFiles
  <2>2. Spans(includes', MeantBy(include))
    BY <2>1, FilesExact DEF Spans
  <2>3. Spans(excludes', MeantBy(exclude))
    BY <2>1, FilesExact DEF Spans
  <2> QED BY <2>1, <2>2, <2>3 DEF TargetsInv
<1>4. CASE prepare_targets
  <2>1. /\ pc = "parsed" /\ pc' = "prepared" /\ include' = include
        /\ exclude' = exclude /\ allow_private' = allow_private
        /\ ranges' \in filter_allowed(subtract(includes, excludes), allow_private)
    BY <1>4 DEF prepare_targets
  <2>2. /\ Spans(includes, MeantBy(include)) /\ Spans(excludes, MeantBy(exclude))
        /\ allow_private \in BOOLEAN
    BY <2>1 DEF TargetsInv
  <2>3. /\ ranges' \in Blocks /\ Apart(ranges')
        /\ \A a \in Nat : Among(a, ranges') <=>
              /\ Among(a, includes) /\ ~Among(a, excludes)
              /\ is_allowed(a, allow_private)
    BY <2>1, <2>2, AllowedExact DEF Spans
  <2>4. Scope' = Scope
    BY <2>1 DEF Scope
  <2>5. Spans(ranges', Scope)
    BY <2>2, <2>3 DEF Spans, Scope
  <2>6. Spans(ranges, Scope)'
    BY <2>4, <2>5 DEF Spans
  <2> QED BY <2>1, <2>6 DEF TargetsInv
<1>5. ASSUME NEW m \in ShardCounts, NEW i \in ShardIndexes, create_shard(i, m)
      PROVE  TargetsInv'
  <2>1. m \in Nat \ {0} /\ i \in Nat
    BY CountAssumption
  <2>2. /\ pc = "prepared" /\ include' = include /\ exclude' = exclude
        /\ allow_private' = allow_private /\ ranges' = ranges
        /\ \/ pc' = "created" /\ endpoints' = ShardEndpoints(ranges, i, m)
           \/ pc' = "refused"
    BY <1>5 DEF create_shard
  <2>3. Spans(ranges, Scope)'
    BY <2>2 DEF TargetsInv, Spans, Scope
  <2>4. pc' = "created" =>
           \E mm \in Nat \ {0}, ii \in Nat : endpoints' = ShardEndpoints(ranges, ii, mm)'
    BY <2>1, <2>2
  <2> QED BY <2>2, <2>3, <2>4 DEF TargetsInv
<1>6. CASE UNCHANGED targetVars
  BY <1>6 DEF TargetsInv, targetVars, Spans, Scope
<1> QED BY <1>1, <1>2, <1>3, <1>4, <1>5, <1>6 DEF NextTargets

LEMMA TargetsInvariant == SpecTargets => []TargetsInv
<1>1. InitTargets => TargetsInv
  BY EmptySeq DEF InitTargets, TargetsInv
<1> QED BY <1>1, TargetsStep, PTL DEF SpecTargets

(* the scope, as the list create_shard walks *)
LEMMA ScopeList ==
    ASSUME TargetsInv, pc \in {"prepared", "created", "refused"}
    PROVE  /\ iter(ranges) \in Seq(Nat) /\ Increasing(iter(ranges))
           /\ Len(iter(ranges)) = count(ranges)
           /\ ToSet(iter(ranges)) = Scope
           /\ IsFiniteSet(Scope) /\ Cardinality(Scope) = Len(iter(ranges))
<1>1. Spans(ranges, Scope)
  BY DEF TargetsInv
<1>2. PICK ips : ips = iter(ranges)
  OBVIOUS
<1>3. /\ ips \in Seq(Nat) /\ Increasing(ips) /\ Len(ips) = count(ranges)
      /\ \A a : Has(ips, a) <=> a \in Nat /\ Among(a, ranges)
  BY <1>1, <1>2, IterExact DEF Spans
<1>4. Scope \subseteq Nat
  BY MeantNat DEF TargetsInv, Scope
<1>5. /\ \A v : v \in ToSet(ips) <=> Has(ips, v)
      /\ IsFiniteSet(ToSet(ips)) /\ Cardinality(ToSet(ips)) = Len(ips)
  BY <1>3, IncreasingSet
<1>6. ToSet(ips) = Scope
  BY <1>1, <1>3, <1>4, <1>5 DEF Spans
<1> QED BY <1>2, <1>3, <1>5, <1>6

(* However lines of the target files overlap, touch or reach the last      *)
(* address, and in whatever order the unstable sort leaves them,           *)
(* TargetSet's merge, subtract and filter_allowed end with exactly the     *)
(* addresses the files and the policy leave, and iter visits each of them  *)
(* once, in order.                                                         *)
THEOREM ScopeIsExact == SpecTargets => []ScopeExact
<1>1. TargetsInv => ScopeExact
  <2>1. SUFFICES ASSUME TargetsInv, pc \in {"prepared", "created", "refused"}
                 PROVE  LET ips == iter(ranges)
                        IN  /\ ToSet(ips) = Scope
                            /\ \A i \in 1 .. Len(ips) - 1 : ips[i] < ips[i + 1]
                            /\ count(ranges) = Cardinality(Scope)
    BY DEF ScopeExact
  <2>2. PICK ips : ips = iter(ranges)
    OBVIOUS
  <2>3. /\ ips \in Seq(Nat) /\ Increasing(ips) /\ Len(ips) = count(ranges)
        /\ ToSet(ips) = Scope /\ Cardinality(Scope) = Len(ips)
    BY <2>1, <2>2, ScopeList
  <2>4. ASSUME NEW i \in 1 .. Len(ips) - 1 PROVE ips[i] < ips[i + 1]
    <3>1. i \in 1 .. Len(ips) /\ i + 1 \in 1 .. Len(ips) /\ i < i + 1
      BY <2>3, LenProperties
    <3> QED BY <2>3, <3>1 DEF Increasing
  <2> QED BY <2>2, <2>3, <2>4
<1> QED BY <1>1, TargetsInvariant, PTL

-----------------------------------------------------------------------------
(* The shards of a job *)

LEMMA PlacesUnfold ==
    ASSUME NEW total \in Nat, NEW i \in Nat, NEW m \in Nat \ {0}
    PROVE  \E f :
              /\ ShardPlaces(total, i, m) = f[total] /\ f[0] = <<>>
              /\ \A k \in 0 .. total : f[k] \in Seq(Nat)
              /\ \A k \in 1 .. total :
                    f[k] = IF target_in_shard(k - 1, i, m)
                           THEN Append(f[k - 1], k) ELSE f[k - 1]
<1> DEFINE Pass(s, k) == IF target_in_shard(k - 1, i, m) THEN Append(s, k) ELSE s
           Step(h, k) == IF k = 0 THEN <<>>
                         ELSE IF target_in_shard(k - 1, i, m)
                         THEN Append(h[k - 1], k) ELSE h[k - 1]
           G == [k \in 1 .. total |-> [s \in Seq(Nat) |-> Pass(s, k)]]
           g == CHOOSE h : h = [k \in 0 .. total |-> Step(h, k)]
<1>1. ASSUME NEW s \in Seq(Nat), NEW k \in 1 .. total PROVE Pass(s, k) \in Seq(Nat)
  BY AppendProperties
<1>2. ShardPlaces(total, i, m) = g[total]
  BY Zenon DEF ShardPlaces
<1>3. PICK f \in [0 .. total -> Seq(Nat)] :
         f[0] = <<>> /\ \A k \in 1 .. total : f[k] = G[k][f[k - 1]]
  <2>1. <<>> \in Seq(Nat)
    BY EmptySeq
  <2>2. G \in [1 .. total -> [Seq(Nat) -> Seq(Nat)]]
    <3> HIDE DEF Pass
    <3> QED BY <1>1
  <2> HIDE DEF G
  <2>3. \E f \in [0 .. total -> Seq(Nat)] : Loops(f, <<>>, G, total)
    BY <2>1, <2>2, LoopExists, Zenon
  <2> QED BY <2>3, Zenon DEF Loops
<1>4. f = [k \in 0 .. total |-> Step(f, k)]
  <2>1. ASSUME NEW k \in 0 .. total PROVE f[k] = Step(f, k)
    <3>1. CASE k # 0
      <4>1. k \in 1 .. total /\ k - 1 \in 0 .. total
        BY <3>1
      <4>2. G[k][f[k - 1]] = Pass(f[k - 1], k)
        <5> HIDE DEF Pass
        <5> QED BY <4>1
      <4> QED BY <1>3, <3>1, <4>1, <4>2
    <3> QED BY <1>3, <3>1
  <2> HIDE DEF Step
  <2> QED BY <2>1
<1>5. g = [k \in 0 .. total |-> Step(g, k)]
  BY <1>4, Zenon
<1> HIDE DEF g
<1>6. g[0] = <<>> /\ \A k \in 1 .. total : g[k] = Pass(g[k - 1], k)
  <2>1. \A k \in 0 .. total : g[k] = Step(g, k)
    <3> HIDE DEF Step
    <3> QED BY <1>5
  <2>2. \A k \in 1 .. total : k \in 0 .. total /\ k # 0
    OBVIOUS
  <2> QED BY <2>1, <2>2
<1>7. \A k \in 0 .. total : g[k] \in Seq(Nat)
  <2>1. g[0] \in Seq(Nat)
    BY <1>6, EmptySeq
  <2>2. ASSUME NEW k \in 1 .. total, g[k - 1] \in Seq(Nat) PROVE g[k] \in Seq(Nat)
    <3> HIDE DEF Pass
    <3> QED BY <1>1, <1>6, <2>2
  <2>3. PICK A : A = Seq(Nat)
    OBVIOUS
  <2>4. \A k \in 0 .. total : g[k] \in A
    BY <2>1, <2>2, <2>3, LoopTyped
  <2> QED BY <2>3, <2>4
<1> QED BY <1>2, <1>6, <1>7

(* The places of a shard are those create_shard takes it to own. *)
LEMMA PlacesExact ==
    ASSUME NEW total \in Nat, NEW i \in Nat, NEW m \in Nat \ {0}
    PROVE  /\ ShardPlaces(total, i, m) \in Seq(Nat)
           /\ Increasing(ShardPlaces(total, i, m))
           /\ \A q : Has(ShardPlaces(total, i, m), q) <=>
                        q \in 1 .. total /\ target_in_shard(q - 1, i, m)
<1>1. PICK f :
         /\ ShardPlaces(total, i, m) = f[total] /\ f[0] = <<>>
         /\ \A k \in 0 .. total : f[k] \in Seq(Nat)
         /\ \A k \in 1 .. total :
               f[k] = IF target_in_shard(k - 1, i, m)
                      THEN Append(f[k - 1], k) ELSE f[k - 1]
  BY PlacesUnfold
<1> DEFINE Good(k) ==
              /\ Increasing(f[k])
              /\ \A q : Has(f[k], q) <=> q \in 1 .. k /\ target_in_shard(q - 1, i, m)
           T == {k \in 0 .. total : Good(k)}
<1>2. 0 \in T
  <2>1. Len(f[0]) = 0
    BY <1>1
  <2>2. Good(0)
    BY <2>1 DEF Increasing, Has
  <2> HIDE DEF Good
  <2> QED BY <2>2
<1>3. ASSUME NEW k \in 0 .. total - 1, k \in T PROVE k + 1 \in T
  <2>1. /\ k + 1 \in 1 .. total /\ (k + 1) - 1 = k /\ k + 1 \in 0 .. total
        /\ k \in 0 .. total /\ k \in Nat
    OBVIOUS
  <2>2. PICK s, new : s = f[k] /\ new = f[k + 1]
    OBVIOUS
  <2>3. /\ s \in Seq(Nat) /\ Increasing(s)
        /\ \A q : Has(s, q) <=> q \in 1 .. k /\ target_in_shard(q - 1, i, m)
        /\ new = IF target_in_shard(k, i, m) THEN Append(s, k + 1) ELSE s
    <3>1. new = IF target_in_shard((k + 1) - 1, i, m)
                THEN Append(f[(k + 1) - 1], k + 1) ELSE f[(k + 1) - 1]
      BY <1>1, <2>1, <2>2, Zenon
    <3>2. s \in Seq(Nat)
      BY <1>1, <2>1, <2>2
    <3> QED BY <1>3, <2>1, <2>2, <3>1, <3>2
  <2>4. /\ \A q \in 1 .. k + 1 : q \in 1 .. k \/ q = k + 1
        /\ \A q \in 1 .. k : q \in 1 .. k + 1
        /\ k + 1 \in 1 .. k + 1 /\ k + 1 \notin 1 .. k
    BY <2>1
  <2>5. CASE ~target_in_shard(k, i, m)
    <3>1. \A q : Has(new, q) <=> q \in 1 .. k + 1 /\ target_in_shard(q - 1, i, m)
      BY <2>1, <2>3, <2>4, <2>5
    <3>2. Good(k + 1)
      BY <2>2, <2>3, <2>5, <3>1
    <3> HIDE DEF Good
    <3> QED BY <2>1, <3>2
  <2>6. CASE target_in_shard(k, i, m)
    <3>1. PICK one : one = <<k + 1>>
      OBVIOUS
    <3>2. one \in Seq(Nat) /\ Len(one) = 1 /\ one[1] = k + 1
      BY <2>1, <3>1
    <3>3. Increasing(one) /\ \A q : Has(one, q) <=> q = k + 1
      BY <3>2 DEF Increasing, Has
    <3>4. new = s \o one
      BY <2>1, <2>3, <2>6, <3>1, AppendIsConcat
    <3>5. \A v, w \in Nat : Has(s, v) /\ Has(one, w) => v < w
      BY <2>1, <2>3, <3>3
    <3>6. Increasing(new)
      BY <2>3, <3>2, <3>3, <3>4, <3>5, IncreasingConcat
    <3>7. ASSUME NEW q PROVE Has(new, q) <=> Has(s, q) \/ Has(one, q)
      <4>1. Has(s \o one, q) <=> Has(s, q) \/ Has(one, q)
        BY <2>3, <3>2, ConcatHas
      <4> QED BY <3>4, <4>1, Zenon
    <3>8. \A q : Has(new, q) <=> q \in 1 .. k + 1 /\ target_in_shard(q - 1, i, m)
      BY <2>1, <2>3, <2>4, <2>6, <3>3, <3>7
    <3>9. Good(k + 1)
      BY <2>2, <3>6, <3>8
    <3> HIDE DEF Good
    <3> QED BY <2>1, <3>9
  <2> QED BY <2>5, <2>6
<1>4. Good(total)
  <2>1. \A k \in 0 .. total : k \in T
    <3> HIDE DEF T
    <3> QED BY <1>2, <1>3, Passes
  <2>2. total \in T
    <3> HIDE DEF T
    <3> QED BY <2>1
  <2> HIDE DEF Good
  <2> QED BY <2>2
<1>5. f[total] \in Seq(Nat)
  BY <1>1
<1> QED BY <1>1, <1>4, <1>5

LEMMA DivBelow ==
    ASSUME NEW v \in Nat, NEW L \in Nat, NEW P \in Nat \ {0}, v < P * L
    PROVE  v \div P \in 0 .. L - 1
<1>1. PICK q \in Nat : q = v \div P
  BY DivMod
<1>2. v = P * q + (v % P) /\ v % P \in Nat
  BY <1>1, DivMod, ModRange
<1>3. ~(q >= L)
  <2>1. CASE q = L
    BY <1>2, <2>1
  <2>2. CASE q > L
    <3>1. P * L + P <= P * q
      BY <2>2, TimesMono
    <3>2. P * L \in Nat /\ P * q \in Nat
      OBVIOUS
    <3> QED BY <1>2, <3>1, <3>2
  <2> QED BY <2>1, <2>2
<1> QED BY <1>1, <1>3

LEMMA DivOfJoin ==
    ASSUME NEW P \in Nat \ {0}, NEW a \in Nat, NEW b \in 0 .. P - 1
    PROVE  (a * P + b) \div P = a /\ (a * P + b) % P = b
<1>1. PICK v \in Nat : v = a * P + b
  OBVIOUS
<1>2. PICK q \in Nat, r \in 0 .. P - 1 : q = v \div P /\ r = v % P /\ v = P * q + r
  BY DivMod, ModRange
<1>3. q * P + r = a * P + b
  BY <1>1, <1>2
<1>4. q = a /\ r = b
  BY <1>3, JoinUnique
<1> QED BY <1>1, <1>2, <1>4

(* Dividing keeps the order. *)
LEMMA DivMonotone ==
    ASSUME NEW P \in Nat \ {0}, NEW v \in Nat, NEW w \in Nat, v <= w
    PROVE  v \div P <= w \div P
<1>1. PICK q \in Nat, r \in 0 .. P - 1 : q = v \div P /\ r = v % P /\ v = P * q + r
  BY DivMod, ModRange
<1>2. PICK q2 \in Nat, r2 \in 0 .. P - 1 : q2 = w \div P /\ r2 = w % P /\ w = P * q2 + r2
  BY DivMod, ModRange
<1>3. ~(q2 < q)
  <2>1. SUFFICES ASSUME q2 < q PROVE FALSE
    OBVIOUS
  <2>2. P * q2 + P <= P * q
    BY <2>1, TimesMono
  <2>3. P * q2 \in Nat /\ P * q \in Nat
    OBVIOUS
  <2> QED BY <1>1, <1>2, <2>2, <2>3
<1> QED BY <1>1, <1>2, <1>3

Endpoint == Nat \X AllPorts

(* What the lookup relies on *)
ByAddress(eps) == \A i, j \in 1 .. Len(eps) : i <= j => eps[i][1] <= eps[j][1]

LEMMA PortsFacts ==
    /\ Len(Ports) \in Nat \ {0} /\ DOMAIN Ports = 1 .. Len(Ports)
    /\ \A k \in 1 .. Len(Ports) : Ports[k] \in AllPorts
BY ServiceAssumption, EmptySeq, LenProperties, ElementOfSeq

LEMMA NumberList ==
    ASSUME NEW s \in Seq(Nat)
    PROVE  /\ Len(s) \in Nat /\ DOMAIN s = 1 .. Len(s)
           /\ \A k \in 1 .. Len(s) : s[k] \in Nat
BY LenProperties, ElementOfSeq

(* create_shard's two loops meet every pair of an address and a service,   *)
(* the addresses in order.                                                 *)
LEMMA AllExact ==
    ASSUME NEW rs \in Blocks, Apart(rs)
    PROVE  LET all == AllEndpoints(rs)
               ips == iter(rs)
           IN  /\ all \in Seq(Endpoint) /\ Len(all) = Len(ips) * Len(Ports)
               /\ \A v : Has(all, v) <=> v \in ToSet(ips) \X ToSet(Ports)
               /\ ByAddress(all)
<1>1. PICK ips : ips = iter(rs)
  OBVIOUS
<1>2. /\ ips \in Seq(Nat) /\ Increasing(ips) /\ Len(ips) \in Nat
      /\ DOMAIN ips = 1 .. Len(ips) /\ \A k \in 1 .. Len(ips) : ips[k] \in Nat
  <2>1. iter(rs) \in Seq(Nat) /\ Increasing(iter(rs))
    BY IterExact
  <2> QED BY <1>1, <2>1, NumberList, Zenon
<1>3. PICK L \in Nat, P \in Nat \ {0} : L = Len(ips) /\ P = Len(Ports)
  <2>1. Len(ips) \in Nat /\ Len(Ports) \in Nat \ {0}
    BY <1>2, PortsFacts, Zenon
  <2> QED BY <2>1, Zenon
<1>4. PICK size \in Nat : size = L * P /\ size = P * L
  OBVIOUS
<1>5. PICK all : all = AllEndpoints(rs)
  OBVIOUS
<1>6. all = [k \in 1 .. size |-> <<ips[((k - 1) \div P) + 1], Ports[((k - 1) % P) + 1]>>]
  BY <1>1, <1>3, <1>4, <1>5 DEF AllEndpoints
<1>7. ASSUME NEW k \in 1 .. size
      PROVE  /\ k - 1 \in Nat
             /\ ((k - 1) \div P) + 1 \in 1 .. L /\ ((k - 1) % P) + 1 \in 1 .. P
  <2>1. PICK v \in Nat : v = k - 1 /\ v < P * L
    BY <1>4
  <2>2. v \div P \in 0 .. L - 1 /\ v % P \in 0 .. P - 1
    BY <2>1, DivBelow, ModRange
  <2>3. (v \div P) + 1 \in 1 .. L
    BY <2>2
  <2>4. (v % P) + 1 \in 1 .. P
    BY <2>2
  <2> QED BY <2>1, <2>3, <2>4
<1>8. ASSUME NEW k \in 1 .. size
      PROVE  /\ all[k] = <<ips[((k - 1) \div P) + 1], Ports[((k - 1) % P) + 1]>>
             /\ all[k][1] = ips[((k - 1) \div P) + 1]
             /\ all[k] \in Endpoint /\ all[k] \in ToSet(ips) \X ToSet(Ports)
  <2>1. PICK a \in 1 .. L, b \in 1 .. P :
           a = ((k - 1) \div P) + 1 /\ b = ((k - 1) % P) + 1
    BY <1>7
  <2>2. all[k] = <<ips[a], Ports[b]>>
    BY <1>6, <2>1
  <2>3. ips[a] \in Nat /\ ips[a] \in ToSet(ips)
    BY <1>2, <1>3 DEF ToSet
  <2>4. Ports[b] \in AllPorts /\ Ports[b] \in ToSet(Ports)
    BY <1>3, PortsFacts DEF ToSet
  <2> QED BY <2>1, <2>2, <2>3, <2>4 DEF Endpoint
<1>9. all \in Seq(Endpoint) /\ Len(all) = size
  <2>1. all \in [1 .. size -> Endpoint]
    <3>1. DOMAIN all = 1 .. size /\ all = [k \in 1 .. size |-> all[k]]
      BY <1>6
    <3>2. \A k \in 1 .. size : all[k] \in Endpoint
      BY <1>8
    <3> QED BY <3>1, <3>2, Zenon
  <2> QED BY <2>1, IsASeq, LenProperties
<1>10. ASSUME NEW v PROVE Has(all, v) <=> v \in ToSet(ips) \X ToSet(Ports)
  <2>1. ASSUME NEW k \in 1 .. size, all[k] = v PROVE v \in ToSet(ips) \X ToSet(Ports)
    BY <1>8, <2>1
  <2>2. ASSUME v \in ToSet(ips) \X ToSet(Ports) PROVE \E k \in 1 .. size : all[k] = v
    <3>1. PICK a \in 1 .. L : ips[a] = v[1]
      BY <1>2, <1>3, <2>2 DEF ToSet
    <3>2. PICK b \in 1 .. P : Ports[b] = v[2]
      BY <1>3, <2>2, PortsFacts DEF ToSet
    <3>3. PICK a0 \in Nat, b0 \in 0 .. P - 1 : a = a0 + 1 /\ b = b0 + 1
      <4>1. a - 1 \in Nat /\ b - 1 \in 0 .. P - 1 /\ a = (a - 1) + 1 /\ b = (b - 1) + 1
        OBVIOUS
      <4> QED BY <4>1
    <3>4. PICK w \in Nat : w = a0 * P + b0
      OBVIOUS
    <3>5. w \div P = a0 /\ w % P = b0
      BY <3>4, DivOfJoin
    <3>6. w < size
      <4>1. a0 < L
        BY <3>3
      <4>2. P * a0 + P <= P * L
        BY <4>1, TimesMono
      <4>3. P * a0 = a0 * P /\ a0 * P \in Nat
        OBVIOUS
      <4> QED BY <1>4, <3>4, <4>2, <4>3
    <3>7. w + 1 \in 1 .. size /\ (w + 1) - 1 = w
      BY <3>6
    <3>8. all[w + 1] = <<ips[a], Ports[b]>>
      BY <1>8, <3>3, <3>5, <3>7
    <3>9. v = <<v[1], v[2]>>
      BY <2>2
    <3> QED BY <3>1, <3>2, <3>7, <3>8, <3>9
  <2> QED BY <1>9, <2>1, <2>2 DEF Has
<1>11. ByAddress(all)
  <2>1. SUFFICES ASSUME NEW i \in 1 .. size, NEW j \in 1 .. size, i <= j
                 PROVE  all[i][1] <= all[j][1]
    BY <1>9 DEF ByAddress
  <2>2. PICK a \in 1 .. L : a = ((i - 1) \div P) + 1 /\ all[i][1] = ips[a]
    BY <1>7, <1>8
  <2>3. PICK b \in 1 .. L : b = ((j - 1) \div P) + 1 /\ all[j][1] = ips[b]
    BY <1>7, <1>8
  <2>4. i - 1 \in Nat /\ j - 1 \in Nat /\ i - 1 <= j - 1
    BY <2>1
  <2>5. PICK c \in Nat, d \in Nat :
           c = (i - 1) \div P /\ d = (j - 1) \div P /\ c <= d
    BY <2>4, DivMonotone, DivMod
  <2>6. a <= b
    BY <2>2, <2>3, <2>5
  <2>7. a = b \/ ips[a] < ips[b]
    BY <1>2, <1>3, <2>6 DEF Increasing
  <2>8. ips[a] \in Nat /\ ips[b] \in Nat
    BY <1>2, <1>3
  <2> QED BY <2>2, <2>3, <2>7, <2>8
<1> QED BY <1>1, <1>3, <1>4, <1>5, <1>9, <1>10, <1>11

LEMMA ShardList ==
    ASSUME NEW rs \in Blocks, Apart(rs), NEW i \in Nat, NEW m \in Nat \ {0}
    PROVE  LET all == AllEndpoints(rs)
               mine == ShardPlaces(Len(all), i, m)
               eps == ShardEndpoints(rs, i, m)
           IN  /\ mine \in Seq(Nat) /\ Increasing(mine)
               /\ \A q : Has(mine, q) <=>
                            q \in 1 .. Len(all) /\ target_in_shard(q - 1, i, m)
               /\ eps \in Seq(Endpoint) /\ Len(eps) = Len(mine)
               /\ \A k \in 1 .. Len(mine) :
                     mine[k] \in 1 .. Len(all) /\ eps[k] = all[mine[k]]
               /\ ByAddress(eps)
<1>1. PICK all : all = AllEndpoints(rs)
  OBVIOUS
<1>2. /\ all \in Seq(Endpoint) /\ ByAddress(all) /\ Len(all) \in Nat
      /\ \A k \in 1 .. Len(all) : all[k] \in Endpoint
  BY <1>1, AllExact, LenProperties, ElementOfSeq
<1>3. PICK mine : mine = ShardPlaces(Len(all), i, m)
  OBVIOUS
<1>4. /\ mine \in Seq(Nat) /\ Increasing(mine) /\ Len(mine) \in Nat
      /\ DOMAIN mine = 1 .. Len(mine)
      /\ \A q : Has(mine, q) <=>
                   q \in 1 .. Len(all) /\ target_in_shard(q - 1, i, m)
  BY <1>2, <1>3, PlacesExact, LenProperties
<1>5. \A k \in 1 .. Len(mine) : mine[k] \in 1 .. Len(all)
  BY <1>4 DEF Has
<1>6. PICK eps : eps = ShardEndpoints(rs, i, m)
  OBVIOUS
<1>7. eps = [k \in 1 .. Len(mine) |-> all[mine[k]]]
  BY <1>1, <1>3, <1>4, <1>6 DEF ShardEndpoints
<1>8. eps \in [1 .. Len(mine) -> Endpoint]
  BY <1>2, <1>5, <1>7
<1>9. eps \in Seq(Endpoint) /\ Len(eps) = Len(mine)
  BY <1>4, <1>8, IsASeq, LenProperties
<1>10. ByAddress(eps)
  <2>1. SUFFICES ASSUME NEW j \in 1 .. Len(mine), NEW k \in 1 .. Len(mine), j <= k
                 PROVE  eps[j][1] <= eps[k][1]
    BY <1>9 DEF ByAddress
  <2>2. mine[j] \in 1 .. Len(all) /\ mine[k] \in 1 .. Len(all)
    BY <1>5
  <2>3. mine[j] <= mine[k]
    <3>1. j = k \/ mine[j] < mine[k]
      BY <1>4, <2>1 DEF Increasing
    <3> QED BY <1>2, <2>2, <3>1
  <2>4. all[mine[j]][1] <= all[mine[k]][1]
    BY <1>2, <2>2, <2>3 DEF ByAddress
  <2> QED BY <1>7, <2>4
<1> QED BY <1>1, <1>3, <1>4, <1>5, <1>6, <1>7, <1>9, <1>10

(* The files of the m shards, and the places in them *)
Files(m) == [i \in 0 .. m - 1 |-> ShardEndpoints(ranges, i, m)]
FilePlaces(m) == UNION {{i} \X DOMAIN Files(m)[i] : i \in 0 .. m - 1}

LEMMA ShardsExact ==
    ASSUME ranges \in Blocks, Apart(ranges), NEW m \in Nat \ {0}
    PROVE  LET ips == iter(ranges)
           IN  /\ {Files(m)[y[1]][y[2]] : y \in FilePlaces(m)} =
                     ToSet(ips) \X ToSet(Ports)
               /\ Cardinality(FilePlaces(m)) = Len(ips) * Len(Ports)
<1>1. PICK ips, all : ips = iter(ranges) /\ all = AllEndpoints(ranges)
  OBVIOUS
<1>2. /\ Len(all) = Len(ips) * Len(Ports) /\ Len(all) \in Nat
      /\ \A v : Has(all, v) <=> v \in ToSet(ips) \X ToSet(Ports)
  <2>1. /\ all \in Seq(Endpoint) /\ Len(all) = Len(ips) * Len(Ports)
        /\ \A v : Has(all, v) <=> v \in ToSet(ips) \X ToSet(Ports)
    BY <1>1, AllExact
  <2> QED BY <2>1, LenProperties
<1>3. PICK mine : mine = [i \in 0 .. m - 1 |-> ShardPlaces(Len(all), i, m)]
  OBVIOUS
<1>4. PICK files : files = Files(m)
  OBVIOUS
<1>5. ASSUME NEW i \in 0 .. m - 1
      PROVE  /\ mine[i] \in Seq(Nat) /\ Increasing(mine[i])
             /\ \A q : Has(mine[i], q) <=>
                          q \in 1 .. Len(all) /\ target_in_shard(q - 1, i, m)
             /\ DOMAIN files[i] = 1 .. Len(mine[i])
             /\ \A k \in 1 .. Len(mine[i]) :
                   mine[i][k] \in 1 .. Len(all) /\ files[i][k] = all[mine[i][k]]
  <2>1. i \in Nat
    OBVIOUS
  <2>2. mine[i] = ShardPlaces(Len(all), i, m) /\ files[i] = ShardEndpoints(ranges, i, m)
    BY <1>3, <1>4 DEF Files
  <2>3. /\ mine[i] \in Seq(Nat) /\ Increasing(mine[i])
        /\ \A q : Has(mine[i], q) <=>
                     q \in 1 .. Len(all) /\ target_in_shard(q - 1, i, m)
        /\ files[i] \in Seq(Endpoint) /\ Len(files[i]) = Len(mine[i])
        /\ \A k \in 1 .. Len(mine[i]) :
              mine[i][k] \in 1 .. Len(all) /\ files[i][k] = all[mine[i][k]]
    BY <1>1, <2>1, <2>2, ShardList
  <2>4. DOMAIN files[i] = 1 .. Len(mine[i])
    BY <2>3, LenProperties
  <2> QED BY <2>3, <2>4
<1>6. PICK places : places = FilePlaces(m)
  OBVIOUS
<1>7. /\ \A y \in places : y[1] \in 0 .. m - 1 /\ y[2] \in 1 .. Len(mine[y[1]])
                           /\ y = <<y[1], y[2]>>
      /\ \A i \in 0 .. m - 1 : \A k \in 1 .. Len(mine[i]) : <<i, k>> \in places
  <2>1. \A y : y \in places <=> \E i \in 0 .. m - 1 : y \in {i} \X (1 .. Len(mine[i]))
    BY <1>4, <1>5, <1>6 DEF FilePlaces
  <2> QED BY <2>1
(* every place of the list is in the shard its index says, once *)
<1>8. ASSUME NEW q \in 1 .. Len(all)
      PROVE  \E y \in places : mine[y[1]][y[2]] = q
  <2>1. PICK i \in 0 .. m - 1 : i = (q - 1) % m
    <3>1. q - 1 \in Nat
      BY <1>2
    <3> QED BY <3>1, ModRange
  <2>2. Has(mine[i], q)
    BY <1>5, <2>1 DEF target_in_shard
  <2>3. PICK k \in 1 .. Len(mine[i]) : mine[i][k] = q
    BY <2>2 DEF Has
  <2> QED BY <1>7, <2>3
<1>9. ASSUME NEW y \in places, NEW z \in places, mine[y[1]][y[2]] = mine[z[1]][z[2]]
      PROVE  y = z
  <2>1. PICK q : q = mine[y[1]][y[2]]
    OBVIOUS
  <2>2. Has(mine[y[1]], q) /\ Has(mine[z[1]], q)
    BY <1>7, <1>9, <2>1 DEF Has
  <2>3. (q - 1) % m = y[1] /\ (q - 1) % m = z[1]
    BY <1>5, <1>7, <2>2 DEF target_in_shard
  <2>4. PICK i \in 0 .. m - 1 : i = y[1] /\ i = z[1]
    BY <1>7, <2>3
  <2>5. y[2] \in 1 .. Len(mine[i]) /\ z[2] \in 1 .. Len(mine[i])
        /\ mine[i][y[2]] = mine[i][z[2]]
    BY <1>7, <1>9, <2>4
  <2>6. y[2] = z[2]
    BY <1>5, <2>5, IncreasingSet
  <2> QED BY <1>7, <2>4, <2>6
<1>10. {files[y[1]][y[2]] : y \in places} = ToSet(ips) \X ToSet(Ports)
  <2>1. ASSUME NEW y \in places PROVE files[y[1]][y[2]] \in ToSet(ips) \X ToSet(Ports)
    <3>1. mine[y[1]][y[2]] \in 1 .. Len(all) /\ files[y[1]][y[2]] = all[mine[y[1]][y[2]]]
      BY <1>5, <1>7
    <3>2. Has(all, files[y[1]][y[2]])
      BY <3>1 DEF Has
    <3> QED BY <1>2, <3>2
  <2>2. ASSUME NEW v \in ToSet(ips) \X ToSet(Ports)
        PROVE  \E y \in places : files[y[1]][y[2]] = v
    <3>1. PICK q \in 1 .. Len(all) : all[q] = v
      BY <1>2 DEF Has
    <3>2. PICK y \in places : mine[y[1]][y[2]] = q
      BY <1>8
    <3>3. files[y[1]][y[2]] = all[mine[y[1]][y[2]]]
      BY <1>5, <1>7
    <3> QED BY <3>1, <3>2, <3>3
  <2> QED BY <2>1, <2>2
<1>11. Cardinality(places) = Len(all)
  <2> DEFINE h == [y \in places |-> mine[y[1]][y[2]]]
  <2>1. h \in [places -> 1 .. Len(all)]
    BY <1>5, <1>7
  <2>2. IsInjective(h)
    BY <1>9 DEF IsInjective
  <2>3. \A q \in 1 .. Len(all) : \E y \in places : h[y] = q
    BY <1>8
  <2> HIDE DEF h
  <2>4. h \in Bijection(places, 1 .. Len(all))
    BY <2>1, <2>2, <2>3 DEF Bijection, Injection, Surjection
  <2>5. ExistsBijection(places, 1 .. Len(all))
    BY <2>4 DEF ExistsBijection
  <2>6. ExistsBijection(1 .. Len(all), places)
    BY <2>5, Fun_ExistsBijSymmetric
  <2>7. IsFiniteSet(1 .. Len(all)) /\ Cardinality(1 .. Len(all)) = Len(all)
    BY <1>2, FS_Interval
  <2> QED BY <2>6, <2>7, FS_Bijection
<1> QED BY <1>1, <1>2, <1>4, <1>6, <1>10, <1>11

(* Scanning every shard probes every endpoint in scope once: each endpoint *)
(* is in the files of exactly one shard, at exactly one place, for every   *)
(* number of shards.                                                       *)
THEOREM ShardsArePartition == SpecTargets => []ShardsPartition
<1>1. TargetsInv => ShardsPartition
  <2>1. SUFFICES ASSUME TargetsInv, pc = "prepared", NEW m \in ShardCounts
                 PROVE  LET files == [i \in 0 .. m - 1 |-> ShardEndpoints(ranges, i, m)]
                            places == UNION {{i} \X DOMAIN files[i] : i \in 0 .. m - 1}
                        IN  /\ {files[y[1]][y[2]] : y \in places} = Scope \X ToSet(Ports)
                            /\ Cardinality(places) = Cardinality(Scope) * Len(Ports)
    BY DEF ShardsPartition
  <2>2. m \in Nat \ {0} /\ ranges \in Blocks /\ Apart(ranges)
    BY <2>1, CountAssumption DEF TargetsInv, Spans
  <2>3. /\ {Files(m)[y[1]][y[2]] : y \in FilePlaces(m)} =
              ToSet(iter(ranges)) \X ToSet(Ports)
        /\ Cardinality(FilePlaces(m)) = Len(iter(ranges)) * Len(Ports)
    BY <2>2, ShardsExact
  <2>4. ToSet(iter(ranges)) = Scope /\ Cardinality(Scope) = Len(iter(ranges))
    BY <2>1, ScopeList
  <2>5. /\ {Files(m)[y[1]][y[2]] : y \in FilePlaces(m)} = Scope \X ToSet(Ports)
        /\ Cardinality(FilePlaces(m)) = Cardinality(Scope) * Len(Ports)
    BY <2>3, <2>4, Zenon
  <2> QED BY <2>5, Zenon DEF Files, FilePlaces
<1> QED BY <1>1, TargetsInvariant, PTL

-----------------------------------------------------------------------------
(* The lookup *)

(* the interval the binary search still considers, in a list of L *)
Interval(L) == {at \in [lo : 0 .. L, hi : 0 .. L] : at.lo <= at.hi}

LEMMA HalveCases ==
    ASSUME NEW L \in Nat, NEW at \in Interval(L), NEW eps, NEW ip
    PROVE  \/ at.lo = at.hi /\ Halve(eps, ip, at) = at
           \/ \E mid \in at.lo .. at.hi - 1 :
                 LET new == Halve(eps, ip, at)
                 IN  /\ new \in Interval(L)
                     /\ \/ eps[mid + 1][1] < ip /\ new.lo = mid + 1 /\ new.hi = at.hi
                        \/ ~(eps[mid + 1][1] < ip) /\ new.lo = at.lo /\ new.hi = mid
<1>0. PICK lo \in 0 .. L, hi \in 0 .. L : lo = at.lo /\ hi = at.hi /\ lo <= hi
  BY DEF Interval
<1>1. CASE lo = hi
  BY <1>0, <1>1 DEF Halve
<1>2. CASE lo < hi
  <2>1. PICK mid \in lo .. hi - 1 : mid = (lo + hi) \div 2
    <3>1. (lo + hi) \div 2 \in lo .. hi - 1
      BY <1>2
    <3> QED BY <3>1
  <2>2. PICK new : new = Halve(eps, ip, at)
    OBVIOUS
  <2>3. ~(at.lo >= at.hi) /\ (at.lo + at.hi) \div 2 = mid
    BY <1>0, <1>2, <2>1
  <2>4. CASE eps[mid + 1][1] < ip
    <3>1. new = [at EXCEPT !.lo = mid + 1]
      BY <2>2, <2>3, <2>4 DEF Halve
    <3>2. new.lo = mid + 1 /\ new.hi = hi /\ new \in Interval(L)
      BY <1>0, <3>1 DEF Interval
    <3> QED BY <1>0, <2>2, <2>4, <3>2
  <2>5. CASE ~(eps[mid + 1][1] < ip)
    <3>1. new = [at EXCEPT !.hi = mid]
      BY <2>2, <2>3, <2>5 DEF Halve
    <3>2. new.lo = lo /\ new.hi = mid /\ new \in Interval(L)
      BY <1>0, <3>1 DEF Interval
    <3> QED BY <1>0, <2>2, <2>5, <3>2
  <2> QED BY <2>4, <2>5
<1> QED BY <1>0, <1>1, <1>2

LEMMA HalveType ==
    ASSUME NEW L \in Nat, NEW at \in Interval(L), NEW eps, NEW ip
    PROVE  Halve(eps, ip, at) \in Interval(L)
BY HalveCases

LEMMA SearchUnfolds ==
    ASSUME NEW eps \in Seq(Endpoint), NEW ip
    PROVE  \E f :
              /\ lower_bound(eps, ip) = f[Len(eps)].lo
              /\ f[0] = [lo |-> 0, hi |-> Len(eps)]
              /\ \A k \in 0 .. Len(eps) : f[k] \in Interval(Len(eps))
              /\ \A k \in 1 .. Len(eps) : f[k] = Halve(eps, ip, f[k - 1])
<1>0. Len(eps) \in Nat
  BY LenProperties
<1>b. PICK A : A = Interval(Len(eps))
  OBVIOUS
<1>1. PICK whole \in A : whole = [lo |-> 0, hi |-> Len(eps)]
  <2>1. [lo |-> 0, hi |-> Len(eps)] \in Interval(Len(eps))
    BY <1>0 DEF Interval
  <2> QED BY <1>b, <2>1
<1> DEFINE top == Len(eps)
           Step(h, k) == IF k = 0 THEN whole ELSE Halve(eps, ip, h[k - 1])
           G == [k \in 1 .. top |-> [at \in Interval(top) |-> Halve(eps, ip, at)]]
           g == CHOOSE h : h = [k \in 0 .. top |-> Step(h, k)]
<1>2. lower_bound(eps, ip) = g[top].lo
  BY <1>1, Zenon DEF lower_bound
<1>a. top \in Nat
  BY <1>0
<1>c. A = Interval(top)
  BY <1>b
<1> HIDE DEF top
<1>d. ASSUME NEW at \in A PROVE Halve(eps, ip, at) \in A
  BY <1>a, <1>c, HalveType
<1>3. G \in [1 .. top -> [A -> A]]
  BY <1>c, <1>d
<1>4. PICK f \in [0 .. top -> A] :
         f[0] = whole /\ \A k \in 1 .. top : f[k] = G[k][f[k - 1]]
  <2>1. top \in Nat
    BY <1>a
  <2> HIDE DEF G
  <2>2. \E f \in [0 .. top -> A] : Loops(f, whole, G, top)
    BY <1>3, <2>1, LoopExists, Zenon
  <2> QED BY <2>2, Zenon DEF Loops
<1>5. f = [k \in 0 .. top |-> Step(f, k)]
  <2>1. ASSUME NEW k \in 0 .. top PROVE f[k] = Step(f, k)
    <3>1. CASE k # 0
      <4>1. k \in 1 .. top /\ k - 1 \in 0 .. top
        BY <1>a, <3>1
      <4>2. G[k][f[k - 1]] = Halve(eps, ip, f[k - 1])
        BY <1>c, <4>1
      <4> QED BY <1>4, <3>1, <4>1, <4>2
    <3> QED BY <1>4, <3>1
  <2> HIDE DEF Step
  <2> QED BY <2>1
<1>6. g = [k \in 0 .. top |-> Step(g, k)]
  BY <1>5, Zenon
<1> HIDE DEF g
<1>7. g[0] = whole /\ \A k \in 1 .. top : g[k] = Halve(eps, ip, g[k - 1])
  BY <1>a, <1>6
<1>8. \A k \in 0 .. top : g[k] \in A
  <2>1. g[0] \in A
    BY <1>7
  <2>2. ASSUME NEW k \in 1 .. top, g[k - 1] \in A PROVE g[k] \in A
    BY <1>d, <1>7, <2>2
  <2> QED BY <1>a, <2>1, <2>2, LoopTyped
<1> QED BY <1>1, <1>2, <1>b, <1>7, <1>8 DEF top

(* Every pass shortens the interval, and what is left of it is below the   *)
(* address, what is right of it is not.                                    *)
LEMMA SearchExact ==
    ASSUME NEW eps \in Seq(Endpoint), ByAddress(eps), NEW ip \in Nat
    PROVE  LET lo == lower_bound(eps, ip)
           IN  /\ lo \in 0 .. Len(eps)
               /\ \A i \in 1 .. lo : eps[i][1] < ip
               /\ \A i \in lo + 1 .. Len(eps) : ~(eps[i][1] < ip)
<1>0. Len(eps) \in Nat /\ \A i \in 1 .. Len(eps) : eps[i][1] \in Nat
  <2>1. \A i \in 1 .. Len(eps) : eps[i] \in Endpoint
    BY ElementOfSeq
  <2> QED BY <2>1, LenProperties DEF Endpoint
<1>1. PICK f :
         /\ lower_bound(eps, ip) = f[Len(eps)].lo
         /\ f[0] = [lo |-> 0, hi |-> Len(eps)]
         /\ \A k \in 0 .. Len(eps) : f[k] \in Interval(Len(eps))
         /\ \A k \in 1 .. Len(eps) : f[k] = Halve(eps, ip, f[k - 1])
  BY SearchUnfolds
<1> DEFINE Good(at, k) ==
              /\ \A i \in 1 .. at.lo : eps[i][1] < ip
              /\ \A i \in at.hi + 1 .. Len(eps) : ~(eps[i][1] < ip)
              /\ at.hi - at.lo <= Len(eps) - k
           T == {k \in 0 .. Len(eps) : Good(f[k], k)}
<1>2. 0 \in T
  <2>1. Good(f[0], 0)
    BY <1>0, <1>1
  <2> HIDE DEF Good
  <2> QED BY <1>0, <2>1
<1>3. ASSUME NEW k \in 0 .. Len(eps) - 1, k \in T PROVE k + 1 \in T
  <2>1. /\ k + 1 \in 1 .. Len(eps) /\ (k + 1) - 1 = k /\ k + 1 \in 0 .. Len(eps)
        /\ k \in 0 .. Len(eps)
    BY <1>0
  <2>2. PICK at, new : at = f[k] /\ new = f[k + 1]
    OBVIOUS
  <2>3. at \in Interval(Len(eps)) /\ new = Halve(eps, ip, at)
    BY <1>1, <2>1, <2>2
  <2>4. Good(at, k)
    BY <1>3, <2>2
  <2>5. /\ at.lo \in 0 .. Len(eps) /\ at.hi \in 0 .. Len(eps) /\ at.lo <= at.hi
    BY <2>3 DEF Interval
  <2>6. CASE at.lo = at.hi /\ new = at
    <3>1. Good(new, k + 1)
      BY <1>0, <2>1, <2>4, <2>5, <2>6
    <3> HIDE DEF Good
    <3> QED BY <2>1, <2>2, <3>1
  <2>7. ASSUME NEW mid \in at.lo .. at.hi - 1, eps[mid + 1][1] < ip,
               new.lo = mid + 1, new.hi = at.hi
        PROVE  k + 1 \in T
    <3>0. mid + 1 \in 1 .. Len(eps)
      BY <1>0, <2>5
    <3>1. ASSUME NEW i \in 1 .. mid + 1 PROVE eps[i][1] < ip
      <4>1. i \in 1 .. Len(eps) /\ i <= mid + 1
        BY <1>0, <3>0
      <4>2. eps[i][1] <= eps[mid + 1][1]
        BY <3>0, <4>1 DEF ByAddress
      <4> QED BY <1>0, <2>7, <3>0, <4>1, <4>2
    <3>2. new.hi - new.lo <= Len(eps) - (k + 1)
      BY <1>0, <2>1, <2>4, <2>5, <2>7
    <3>3. Good(new, k + 1)
      BY <2>4, <2>7, <3>1, <3>2
    <3> HIDE DEF Good
    <3> QED BY <2>1, <2>2, <3>3
  <2>8. ASSUME NEW mid \in at.lo .. at.hi - 1, ~(eps[mid + 1][1] < ip),
               new.lo = at.lo, new.hi = mid
        PROVE  k + 1 \in T
    <3>0. mid + 1 \in 1 .. Len(eps)
      BY <1>0, <2>5
    <3>1. ASSUME NEW i \in mid + 1 .. Len(eps) PROVE ~(eps[i][1] < ip)
      <4>1. i \in 1 .. Len(eps) /\ mid + 1 <= i
        BY <1>0, <3>0
      <4>2. eps[mid + 1][1] <= eps[i][1]
        BY <3>0, <4>1 DEF ByAddress
      <4> QED BY <1>0, <2>8, <3>0, <4>1, <4>2
    <3>2. new.hi - new.lo <= Len(eps) - (k + 1)
      BY <1>0, <2>1, <2>4, <2>5, <2>8
    <3>3. Good(new, k + 1)
      BY <2>4, <2>8, <3>1, <3>2
    <3> HIDE DEF Good
    <3> QED BY <2>1, <2>2, <3>3
  <2> HIDE DEF T
  <2> QED BY <1>0, <2>3, <2>6, <2>7, <2>8, HalveCases
<1>4. Good(f[Len(eps)], Len(eps))
  <2>1. \A k \in 0 .. Len(eps) : k \in T
    <3> HIDE DEF T
    <3> QED BY <1>0, <1>2, <1>3, Passes
  <2>2. Len(eps) \in T
    <3> HIDE DEF T
    <3> QED BY <1>0, <2>1
  <2> HIDE DEF Good
  <2> QED BY <2>2
<1>5. PICK at : at = f[Len(eps)]
  OBVIOUS
<1>6. at.lo \in 0 .. Len(eps) /\ at.hi \in 0 .. Len(eps) /\ at.lo <= at.hi
  BY <1>0, <1>1, <1>5 DEF Interval
<1>7. at.hi - at.lo <= Len(eps) - Len(eps)
  BY <1>4, <1>5
<1>8. at.lo = at.hi
  BY <1>0, <1>6, <1>7
<1> QED BY <1>1, <1>4, <1>5, <1>6, <1>8

LEMMA IndexExact ==
    ASSUME NEW eps \in Seq(Endpoint), ByAddress(eps), NEW ip \in Nat, NEW port
    PROVE  LET i == endpoint_index(eps, ip, port)
           IN  IF <<ip, port>> \in ToSet(eps)
               THEN i \in DOMAIN eps /\ eps[i] = <<ip, port>>
               ELSE i = 0
<1>0. /\ Len(eps) \in Nat /\ DOMAIN eps = 1 .. Len(eps)
      /\ \A i \in 1 .. Len(eps) : eps[i][1] \in Nat /\ eps[i] = <<eps[i][1], eps[i][2]>>
  <2>1. \A i \in 1 .. Len(eps) : eps[i] \in Endpoint
    BY ElementOfSeq
  <2> QED BY <2>1, LenProperties DEF Endpoint
<1>1. PICK lo \in 0 .. Len(eps) :
         /\ lo = lower_bound(eps, ip)
         /\ \A i \in 1 .. lo : eps[i][1] < ip
         /\ \A i \in lo + 1 .. Len(eps) : ~(eps[i][1] < ip)
  BY SearchExact
<1> DEFINE hits == {i \in lo + 1 .. Len(eps) :
                       /\ \A k \in lo + 1 .. i : eps[k][1] = ip
                       /\ eps[i][2] = port}
<1>2. endpoint_index(eps, ip, port) =
         IF hits = {} THEN 0 ELSE CHOOSE i \in hits : \A k \in hits : i <= k
  BY <1>1 DEF endpoint_index
<1>3. ASSUME NEW i \in hits PROVE i \in 1 .. Len(eps) /\ eps[i] = <<ip, port>>
  <2>1. i \in 1 .. Len(eps) /\ i \in lo + 1 .. i
    BY <1>0, <1>1
  <2>2. eps[i][1] = ip /\ eps[i][2] = port
    BY <2>1
  <2> QED BY <1>0, <2>1, <2>2
<1>4. CASE <<ip, port>> \in ToSet(eps)
  <2>1. PICK i \in 1 .. Len(eps) : eps[i] = <<ip, port>>
    BY <1>0, <1>4 DEF ToSet
  <2>2. eps[i][1] = ip /\ eps[i][2] = port
    BY <2>1
  <2>3. i \in lo + 1 .. Len(eps)
    BY <1>0, <1>1, <2>2
  <2>4. ASSUME NEW k \in lo + 1 .. i PROVE eps[k][1] = ip
    <3>1. k \in 1 .. Len(eps) /\ k <= i /\ k \in lo + 1 .. Len(eps)
      BY <1>0, <1>1
    <3>2. eps[k][1] <= ip /\ ~(eps[k][1] < ip) /\ eps[k][1] \in Nat
      BY <1>0, <1>1, <2>2, <3>1 DEF ByAddress
    <3> QED BY <3>2
  <2>5. i \in hits
    BY <2>2, <2>3, <2>4
  <2>6. hits \in SUBSET Nat /\ hits # {}
    <3> HIDE DEF hits
    <3> QED BY <1>0, <1>3, <2>5
  <2> HIDE DEF hits
  <2>7. \E j \in hits : \A k \in hits : j <= k
    BY <2>6, Least
  <2>8. endpoint_index(eps, ip, port) \in hits
    BY <1>2, <2>6, <2>7
  <2> QED BY <1>0, <1>3, <1>4, <2>8
<1>5. CASE <<ip, port>> \notin ToSet(eps)
  <2>1. hits = {}
    BY <1>0, <1>3, <1>5 DEF ToSet
  <2> QED BY <1>2, <1>5, <2>1
<1> QED BY <1>4, <1>5

(* A reply or an old event is applied to its own endpoint or to none: in   *)
(* every shard's files, endpoint_index and find_index find a pair exactly  *)
(* when it is there.                                                       *)
THEOREM LookupIsExact == SpecTargets => []LookupExact
<1>1. TargetsInv => LookupExact
  <2>1. SUFFICES ASSUME TargetsInv, pc = "created", NEW a \in Address, NEW p \in AllPorts
                 PROVE  LET i == endpoint_index(endpoints, a, p)
                        IN  IF <<a, p>> \in ToSet(endpoints)
                            THEN i \in DOMAIN endpoints /\ endpoints[i] = <<a, p>>
                            ELSE i = 0
    BY DEF LookupExact
  <2>2. PICK m \in Nat \ {0}, i \in Nat : endpoints = ShardEndpoints(ranges, i, m)
    BY <2>1 DEF TargetsInv
  <2>3. ranges \in Blocks /\ Apart(ranges)
    BY <2>1 DEF TargetsInv, Spans
  <2>4. endpoints \in Seq(Endpoint) /\ ByAddress(endpoints)
    BY <2>2, <2>3, ShardList
  <2>5. a \in Nat
    BY AddressAssumption DEF Address, Addresses
  <2> QED BY <2>4, <2>5, IndexExact
<1> QED BY <1>1, TargetsInvariant, PTL
=============================================================================
