--------------------------- MODULE LimiterProofs ---------------------------
(* Theorems about Limiter, for any number of tasks, any burst and any set  *)
(* of rates.                                                               *)
EXTENDS Limiter, FiniteSets, TLAPS, FiniteSetTheorems

(* The bucket's half of TypeOK, which needs nothing of the callers *)
BucketType ==
    /\ now \in Nat
    /\ credit \in 0 .. Burst /\ last \in Nat
    /\ cost \in Nat \ {0}
    /\ file \in Costs \cup {None}
    /\ granted \in Nat
    /\ mark \in [granted : Nat, last : Nat]

(* What the bucket still holds belongs to the budget too: without it a     *)
(* full bucket could be spent twice.                                       *)
BudgetInv ==
    /\ BucketType
    /\ granted + credit + mark.last <= mark.granted + last + Burst

(* One reservation, whatever the clock and the file say. *)
LEMMA ReserveKeeps ==
    ASSUME BudgetInv, reserve, UNCHANGED <<now, file>>
    PROVE  BudgetInv' /\ last' >= last /\ last' >= now
<1>. USE RateAssumption DEF BudgetInv, BucketType
<1>1. PICK c : c = cost'
  OBVIOUS
<1>2. c \in Nat \ {0}
  <2>1. cost' = cost \/ (file # None /\ cost' = file)
    BY DEF reserve, reload_if_due
  <2>. QED
    BY <1>1, <2>1
<1>3. /\ accounted \in Nat /\ accounted >= last /\ accounted >= now
      /\ refilled \in 0 .. Burst
      /\ refilled <= credit + (accounted - last)
  BY DEF accounted, refilled, Larger, Smaller
<1>4. consume_at(c) /\ granted' = granted + c
  BY <1>1 DEF reserve
<1>5. /\ credit' \in 0 .. Burst /\ last' \in Nat
      /\ last' >= last /\ last' >= now
      /\ c + credit' + last <= credit + last'
  BY <1>2, <1>3, <1>4 DEF consume_at
<1>6. PICK g, k, l \in Nat : g = granted' /\ k = credit' /\ l = last'
  BY <1>2, <1>4, <1>5
<1>7. k <= Burst /\ g = granted + c /\ c + k + last <= credit + l
  BY <1>4, <1>5, <1>6
<1>8. mark' = mark \/ mark' = [granted |-> g, last |-> l]
  BY <1>6 DEF reserve
<1>9. mark' \in [granted : Nat, last : Nat]
  BY <1>6, <1>8
<1>10. PICK mg, ml \in Nat : mg = mark.granted /\ ml = mark.last
  OBVIOUS
<1>11. g + k + ml <= mg + l + Burst
  <2>1. granted + credit + ml <= mg + last + Burst
    BY <1>10
  <2>2. credit \in Nat /\ last \in Nat /\ granted \in Nat /\ Burst \in Nat
    OBVIOUS
  <2>. QED
    BY <1>2, <1>7, <2>1, <2>2
<1>12. g + k + mark'.last <= mark'.granted + l + Burst
  <2>1. CASE mark' = mark
    BY <1>10, <1>11, <2>1
  <2>2. CASE mark' = [granted |-> g, last |-> l]
    <3>1. mark'.last = l /\ mark'.granted = g
      BY <2>2
    <3>2. g + k + l <= g + l + Burst
      BY <1>7
    <3>. QED
      BY <3>1, <3>2
  <2>. QED
    BY <1>8, <2>1, <2>2
<1>. QED
  BY <1>1, <1>2, <1>5, <1>6, <1>9, <1>12

(* Every step is a reservation or leaves the bucket alone. *)
LEMMA BudgetStep ==
    ASSUME BudgetInv, [Next]_vars
    PROVE  /\ BudgetInv' /\ last' >= last
           /\ granted' # granted => last' >= now
<1>1. CASE reserve /\ UNCHANGED <<now, file>>
  BY <1>1, ReserveKeeps
<1>2. CASE /\ UNCHANGED bucket
           /\ now' = now \/ now' = now + 1
           /\ file' = file \/ file' \in Costs \cup {None}
  BY <1>2 DEF BudgetInv, BucketType, bucket
<1>. QED
  BY <1>1, <1>2
  DEF Next, BatchStart, ScannerReserve, ScannerSleep, ScannerWake,
      ScannerGranted, ScannerRefused, BatchReady, SendBatch, TaskReserve,
      TaskConnect, TaskAbort, Tick, Stop, Rewrite, vars

LEMMA BudgetInit == Init => BudgetInv
  BY RateAssumption DEF Init, BudgetInv, BucketType

(* BudgetInv holds after every step of scanner, tasks, clock and operator  *)
(* (SharedBandwidthLimiter::reserve).                                      *)
THEOREM BudgetInductive == Spec => []BudgetInv
<1>1. BudgetInv /\ [Next]_vars => BudgetInv'
  BY BudgetStep
<1>. QED
  BY <1>1, BudgetInit, PTL DEF Spec

(* In every window between two reservations no more is reserved than the   *)
(* time that passes plus one burst, across changes of the rate             *)
(* (TokenBucket::consume_at, set_rate_at).                                 *)
THEOREM BudgetIsKept == Spec => []ReservedWithinBudget
<1>1. BudgetInv => ReservedWithinBudget
  BY RateAssumption DEF BudgetInv, BucketType, ReservedWithinBudget
<1>. QED
  BY <1>1, BudgetInductive, PTL

(* Reservations end in the order they were made, and never in the past     *)
(* (TokenBucket::consume_at).                                              *)
THEOREM OrderIsKept == Spec => ReservedInOrder
<1>. DEFINE InOrder == last' >= last /\ (granted' # granted => last' >= now)
<1>1. BudgetInv /\ [Next]_vars => [InOrder]_vars
  BY BudgetStep
<1>2. [][InOrder]_vars => ReservedInOrder
  BY PTL DEF ReservedInOrder
<1>. QED
  BY <1>1, <1>2, BudgetInductive, PTL DEF Spec
-----------------------------------------------------------------------------
(* The callers: what waits has a time to wake up at, and the batch is not  *)
(* larger than BatchMax.                                                   *)

CallersOK ==
    /\ spc = "sleep" => wake \in Nat
    /\ spc \in {"wait", "sleep"} => count < BatchMax

TypeInv == TypeOK /\ CallersOK

(* A reservation keeps the bucket's types and ends now or later. *)
LEMMA ReserveTypes ==
    ASSUME TypeInv, reserve, UNCHANGED <<now, file>>
    PROVE  /\ credit' \in 0 .. Burst /\ last' \in Nat /\ last' >= now
           /\ cost' \in Costs /\ reload' \in Time \cup {None}
           /\ granted' \in Nat /\ mark' \in [granted : Nat, last : Nat]
<1>. USE RateAssumption DEF TypeInv, TypeOK, Time
<1>1. cost' \in Costs /\ reload' \in Time \cup {None}
  BY DEF reserve, reload_if_due
<1>2. PICK c \in Costs : c = cost'
  BY <1>1
<1>3. /\ accounted \in Nat /\ accounted >= now
      /\ refilled \in 0 .. Burst
  BY DEF accounted, refilled, Larger, Smaller
<1>4. consume_at(c) /\ granted' = granted + c
  BY <1>2 DEF reserve
<1>5. credit' \in 0 .. Burst /\ last' \in Nat /\ last' >= now
  BY <1>3, <1>4 DEF consume_at
<1>6. granted' \in Nat
  BY <1>4
<1>7. mark' \in [granted : Nat, last : Nat]
  BY <1>5, <1>6 DEF reserve
<1>. QED
  BY <1>1, <1>5, <1>6, <1>7

LEMMA TypeStep == TypeInv /\ [Next]_vars => TypeInv'
<1>. SUFFICES ASSUME TypeInv, [Next]_vars PROVE TypeInv'
  OBVIOUS
<1>. USE RateAssumption DEF TypeInv, TypeOK, CallersOK
<1>1. CASE BatchStart \/ BatchReady
  BY <1>1 DEF BatchStart, BatchReady, bucket, tasks
<1>2. CASE ScannerReserve
  <2>1. reserve /\ UNCHANGED <<now, file>>
    BY <1>2 DEF ScannerReserve
  <2>2. last' - now \in Nat
    BY <2>1, ReserveTypes DEF Time
  <2>. QED
    BY <1>2, <2>1, <2>2, ReserveTypes DEF ScannerReserve, tasks
<1>3. CASE ScannerSleep
  <2>1. Smaller(remaining, MaxSleep) \in 0 .. remaining
    BY DEF Smaller
  <2>2. /\ now + Smaller(remaining, MaxSleep) \in Nat
        /\ remaining - Smaller(remaining, MaxSleep) \in Nat
    BY <2>1 DEF Time
  <2>. QED
    BY <1>3, <2>2 DEF ScannerSleep, bucket, tasks
<1>4. CASE ScannerWake
  BY <1>4 DEF ScannerWake, bucket, tasks
<1>5. CASE ScannerGranted
  BY <1>5 DEF ScannerGranted, bucket, tasks
<1>6. CASE ScannerRefused
  BY <1>6 DEF ScannerRefused, bucket, tasks
<1>7. CASE SendBatch
  BY <1>7 DEF SendBatch, bucket, tasks
<1>8. ASSUME NEW t \in Task, TaskReserve(t) PROVE TypeInv'
  <2>1. reserve /\ UNCHANGED <<now, file>>
    BY <1>8 DEF TaskReserve
  <2>2. cost' \in Nat
    BY <2>1, ReserveTypes
  <2>. QED
    BY <1>8, <2>1, <2>2, ReserveTypes DEF TaskReserve, scanner
<1>9. ASSUME NEW t \in Task, TaskConnect(t) \/ TaskAbort(t) PROVE TypeInv'
  BY <1>9 DEF TaskConnect, TaskAbort, bucket, scanner
<1>10. CASE Tick
  BY <1>10 DEF Tick, bucket, scanner, tasks, Time
<1>11. CASE Stop \/ Rewrite
  BY <1>11 DEF Stop, Rewrite, bucket, scanner, tasks
<1>12. CASE UNCHANGED vars
  BY <1>12 DEF vars, bucket, scanner, tasks
<1>. QED
  BY <1>1, <1>2, <1>3, <1>4, <1>5, <1>6, <1>7, <1>8, <1>9, <1>10, <1>11,
     <1>12 DEF Next

(* TypeInv holds in every state (prepare_syn_batch, consume).              *)
THEOREM TypeInductive == Spec => []TypeInv
<1>1. ASSUME Init PROVE TypeInv
  <2>1. /\ tpc \in [Task -> {"idle", "wait", "gone"}]
        /\ tdue \in [Task -> Nat] /\ twake \in [Task -> Nat \cup {None}]
    BY <1>1 DEF Init
  <2>2. stopping \in BOOLEAN
    BY <1>1, Zenon DEF Init
  <2>3. mark \in [granted : Nat, last : Nat]
    BY <1>1 DEF Init
  <2>. QED
    BY <1>1, <2>1, <2>2, <2>3, RateAssumption
    DEF Init, TypeInv, TypeOK, CallersOK, Time
<1>. QED
  BY <1>1, TypeStep, PTL DEF Spec

(* Bucket, scanner and tasks keep their types: the bucket holds a burst at *)
(* most and no batch is larger than allowed (TokenBucket::consume_at,      *)
(* prepare_syn_batch).                                                     *)
THEOREM TypeCorrect == Spec => []TypeOK
<1>1. TypeInv => TypeOK
  BY DEF TypeInv
<1>. QED
  BY <1>1, TypeInductive, PTL

-----------------------------------------------------------------------------
(* What goes out.  Number the units of all reservations in the order they  *)
(* were made: a caller that waits owns the units of its reservation until  *)
(* they go out or are given up.  No unit has two owners, and a unit that   *)
(* went out lies below the time passed plus one burst, because its owner   *)
(* woke no earlier than its reservation ended.                             *)

Below(S, n) == \A x \in S : x < n

Sized(S, n) == IsFiniteSet(S) /\ Cardinality(S) = n

(* the time the scanner's wait ends, at the earliest *)
ScannerEnd == IF spc = "sleep" THEN wake + remaining ELSE now + remaining

(* the owners: gone out, in the batch, waited for by the scanner, by tasks *)
Sizes(U, B, D, W) ==
    /\ Sized(U, sent) /\ Sized(B, load) /\ Sized(D, due)
    /\ \A t \in Task : Sized(W[t], tdue[t])

Disjoint(U, B, D, W) ==
    /\ U \cap B = {} /\ U \cap D = {} /\ B \cap D = {}
    /\ \A t \in Task : (U \cup B \cup D) \cap W[t] = {}
    /\ \A s, t \in Task : s # t => W[s] \cap W[t] = {}

Reserved(U, B, D, W) ==
    /\ Below(U \cup B \cup D, granted)
    /\ \A t \in Task : Below(W[t], granted)

InTime(U, B, D, W) ==
    /\ Below(U \cup B, now + Burst)
    /\ Below(D, ScannerEnd + Burst)
    /\ \A t \in Task : tpc[t] = "wait" =>
           twake[t] \in Nat /\ Below(W[t], twake[t] + Burst)

Ledger(U, B, D, W) ==
    Sizes(U, B, D, W) /\ Disjoint(U, B, D, W) /\ Reserved(U, B, D, W)
    /\ InTime(U, B, D, W)

Owners == [Task -> SUBSET Nat]

SentInv ==
    /\ granted + credit <= last + Burst
    /\ \E U, B, D \in SUBSET Nat, W \in Owners : Ledger(U, B, D, W)

LEMMA EmptySized == Sized({}, 0)
  BY FS_EmptySet DEF Sized

(* The units of a new reservation *)
LEMMA IntervalSized ==
    ASSUME NEW g \in Nat, NEW c \in Nat
    PROVE  Sized(g .. g + c - 1, c)
<1>1. g + c - 1 \in Int /\ g \in Int
  OBVIOUS
<1>2. /\ IsFiniteSet(g .. g + c - 1)
      /\ Cardinality(g .. g + c - 1)
           = IF g > g + c - 1 THEN 0 ELSE (g + c - 1) - g + 1
  BY <1>1, FS_Interval
<1>. QED
  BY <1>2 DEF Sized

LEMMA IntervalUnits ==
    ASSUME NEW g \in Nat, NEW c \in Nat
    PROVE  \E E \in SUBSET Nat :
             Sized(E, c) /\ \A x \in E : x >= g /\ x < g + c
<1>1. g .. g + c - 1 \in SUBSET Nat
  OBVIOUS
<1>2. \A x \in g .. g + c - 1 : x >= g /\ x < g + c
  OBVIOUS
<1>. QED
  BY <1>1, <1>2, IntervalSized

(* Units that change hands add up. *)
LEMMA UnionSized ==
    ASSUME NEW S, NEW T, NEW m \in Nat, NEW n \in Nat,
           Sized(S, m), Sized(T, n), S \cap T = {}
    PROVE  Sized(S \cup T, m + n)
<1>1. /\ IsFiniteSet(S \cup T)
      /\ Cardinality(S \cup T)
           = Cardinality(S) + Cardinality(T) - Cardinality(S \cap T)
  BY FS_Union DEF Sized
<1>2. Cardinality(S \cap T) = 0
  BY FS_EmptySet
<1>. QED
  BY <1>1, <1>2 DEF Sized

(* A reservation takes the next units, which end within its budget. *)
LEMMA ReserveUnits ==
    ASSUME TypeInv, granted + credit <= last + Burst, reserve,
           UNCHANGED <<now, file>>
    PROVE  /\ cost' \in Nat /\ granted' = granted + cost'
           /\ last' \in Nat /\ last' >= now /\ granted' <= last' + Burst
           /\ granted' + credit' <= last' + Burst
<1>. USE RateAssumption
<1>t. /\ now \in Nat /\ credit \in 0 .. Burst /\ last \in Nat
      /\ granted \in Nat
  BY DEF TypeInv, TypeOK, Time
<1>1. cost' \in Costs /\ last' \in Nat /\ last' >= now /\ credit' \in 0 .. Burst
  BY ReserveTypes
<1>2. PICK c \in Nat : c = cost'
  BY <1>1
<1>3. /\ accounted \in Nat /\ accounted >= last
      /\ refilled \in 0 .. Burst
      /\ refilled <= credit + (accounted - last)
  BY <1>t DEF accounted, refilled, Larger, Smaller
<1>4. consume_at(c) /\ granted' = granted + c
  BY <1>2 DEF reserve
<1>5. c + credit' + last <= credit + last'
  BY <1>t, <1>3, <1>4 DEF consume_at
<1>6. PICK k, l \in Nat : k = credit' /\ l = last'
  BY <1>1
<1>7. granted + c + k <= l + Burst
  <2>1. c + k + last <= credit + l
    BY <1>5, <1>6
  <2>2. credit \in Nat /\ Burst \in Nat
    BY <1>t
  <2>. QED
    BY <1>t, <2>1, <2>2
<1>8. granted + c <= l + Burst
  BY <1>t, <1>7
<1>. QED
  BY <1>1, <1>2, <1>4, <1>6, <1>7, <1>8

(* The scanner reserves for one more SYN. *)
LEMMA ScannerReserveLedger ==
    ASSUME TypeInv, SentInv, ScannerReserve
    PROVE  SentInv'
<1>. USE RateAssumption
<1>t. /\ now \in Nat /\ granted \in Nat /\ credit \in Nat
  BY DEF TypeInv, TypeOK, Time
<1>1. /\ cost' \in Nat /\ granted' = granted + cost'
      /\ last' \in Nat /\ last' >= now /\ granted' <= last' + Burst
      /\ granted' + credit' <= last' + Burst
  BY ReserveUnits DEF ScannerReserve, SentInv
<1>2. PICK U, B, D \in SUBSET Nat, W \in Owners : Ledger(U, B, D, W)
  BY DEF SentInv
<1>3. PICK c, l \in Nat : c = cost' /\ l = last'
  BY <1>1
<1>4. PICK E \in SUBSET Nat :
        Sized(E, c) /\ \A x \in E : x >= granted /\ x < granted + c
  BY <1>t, IntervalUnits
<1>5. /\ due' = c /\ remaining' = l - now /\ spc' = "wait" /\ granted' = granted + c
      /\ UNCHANGED <<now, load, tasks, sent>>
  BY <1>1, <1>3 DEF ScannerReserve
<1>6. Sizes(U, B, E, W)'
  BY <1>2, <1>4, <1>5 DEF Ledger, Sizes, tasks
<1>7. Disjoint(U, B, E, W)'
  <2>1. \A x \in U \cup B : x \notin E
    BY <1>2, <1>4, <1>t DEF Ledger, Reserved, Below
  <2>2. \A t \in Task : \A x \in W[t] : x \notin E
    BY <1>2, <1>4, <1>t DEF Ledger, Reserved, Below, Owners
  <2>. QED
    BY <1>2, <2>1, <2>2 DEF Ledger, Disjoint
<1>8. Reserved(U, B, E, W)'
  <2>1. ASSUME NEW x \in U \cup B \cup E PROVE x < granted + c
    <3>1. CASE x \in E
      BY <1>4, <3>1
    <3>2. CASE x \in U \cup B
      <4>1. x \in Nat /\ x < granted
        BY <1>2, <3>2 DEF Ledger, Reserved, Below
      <4>. QED
        BY <1>t, <4>1
    <3>. QED
      BY <3>1, <3>2
  <2>2. ASSUME NEW t \in Task, NEW x \in W[t] PROVE x < granted + c
    <3>1. x \in Nat /\ x < granted
      BY <1>2 DEF Ledger, Reserved, Below, Owners
    <3>. QED
      BY <1>t, <3>1
  <2>. QED
    BY <1>5, <2>1, <2>2 DEF Reserved, Below
<1>9. InTime(U, B, E, W)'
  <2>1. ScannerEnd' = l
    <3>1. ScannerEnd' = now + (l - now)
      BY <1>5 DEF ScannerEnd
    <3>. QED
      BY <1>t, <3>1
  <2>2. Below(E, l + Burst)
    <3>1. granted + c <= l + Burst
      BY <1>1, <1>3
    <3>. QED
      BY <1>t, <1>4, <3>1 DEF Below
  <2>. QED
    BY <1>2, <1>5, <2>1, <2>2 DEF Ledger, InTime, tasks
<1>. QED
  BY <1>1, <1>2, <1>4, <1>6, <1>7, <1>8, <1>9 DEF SentInv, Ledger

(* A task reserves before it connects. *)
LEMMA TaskReserveLedger ==
    ASSUME TypeInv, SentInv, NEW s \in Task, TaskReserve(s)
    PROVE  SentInv'
<1>. USE RateAssumption
<1>t. /\ now \in Nat /\ granted \in Nat /\ credit \in Nat
      /\ tpc \in [Task -> {"idle", "wait", "gone"}]
      /\ tdue \in [Task -> Nat] /\ twake \in [Task -> Nat \cup {None}]
  BY DEF TypeInv, TypeOK, Time
<1>1. /\ cost' \in Nat /\ granted' = granted + cost'
      /\ last' \in Nat /\ granted' <= last' + Burst
      /\ granted' + credit' <= last' + Burst
  BY ReserveUnits DEF TaskReserve, SentInv
<1>2. PICK U, B, D \in SUBSET Nat, W \in Owners : Ledger(U, B, D, W)
  BY DEF SentInv
<1>3. PICK c, l \in Nat : c = cost' /\ l = last'
  BY <1>1
<1>4. PICK E \in SUBSET Nat :
        Sized(E, c) /\ \A x \in E : x >= granted /\ x < granted + c
  BY <1>t, IntervalUnits
<1>5. PICK V \in Owners : V[s] = E /\ \A t \in Task : t # s => V[t] = W[t]
  <2>1. [W EXCEPT ![s] = E] \in Owners
    BY DEF Owners
  <2>. QED
    BY <2>1 DEF Owners
<1>6. /\ tdue'[s] = c /\ twake'[s] = l /\ granted' = granted + c
      /\ \A t \in Task : t # s => /\ tdue'[t] = tdue[t] /\ twake'[t] = twake[t]
                                  /\ tpc'[t] = tpc[t]
      /\ UNCHANGED <<now, scanner, sent>>
  BY <1>t, <1>1, <1>3 DEF TaskReserve
<1>7. Sizes(U, B, D, V)'
  BY <1>2, <1>4, <1>5, <1>6 DEF Ledger, Sizes, scanner
<1>8. Disjoint(U, B, D, V)'
  <2>1. \A x \in U \cup B \cup D : x \notin E
    BY <1>2, <1>4, <1>t DEF Ledger, Reserved, Below
  <2>2. \A t \in Task : \A x \in W[t] : x \notin E
    BY <1>2, <1>4, <1>t DEF Ledger, Reserved, Below, Owners
  <2>3. \A t \in Task : (U \cup B \cup D) \cap V[t] = {}
    BY <1>2, <1>5, <2>1 DEF Ledger, Disjoint
  <2>4. \A r, t \in Task : r # t => V[r] \cap V[t] = {}
    BY <1>2, <1>5, <2>2 DEF Ledger, Disjoint
  <2>. QED
    BY <1>2, <2>3, <2>4 DEF Ledger, Disjoint
<1>9. Reserved(U, B, D, V)'
  <2>1. ASSUME NEW x \in U \cup B \cup D PROVE x < granted + c
    <3>1. x \in Nat /\ x < granted
      BY <1>2 DEF Ledger, Reserved, Below
    <3>. QED
      BY <1>t, <3>1
  <2>2. ASSUME NEW t \in Task, NEW x \in W[t] PROVE x < granted + c
    <3>1. x \in Nat /\ x < granted
      BY <1>2 DEF Ledger, Reserved, Below, Owners
    <3>. QED
      BY <1>t, <3>1
  <2>. QED
    BY <1>4, <1>5, <1>6, <2>1, <2>2 DEF Reserved, Below
<1>10. InTime(U, B, D, V)'
  <2>1. ScannerEnd' = ScannerEnd
    BY <1>6 DEF ScannerEnd, scanner
  <2>2. Below(E, l + Burst)
    <3>1. granted + c <= l + Burst
      BY <1>1, <1>3
    <3>. QED
      BY <1>t, <1>4, <3>1 DEF Below
  <2>. QED
    BY <1>2, <1>5, <1>6, <2>1, <2>2 DEF Ledger, InTime
<1>. QED
  BY <1>1, <1>2, <1>5, <1>7, <1>8, <1>9, <1>10 DEF SentInv, Ledger

(* A task connects or is aborted: its units go out or are given up. *)
LEMMA TaskEndsLedger ==
    ASSUME TypeInv, SentInv, NEW s \in Task, TaskConnect(s) \/ TaskAbort(s)
    PROVE  SentInv'
<1>. USE RateAssumption
<1>t. /\ now \in Nat /\ sent \in Nat
      /\ tpc \in [Task -> {"idle", "wait", "gone"}]
      /\ tdue \in [Task -> Nat] /\ twake \in [Task -> Nat \cup {None}]
  BY DEF TypeInv, TypeOK, Time
<1>2. PICK U, B, D \in SUBSET Nat, W \in Owners : Ledger(U, B, D, W)
  BY DEF SentInv
<1>1. PICK X \in SUBSET Nat :
        X = IF TaskConnect(s) THEN U \cup W[s] ELSE U
  BY DEF Owners
<1>3. PICK V \in Owners : V[s] = {} /\ \A t \in Task : t # s => V[t] = W[t]
  <2>1. [W EXCEPT ![s] = {}] \in Owners
    BY DEF Owners
  <2>. QED
    BY <2>1 DEF Owners
<1>4. /\ tdue'[s] = 0 /\ tpc'[s] # "wait"
      /\ \A t \in Task : t # s => /\ tdue'[t] = tdue[t] /\ twake'[t] = twake[t]
                                  /\ tpc'[t] = tpc[t]
      /\ UNCHANGED <<now, scanner, granted, credit, last>>
  BY <1>t DEF TaskConnect, TaskAbort, bucket
<1>5. X \subseteq U \cup W[s] /\ U \subseteq X
  BY <1>1
<1>6. Sized(X, sent')
  <2>1. CASE TaskConnect(s)
    <3>1. Sized(U, sent) /\ Sized(W[s], tdue[s]) /\ U \cap W[s] = {}
      BY <1>2 DEF Ledger, Sizes, Disjoint
    <3>2. Sized(U \cup W[s], sent + tdue[s])
      BY <1>t, <3>1, UnionSized
    <3>. QED
      BY <1>1, <2>1, <3>2 DEF TaskConnect
  <2>2. CASE ~TaskConnect(s)
    BY <1>1, <1>2, <2>2 DEF TaskAbort, Ledger, Sizes
  <2>. QED
    BY <2>1, <2>2
<1>7. Below(X \cup B, now + Burst)
  <2>1. CASE TaskConnect(s)
    <3>1. /\ twake[s] \in Nat /\ Below(W[s], twake[s] + Burst)
          /\ now >= twake[s]
      BY <1>2, <2>1 DEF TaskConnect, Ledger, InTime
    <3>2. \A x \in W[s] : x < now + Burst
      BY <1>t, <3>1 DEF Below, Owners
    <3>. QED
      BY <1>2, <1>5, <3>2 DEF Ledger, InTime, Below
  <2>2. CASE ~TaskConnect(s)
    BY <1>1, <1>2, <2>2 DEF Ledger, InTime
  <2>. QED
    BY <2>1, <2>2
<1>8. Sizes(X, B, D, V)'
  BY <1>2, <1>3, <1>4, <1>6, EmptySized DEF Ledger, Sizes, scanner
<1>9. Disjoint(X, B, D, V)'
  <2>1. X \cap B = {} /\ X \cap D = {}
    BY <1>2, <1>5 DEF Ledger, Disjoint
  <2>2. \A t \in Task : t # s => (X \cup B \cup D) \cap W[t] = {}
    BY <1>2, <1>5 DEF Ledger, Disjoint
  <2>3. \A t \in Task : (X \cup B \cup D) \cap V[t] = {}
    BY <1>3, <2>2
  <2>4. \A r, t \in Task : r # t => V[r] \cap V[t] = {}
    BY <1>2, <1>3 DEF Ledger, Disjoint
  <2>. QED
    BY <1>2, <2>1, <2>3, <2>4 DEF Ledger, Disjoint
<1>10. Reserved(X, B, D, V)'
  BY <1>2, <1>3, <1>4, <1>5 DEF Ledger, Reserved, Below
<1>11. InTime(X, B, D, V)'
  <2>1. ScannerEnd' = ScannerEnd
    BY <1>4 DEF ScannerEnd, scanner
  <2>. QED
    BY <1>2, <1>3, <1>4, <1>7, <2>1 DEF Ledger, InTime
<1>. QED
  BY <1>2, <1>3, <1>4, <1>5, <1>8, <1>9, <1>10, <1>11 DEF SentInv, Ledger

(* The scanner's units join the batch, are refused, or go out with it. *)
LEMMA BatchLedger ==
    ASSUME TypeInv, SentInv, ScannerGranted \/ ScannerRefused \/ SendBatch
    PROVE  SentInv'
<1>. USE RateAssumption
<1>t. /\ now \in Nat /\ sent \in Nat /\ load \in Nat /\ due \in Nat
      /\ remaining \in Nat
  BY DEF TypeInv, TypeOK, Time
<1>1. PICK U, B, D \in SUBSET Nat, W \in Owners : Ledger(U, B, D, W)
  BY DEF SentInv
<1>2. UNCHANGED <<now, tasks, granted, credit, last>>
  BY DEF ScannerGranted, ScannerRefused, SendBatch, bucket
<1>3. CASE ScannerGranted
  <2>1. /\ load' = load + due /\ due' = 0 /\ sent' = sent
        /\ spc = "wait" /\ remaining = 0
    BY <1>3 DEF ScannerGranted
  <2>2. Sized(B \cup D, load')
    BY <1>1, <1>t, <2>1, UnionSized DEF Ledger, Sizes, Disjoint
  <2>3. Sizes(U, B \cup D, {}, W)'
    BY <1>1, <1>2, <2>1, <2>2, EmptySized DEF Ledger, Sizes, tasks
  <2>4. Disjoint(U, B \cup D, {}, W)'
    BY <1>1 DEF Ledger, Disjoint
  <2>5. Reserved(U, B \cup D, {}, W)'
    BY <1>1, <1>2 DEF Ledger, Reserved, Below
  <2>6. ScannerEnd = now
    BY <1>t, <2>1 DEF ScannerEnd
  <2>7. InTime(U, B \cup D, {}, W)'
    BY <1>1, <1>2, <2>6 DEF Ledger, InTime, Below, tasks
  <2>. QED
    BY <1>1, <1>2, <2>3, <2>4, <2>5, <2>7 DEF SentInv, Ledger
<1>4. CASE ScannerRefused
  <2>1. due' = 0 /\ UNCHANGED <<load, sent>>
    BY <1>4 DEF ScannerRefused
  <2>2. Sizes(U, B, {}, W)'
    BY <1>1, <1>2, <2>1, EmptySized DEF Ledger, Sizes, tasks
  <2>3. Disjoint(U, B, {}, W)'
    BY <1>1 DEF Ledger, Disjoint
  <2>4. Reserved(U, B, {}, W)' /\ InTime(U, B, {}, W)'
    BY <1>1, <1>2 DEF Ledger, Reserved, InTime, Below, tasks
  <2>. QED
    BY <1>1, <1>2, <2>2, <2>3, <2>4 DEF SentInv, Ledger
<1>5. CASE SendBatch
  <2>1. /\ sent' = sent + load /\ load' = 0 /\ due' = due
        /\ ScannerEnd' = ScannerEnd
    BY <1>5 DEF SendBatch, ScannerEnd
  <2>2. Sized(U \cup B, sent')
    BY <1>1, <1>t, <2>1, UnionSized DEF Ledger, Sizes, Disjoint
  <2>3. Sizes(U \cup B, {}, D, W)'
    BY <1>1, <1>2, <2>1, <2>2, EmptySized DEF Ledger, Sizes, tasks
  <2>4. Disjoint(U \cup B, {}, D, W)'
    BY <1>1 DEF Ledger, Disjoint
  <2>5. Reserved(U \cup B, {}, D, W)' /\ InTime(U \cup B, {}, D, W)'
    BY <1>1, <1>2, <2>1 DEF Ledger, Reserved, InTime, Below, tasks
  <2>. QED
    BY <1>1, <1>2, <2>3, <2>4, <2>5 DEF SentInv, Ledger
<1>. QED
  BY <1>3, <1>4, <1>5

(* Time passes, sleeps begin and end: nobody's end comes nearer. *)
LEMMA WaitLedger ==
    ASSUME TypeInv, SentInv,
           UNCHANGED <<credit, last, granted, load, due, tasks, sent>>,
           now' \in Nat, now' >= now,
           ScannerEnd \in Nat => ScannerEnd' \in Nat /\ ScannerEnd' >= ScannerEnd
    PROVE  SentInv'
<1>. USE RateAssumption
<1>t. now \in Nat /\ ScannerEnd \in Nat
  BY DEF TypeInv, TypeOK, CallersOK, Time, ScannerEnd
<1>1. PICK U, B, D \in SUBSET Nat, W \in Owners : Ledger(U, B, D, W)
  BY DEF SentInv
<1>2. Sizes(U, B, D, W)' /\ Disjoint(U, B, D, W)' /\ Reserved(U, B, D, W)'
  BY <1>1 DEF Ledger, Sizes, Disjoint, Reserved, tasks
<1>3. Below(U \cup B, now' + Burst)
  <2>1. \A x \in U \cup B : x < now + Burst
    BY <1>1 DEF Ledger, InTime, Below
  <2>2. PICK n \in Nat : n = now'
    OBVIOUS
  <2>3. ASSUME NEW x \in U \cup B PROVE x < n + Burst
    <3>1. n >= now /\ x \in Nat /\ x < now + Burst
      BY <2>1, <2>2
    <3>. QED
      BY <1>t, <3>1
  <2>. QED
    BY <2>2, <2>3 DEF Below
<1>4. Below(D, ScannerEnd' + Burst)
  <2>1. \A x \in D : x < ScannerEnd + Burst
    BY <1>1 DEF Ledger, InTime, Below
  <2>. QED
    BY <1>t, <2>1 DEF Below
<1>5. InTime(U, B, D, W)'
  BY <1>1, <1>3, <1>4 DEF Ledger, InTime, tasks
<1>. QED
  BY <1>1, <1>2, <1>5 DEF SentInv, Ledger

LEMMA SentStep ==
    ASSUME TypeInv, SentInv, [Next]_vars
    PROVE  SentInv'
<1>. USE RateAssumption
<1>t. now \in Nat /\ remaining \in Nat
  BY DEF TypeInv, TypeOK, Time
<1>1. CASE BatchStart \/ BatchReady
  <2>1. ScannerEnd' = ScannerEnd
    BY <1>1 DEF BatchStart, BatchReady, ScannerEnd
  <2>. QED
    BY <1>1, <1>t, <2>1, WaitLedger DEF BatchStart, BatchReady, bucket
<1>2. CASE ScannerSleep
  <2>1. Smaller(remaining, MaxSleep) \in 0 .. remaining
    BY <1>t DEF Smaller
  <2>2. ScannerEnd' = ScannerEnd
    BY <1>2, <1>t, <2>1 DEF ScannerSleep, ScannerEnd
  <2>. QED
    BY <1>2, <1>t, <2>2, WaitLedger DEF ScannerSleep, bucket
<1>3. CASE ScannerWake
  <2>1. wake \in Nat
    BY <1>3 DEF ScannerWake, TypeInv, CallersOK
  <2>2. ScannerEnd' \in Nat /\ ScannerEnd' >= ScannerEnd
    BY <1>3, <1>t, <2>1 DEF ScannerWake, ScannerEnd
  <2>. QED
    BY <1>3, <1>t, <2>2, WaitLedger DEF ScannerWake, bucket
<1>4. CASE Tick
  <2>1. spc = "sleep" => wake \in Nat
    BY DEF TypeInv, CallersOK
  <2>2. ScannerEnd' \in Nat /\ ScannerEnd' >= ScannerEnd
    BY <1>4, <1>t, <2>1 DEF Tick, ScannerEnd, scanner
  <2>. QED
    BY <1>4, <1>t, <2>2, WaitLedger DEF Tick, bucket, scanner
<1>5. CASE Stop \/ Rewrite \/ UNCHANGED vars
  <2>1. UNCHANGED <<now, bucket, scanner, tasks, sent>>
    BY <1>5 DEF Stop, Rewrite, vars
  <2>2. ScannerEnd' = ScannerEnd
    BY <2>1 DEF ScannerEnd, scanner
  <2>. QED
    BY <1>t, <2>1, <2>2, WaitLedger DEF bucket, scanner
<1>. QED
  BY <1>1, <1>2, <1>3, <1>4, <1>5, ScannerReserveLedger, BatchLedger,
     TaskReserveLedger, TaskEndsLedger DEF Next

(* What all callers together send never exceeds the time passed plus one   *)
(* burst, although they wait outside the mutex, wake in any order, are     *)
(* refused or aborted, and the rate changes under them                     *)
(* (SharedBandwidthLimiter, consume_interruptible).                        *)
THEOREM SendingIsWithinBudget == Spec => []SentWithinBudget
<1>1. ASSUME Init PROVE SentInv
  <2>1. Sizes({}, {}, {}, [t \in Task |-> {}])
    BY <1>1, EmptySized DEF Init, Sizes
  <2>2. Ledger({}, {}, {}, [t \in Task |-> {}])
    BY <1>1, <2>1 DEF Init, Ledger, Disjoint, Reserved, InTime, Below
  <2>3. [t \in Task |-> {}] \in Owners
    BY DEF Owners
  <2>. QED
    BY <1>1, <2>2, <2>3, RateAssumption DEF Init, SentInv
<1>2. ASSUME TypeInv, SentInv PROVE SentWithinBudget
  <2>1. PICK U, B, D \in SUBSET Nat, W \in Owners : Ledger(U, B, D, W)
    BY <1>2 DEF SentInv
  <2>2. now + Burst \in Nat
    BY <1>2, RateAssumption DEF TypeInv, TypeOK, Time
  <2>3. U \in SUBSET (0 .. (now + Burst) - 1)
    BY <2>1, <2>2 DEF Ledger, InTime, Below
  <2>4. Sized(0 .. 0 + (now + Burst) - 1, now + Burst)
    BY <2>2, IntervalSized
  <2>5. IsFiniteSet(0 .. (now + Burst) - 1)
        /\ Cardinality(0 .. (now + Burst) - 1) = now + Burst
    BY <2>2, <2>4 DEF Sized
  <2>6. Cardinality(U) <= Cardinality(0 .. (now + Burst) - 1)
    BY <2>3, <2>5, FS_Subset
  <2>7. Cardinality(U) = sent
    BY <2>1 DEF Ledger, Sizes, Sized
  <2>. QED
    BY <2>5, <2>6, <2>7 DEF SentWithinBudget
<1>. QED
  BY <1>1, <1>2, TypeInductive, SentStep, PTL DEF Spec

=============================================================================
