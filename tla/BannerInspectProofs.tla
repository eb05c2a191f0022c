------------------------ MODULE BannerInspectProofs ------------------------
(* Theorems about BannerInspect, for all servers, limits and numbers of    *)
(* attempts.                                                               *)
EXTENDS BannerInspect, SequenceTheorems, WellFoundedInduction, TLAPS

Byte == 0 .. 255

-----------------------------------------------------------------------------
(* Framing *)

(* A set of positions that is not empty has a least one. *)
LEMMA LeastOf ==
    ASSUME NEW S \in SUBSET Nat, S # {}
    PROVE  Min(S) \in S /\ \A y \in S : Min(S) <= y
<1>1. \E x \in S : \A y \in S : ~(<<y, x>> \in OpToRel(<, Nat))
  BY NatLessThanWellFounded, WFMin
<1>2. PICK x \in S : \A y \in S : ~(<<y, x>> \in OpToRel(<, Nat))
  BY <1>1
<1>3. ASSUME NEW y \in S PROVE x <= y
  <2>1. <<y, x>> \in Nat \X Nat /\ <<y, x>>[1] = y /\ <<y, x>>[2] = x
    OBVIOUS
  <2>2. ~(y < x)
    BY <1>2, <2>1, Zenon DEF OpToRel
  <2>. QED
    BY <2>2
<1>. QED
  BY <1>3 DEF Min

LEMMA MinIn ==
    ASSUME NEW S \in SUBSET Nat, S # {}
    PROVE  Min(S) \in S
  BY LeastOf

LEMMA LineFits ==
    ASSUME NEW data \in Seq(Byte), NEW from \in Nat
    PROVE  line_end(data, from) \in 0 .. Len(data)
<1>. DEFINE ends == {e \in from + 2 .. Len(data) : data[e - 1] = CR /\ data[e] = LF}
<1>1. ends \in SUBSET Nat /\ ends \subseteq 0 .. Len(data)
  OBVIOUS
<1>2. ends # {} => Min(ends) \in ends
  BY <1>1, MinIn
<1>. QED
  BY <1>1, <1>2 DEF line_end

LEMMA ReplyFits ==
    ASSUME NEW data \in Seq(Byte), ftp_len(data).tag = "complete"
    PROVE  ftp_len(data).len \in 0 .. Len(data)
<1>. DEFINE first == line_end(data, 0)
            at == {i \in first .. Len(data) - 4 :
                     SubSeq(data, i + 1, i + 4) = SubSeq(data, 1, 3) \o <<SP>>}
<1>1. first \in 0 .. Len(data)
  BY LineFits
<1>2. at \in SUBSET Nat
  BY <1>1
<1>3. at # {} => Min(at) \in Nat
  BY <1>2, MinIn
<1>4. multiline_end(data, first) \in 0 .. Len(data)
  <2>1. CASE at = {}
    BY <2>1 DEF multiline_end
  <2>2. CASE at # {}
    BY <2>2, <1>3, LineFits DEF multiline_end
  <2>. QED
    BY <2>1, <2>2
<1>. QED
  BY <1>1, <1>4 DEF ftp_len, CompleteAt, Complete, More, Error

LEMMA SizedFits ==
    ASSUME NEW data \in Seq(Byte), NEW total \in Nat, NEW max \in Nat,
           Sized(data, total, max).tag = "complete"
    PROVE  Sized(data, total, max).len \in 0 .. Len(data)
  BY DEF Sized, Complete, More, Error

LEMMA ByteIsNat == \A x \in Byte : x \in Nat
  BY DEF Byte

LEMMA LittleEndianSum ==
    ASSUME NEW f, f[1] \in Nat, f[2] \in Nat, f[3] \in Nat
    PROVE  LittleEndian(f) \in Nat
  BY DEF LittleEndian

LEMMA BigEndianSum ==
    ASSUME NEW f, f[1] \in Nat, f[2] \in Nat, f[3] \in Nat, f[4] \in Nat
    PROVE  BigEndian(f) \in Nat
  BY DEF BigEndian

LEMMA BigEndianType ==
    ASSUME NEW b \in Seq(Byte), Len(b) = 4
    PROVE  BigEndian(b) \in Nat
<1>1. \A i \in 1 .. 4 : b[i] \in Byte
  BY ElementOfSeq
<1>2. \A i \in 1 .. 4 : b[i] \in Nat
  BY <1>1, ByteIsNat
<1>3. b[1] \in Nat /\ b[2] \in Nat /\ b[3] \in Nat /\ b[4] \in Nat
  BY <1>2
<1>. QED
  BY <1>3, BigEndianSum, Zenon

(* A message found complete lies within the data received, so that         *)
(* banner_completion truncates and never extends (message_len).            *)
THEOREM MessageFits ==
    ASSUME NEW data \in Seq(Byte), NEW p \in Protocol, NEW max \in Nat,
           message_len(p, data, max).tag = "complete"
    PROVE  /\ message_len(p, data, max).len \in 0 .. Len(data)
           /\ Len(data) <= max
<1>1. Len(data) <= max /\ message_len(p, data, max) = Framed(p, data, max)
  BY DEF message_len, Error
<1>2. CASE p = "ssh"
  <2>. DEFINE ends == {i \in 1 .. Len(data) : data[i] = LF}
  <2>1. ends # {} => Min(ends) \in 1 .. Len(data)
    <3>1. ends \in SUBSET Nat
      OBVIOUS
    <3>2. ends # {} => Min(ends) \in ends
      BY <3>1, MinIn
    <3>. QED
      BY <3>2
  <2>. QED
    BY <1>1, <1>2, <2>1 DEF Framed, ssh_len, CompleteAt, Complete, More
<1>3. CASE p = "ftp"
  BY <1>1, <1>3, ReplyFits DEF Framed
<1>4. CASE p = "smtp"
  BY <1>1, <1>4, ReplyFits DEF Framed, smtp_len
<1>5. CASE p = "mysql"
  <2>1. Framed(p, data, max) = mysql_len(data, max)
    BY <1>5 DEF Framed
  <2>2. Len(data) >= 4
    BY <1>1, <2>1 DEF mysql_len, More
  <2>3. LittleEndian(data) \in Nat
    <3>1. data[1] \in Byte /\ data[2] \in Byte /\ data[3] \in Byte
      BY <2>2, ElementOfSeq
    <3>2. data[1] \in Nat /\ data[2] \in Nat /\ data[3] \in Nat
      BY <3>1, ByteIsNat, Zenon
    <3>. QED
      BY <3>2, LittleEndianSum, Zenon
  <2>4. mysql_len(data, max) = Sized(data, LittleEndian(data) + 4, max)
    BY <2>2 DEF mysql_len
  <2>5. LittleEndian(data) + 4 \in Nat
    BY <2>3
  <2>. QED
    BY <1>1, <2>1, <2>4, <2>5, SizedFits
<1>6. CASE p = "postgres"
  <2>1. Framed(p, data, max) = postgres_len(data, max)
    BY <1>6 DEF Framed
  <2>2. Len(data) >= 5
    BY <1>1, <2>1 DEF postgres_len, More
  <2>. DEFINE header == SubSeq(data, 2, 5)
  <2>3. header \in Seq(Byte) /\ Len(header) = 4
    <3>1. \A i \in 2 .. 5 : data[i] \in Byte
      BY <2>2, ElementOfSeq
    <3>. QED
      BY <3>1, SubSeqProperties
  <2>4. BigEndian(header) \in Nat
    <3>. HIDE DEF header
    <3>. QED
      BY <2>3, BigEndianType
  <2>5. postgres_len(data, max) = Sized(data, BigEndian(header) + 1, max)
    <3>1. postgres_len(data, max).tag # "error"
      BY <1>1, <2>1
    <3>. QED
      BY <2>2, <3>1 DEF postgres_len, Error
  <2>6. BigEndian(header) + 1 \in Nat
    BY <2>4
  <2>. HIDE DEF header
  <2>. QED
    BY <1>1, <2>1, <2>5, <2>6, SizedFits
<1>7. CASE p = "redis"
  <2>1. Framed(p, data, max) = redis_len(data)
    BY <1>7 DEF Framed
  <2>2. line_end(data, 0) \in 0 .. Len(data)
    BY LineFits
  <2>3. redis_bulk_len(data).tag = "complete" => redis_bulk_len(data).len \in 0 .. Len(data)
    BY DEF redis_bulk_len, Complete, More, Error
  <2>. QED
    BY <1>1, <2>1, <2>2, <2>3 DEF redis_len, CompleteAt, Complete, More, Error
<1>. QED
  BY <1>1, <1>2, <1>3, <1>4, <1>5, <1>6, <1>7 DEF Protocol

-----------------------------------------------------------------------------
(* What a verdict depends on.  A verdict on the bytes received so far is   *)
(* final: more bytes do not change it, and a complete message is found     *)
(* complete at the same place in any data that agree with it so far.       *)

Agree(d, e, n) ==
    /\ n <= Len(d) /\ n <= Len(e)
    /\ \A i \in 1 .. n : d[i] = e[i]

LEMMA MinIs ==
    ASSUME NEW S \in SUBSET Nat, NEW x \in S, \A y \in S : x <= y
    PROVE  Min(S) = x
<1>1. S # {}
  OBVIOUS
<1>2. Min(S) \in S /\ \A y \in S : Min(S) <= y
  BY <1>1, LeastOf, Zenon
<1>3. PICK m \in Nat : m = Min(S) /\ m <= x /\ x <= m
  BY <1>2
<1>. QED
  BY <1>3

LEMMA AgreeSub ==
    ASSUME NEW d \in Seq(Byte), NEW e \in Seq(Byte), NEW n \in Nat,
           Agree(d, e, n), NEW a \in 1 .. n + 1, NEW b \in 0 .. n
    PROVE  SubSeq(d, a, b) = SubSeq(e, a, b)
  BY DEF Agree

(* line_end: the first end of a line *)
EndsLine(data, e) == data[e - 1] = CR /\ data[e] = LF

LEMMA LineIs ==
    ASSUME NEW data \in Seq(Byte), NEW from \in Nat, line_end(data, from) # 0
    PROVE  /\ line_end(data, from) \in from + 2 .. Len(data)
           /\ EndsLine(data, line_end(data, from))
           /\ \A d \in from + 2 .. Len(data) :
                 EndsLine(data, d) => line_end(data, from) <= d
<1>. DEFINE ends == {e \in from + 2 .. Len(data) : data[e - 1] = CR /\ data[e] = LF}
<1>1. ends \in SUBSET Nat
  OBVIOUS
<1>2. ends # {} /\ line_end(data, from) = Min(ends)
  BY DEF line_end
<1>3. Min(ends) \in ends /\ \A y \in ends : Min(ends) <= y
  <2>. HIDE DEF ends
  <2>. QED
    BY <1>1, <1>2, LeastOf
<1>. QED
  BY <1>2, <1>3 DEF EndsLine

LEMMA LineFound ==
    ASSUME NEW data \in Seq(Byte), NEW from \in Nat,
           NEW e \in from + 2 .. Len(data), EndsLine(data, e),
           \A d \in from + 2 .. Len(data) : EndsLine(data, d) => e <= d
    PROVE  line_end(data, from) = e
<1>. DEFINE ends == {d \in from + 2 .. Len(data) : data[d - 1] = CR /\ data[d] = LF}
<1>1. ends \in SUBSET Nat /\ e \in ends /\ \A y \in ends : e <= y
  BY DEF EndsLine
<1>2. Min(ends) = e
  <2>. HIDE DEF ends
  <2>. QED
    BY <1>1, MinIs
<1>. QED
  BY <1>1, <1>2 DEF line_end

LEMMA LineAgree ==
    ASSUME NEW d \in Seq(Byte), NEW e \in Seq(Byte), NEW from \in Nat,
           NEW n \in Nat, Agree(d, e, n),
           line_end(d, from) # 0, line_end(d, from) <= n
    PROVE  line_end(e, from) = line_end(d, from)
<1>1. PICK m \in from + 2 .. Len(d) :
         /\ m = line_end(d, from) /\ EndsLine(d, m) /\ m <= n
         /\ \A k \in from + 2 .. Len(d) : EndsLine(d, k) => m <= k
  BY LineIs
<1>2. m \in from + 2 .. Len(e) /\ EndsLine(e, m)
  BY <1>1 DEF Agree, EndsLine
<1>3. ASSUME NEW k \in from + 2 .. Len(e), EndsLine(e, k) PROVE m <= k
  <2>1. CASE k <= n
    <3>1. k \in from + 2 .. Len(d) /\ EndsLine(d, k)
      BY <1>3, <2>1 DEF Agree, EndsLine
    <3>. QED
      BY <1>1, <3>1
  <2>2. CASE k > n
    BY <1>1, <2>2
  <2>. QED
    BY <2>1, <2>2
<1>. QED
  BY <1>1, <1>2, <1>3, LineFound

(* multiline_ftp_end: the first place with the code and a blank *)
CodeAt(data, i) ==
    /\ data[i + 1] = data[1] /\ data[i + 2] = data[2] /\ data[i + 3] = data[3]
    /\ data[i + 4] = SP

LEMMA NeedleIs ==
    ASSUME NEW data \in Seq(Byte), Len(data) >= 4,
           NEW i \in 0 .. Len(data) - 4
    PROVE  SubSeq(data, i + 1, i + 4) = SubSeq(data, 1, 3) \o <<SP>> <=>
           CodeAt(data, i)
<1>. DEFINE s == SubSeq(data, i + 1, i + 4)
            c == SubSeq(data, 1, 3)
            t == <<SP>>
<1>1. /\ s \in Seq(Byte) /\ Len(s) = 4
      /\ s[1] = data[i + 1] /\ s[2] = data[i + 2] /\ s[3] = data[i + 3]
      /\ s[4] = data[i + 4]
  OBVIOUS
<1>2. /\ c \in Seq(Byte) /\ Len(c) = 3
      /\ c[1] = data[1] /\ c[2] = data[2] /\ c[3] = data[3]
  OBVIOUS
<1>3. t \in Seq(Byte) /\ Len(t) = 1 /\ t[1] = SP
  BY DEF SP, Byte
<1>. HIDE DEF s, c, t
<1>4. PICK u \in Seq(Byte) : u = c \o t
  BY <1>2, <1>3, ConcatProperties, Zenon
<1>5. /\ Len(u) = 4
      /\ u[1] = data[1] /\ u[2] = data[2] /\ u[3] = data[3] /\ u[4] = SP
  <2>1. /\ Len(u) = Len(c) + Len(t)
        /\ \A k \in 1 .. Len(c) + Len(t) :
              u[k] = IF k <= Len(c) THEN c[k] ELSE t[k - Len(c)]
    BY <1>2, <1>3, <1>4, ConcatProperties, Zenon
  <2>2. /\ Len(u) = 4 /\ \A k \in 1 .. 3 : u[k] = c[k]
        /\ u[4] = t[1]
    BY <1>2, <1>3, <2>1
  <2>. QED
    BY <1>2, <1>3, <2>2
<1>6. s = u => CodeAt(data, i)
  BY <1>1, <1>5 DEF CodeAt
<1>7. ASSUME CodeAt(data, i) PROVE s = u
  <2>1. \A k \in 1 .. 4 : k = 1 \/ k = 2 \/ k = 3 \/ k = 4
    OBVIOUS
  <2>2. \A k \in 1 .. Len(s) : s[k] = u[k]
    BY <1>1, <1>5, <1>7, <2>1 DEF CodeAt
  <2>. QED
    BY <1>1, <1>5, <2>2, SeqEqual
<1>. QED
  BY <1>4, <1>6, <1>7 DEF s, c, t

Places(data, first) == {i \in first .. Len(data) - 4 : CodeAt(data, i)}

LEMMA MultilineIs ==
    ASSUME NEW data \in Seq(Byte), NEW first \in Nat, Len(data) >= 4
    PROVE  multiline_end(data, first) =
              IF Places(data, first) = {} THEN 0
              ELSE line_end(data, Min(Places(data, first)))
<1>1. ASSUME NEW i \in first .. Len(data) - 4
      PROVE  SubSeq(data, i + 1, i + 4) = SubSeq(data, 1, 3) \o <<SP>> <=>
             CodeAt(data, i)
  <2>1. i \in 0 .. Len(data) - 4
    OBVIOUS
  <2>. QED
    BY <2>1, NeedleIs
<1>2. {i \in first .. Len(data) - 4 :
         SubSeq(data, i + 1, i + 4) = SubSeq(data, 1, 3) \o <<SP>>} =
      Places(data, first)
  BY <1>1, Zenon DEF Places
<1>. QED
  BY <1>2, Zenon DEF multiline_end

LEMMA MultilineAgree ==
    ASSUME NEW d \in Seq(Byte), NEW e \in Seq(Byte), NEW first \in Nat,
           NEW n \in Nat, Agree(d, e, n), Len(d) >= 4,
           \A i \in 1 .. 3 : d[i] \in Digit,
           multiline_end(d, first) # 0, multiline_end(d, first) <= n
    PROVE  /\ multiline_end(e, first) = multiline_end(d, first)
           /\ first + 6 <= multiline_end(d, first)
<1>1. Places(d, first) \in SUBSET Nat /\ Places(d, first) # {}
  <2>1. Places(d, first) \in SUBSET Nat
    BY DEF Places
  <2>2. Places(d, first) # {}
    BY MultilineIs, Zenon
  <2>. QED
    BY <2>1, <2>2
<1>2. PICK m \in first .. Len(d) - 4 :
         /\ m = Min(Places(d, first)) /\ CodeAt(d, m)
         /\ \A y \in Places(d, first) : m <= y
  BY <1>1, LeastOf DEF Places
<1>3. multiline_end(d, first) = line_end(d, m)
  BY <1>1, <1>2, MultilineIs
<1>4. PICK k \in m + 2 .. Len(d) : k = line_end(d, m) /\ EndsLine(d, k)
  BY <1>2, <1>3, LineIs
<1>5. k >= m + 6 /\ k <= n
  <2>0. m \in Int
    OBVIOUS
  <2>1. /\ d[m + 1] # CR /\ d[m + 2] # CR /\ d[m + 3] # CR /\ d[m + 4] # CR
    <3>1. d[1] \in Digit /\ d[2] \in Digit /\ d[3] \in Digit
      OBVIOUS
    <3>2. CR \notin Digit /\ CR # SP
      BY DEF Digit, CR, SP
    <3>. QED
      BY <1>2, <3>1, <3>2, Zenon DEF CodeAt
  <2>2. d[k - 1] = CR
    BY <1>4 DEF EndsLine
  <2>3. k # m + 2 /\ k # m + 3 /\ k # m + 4 /\ k # m + 5
    <3>1. (m + 2) - 1 = m + 1 /\ (m + 3) - 1 = m + 2 /\ (m + 4) - 1 = m + 3
          /\ (m + 5) - 1 = m + 4
      BY <2>0
    <3>. QED
      BY <2>1, <2>2, <3>1, Zenon
  <2>4. m \in Nat /\ k \in Nat /\ k >= m + 2
    BY <1>2, <1>4
  <2>5. k >= m + 6
    BY <2>3, <2>4
  <2>6. k = multiline_end(d, first)
    BY <1>3, <1>4, Zenon
  <2>. QED
    BY <2>5, <2>6
<1>6. Len(e) >= 4 /\ m \in first .. Len(e) - 4 /\ CodeAt(e, m)
  <2>1. m \in Nat /\ m + 6 <= n /\ n <= Len(e)
    BY <1>2, <1>4, <1>5 DEF Agree
  <2>2. /\ e[m + 1] = d[m + 1] /\ e[m + 2] = d[m + 2] /\ e[m + 3] = d[m + 3]
        /\ e[m + 4] = d[m + 4]
        /\ e[1] = d[1] /\ e[2] = d[2] /\ e[3] = d[3]
    <3>1. {m + 1, m + 2, m + 3, m + 4, 1, 2, 3} \subseteq 1 .. n
      BY <2>1
    <3>. QED
      BY <3>1, Zenon DEF Agree
  <2>3. CodeAt(e, m)
    BY <1>2, <2>2, Zenon DEF CodeAt
  <2>. QED
    BY <1>2, <2>1, <2>3
<1>7. ASSUME NEW y \in Places(e, first) PROVE m <= y
  <2>1. y \in first .. Len(e) - 4 /\ CodeAt(e, y)
    BY DEF Places
  <2>2. CASE y < m
    <3>1. y \in first .. Len(d) - 4 /\ y + 4 <= n
      BY <1>2, <1>5, <2>1, <2>2 DEF Agree
    <3>2. CodeAt(d, y)
      BY <1>5, <2>1, <3>1 DEF Agree, CodeAt
    <3>. QED
      BY <1>2, <3>1, <3>2 DEF Places
  <2>. QED
    BY <1>2, <2>1, <2>2
<1>8. m \in Places(e, first) /\ Places(e, first) \in SUBSET Nat
  BY <1>6 DEF Places
<1>9. Min(Places(e, first)) = m
  BY <1>7, <1>8, MinIs
<1>10. multiline_end(e, first) = line_end(e, m)
  BY <1>6, <1>8, <1>9, MultilineIs
<1>11. line_end(e, m) = line_end(d, m)
  BY <1>2, <1>3, <1>4, <1>5, LineAgree
<1>. QED
  BY <1>2, <1>3, <1>4, <1>5, <1>10, <1>11

(* A reply of FTP or SMTP *)
HasCode(data) == Len(data) >= 4 /\ \A i \in 1 .. 3 : data[i] \in Digit

LEMMA ReplyAgree ==
    ASSUME NEW d \in Seq(Byte), NEW e \in Seq(Byte), NEW n \in Nat,
           Agree(d, e, n), ftp_len(d) = Complete(n)
    PROVE  ftp_len(e) = Complete(n)
<1>1. PICK f : f = line_end(d, 0)
  OBVIOUS
<1>2. f # 0 /\ HasCode(d) /\ d[4] \in {SP, DASH}
  BY <1>1 DEF ftp_len, HasCode, Complete, More, Error
<1>3. f \in 2 .. Len(d) /\ EndsLine(d, f)
  BY <1>1, <1>2, LineIs
<1>4. f >= 6
  <2>1. d[1] # CR /\ d[2] # CR /\ d[3] # CR /\ d[4] # CR
    <3>1. d[1] \in Digit /\ d[2] \in Digit /\ d[3] \in Digit
      BY <1>2 DEF HasCode
    <3>2. CR \notin Digit /\ CR \notin {SP, DASH}
      BY DEF Digit, CR, SP, DASH
    <3>. QED
      BY <1>2, <3>1, <3>2, Zenon
  <2>2. f # 2 /\ f # 3 /\ f # 4 /\ f # 5
    <3>1. d[f - 1] = CR
      BY <1>3 DEF EndsLine
    <3>2. 2 - 1 = 1 /\ 3 - 1 = 2 /\ 4 - 1 = 3 /\ 5 - 1 = 4
      OBVIOUS
    <3>. QED
      BY <2>1, <3>1, <3>2, Zenon
  <2>. QED
    BY <1>3, <2>2
<1>5. CASE d[4] = SP
  <2>1. n = f
    BY <1>1, <1>2, <1>5 DEF ftp_len, HasCode, Complete, DASH, SP
  <2>2. line_end(e, 0) = f
    BY <1>1, <1>2, <2>1, LineAgree
  <2>3. HasCode(e) /\ e[4] = SP
    BY <1>2, <1>4, <1>5, <2>1 DEF HasCode, Agree
  <2>. QED
    BY <1>2, <2>1, <2>2, <2>3 DEF ftp_len, HasCode, DASH, SP
<1>6. CASE d[4] = DASH
  <2>1. multiline_end(d, f) = n /\ n # 0
    <3>1. ftp_len(d) = CompleteAt(multiline_end(d, f))
      BY <1>1, <1>2, <1>6 DEF ftp_len, HasCode, DASH, SP
    <3>. QED
      BY <3>1 DEF CompleteAt, Complete, More
  <2>2. multiline_end(e, f) = n /\ f + 6 <= n
    BY <1>2, <1>3, <2>1, MultilineAgree DEF HasCode
  <2>3. line_end(e, 0) = f
    BY <1>1, <1>2, <1>3, <2>2, LineAgree
  <2>4. HasCode(e) /\ e[4] = DASH
    BY <1>2, <1>3, <1>6, <2>2 DEF HasCode, Agree
  <2>. QED
    BY <1>2, <2>1, <2>2, <2>3, <2>4 DEF ftp_len, HasCode, CompleteAt, DASH, SP
<1>. QED
  BY <1>2, <1>5, <1>6

LEMMA ReplyStaysWrong ==
    ASSUME NEW d \in Seq(Byte), NEW e \in Seq(Byte), Agree(d, e, Len(d)),
           ftp_len(d).tag = "error"
    PROVE  ftp_len(e) = ftp_len(d)
<1>1. PICK f : f = line_end(d, 0)
  OBVIOUS
<1>2. f # 0 /\ ~(HasCode(d) /\ d[4] \in {SP, DASH})
      /\ ftp_len(d) = Error("protocol_mismatch")
  BY <1>1 DEF ftp_len, HasCode, Complete, CompleteAt, More, Error
<1>3. f \in 2 .. Len(d) /\ EndsLine(d, f)
  BY <1>1, <1>2, LineIs
<1>4. line_end(e, 0) = f
  BY <1>1, <1>2, <1>3, LineAgree
<1>5. ~(HasCode(e) /\ e[4] \in {SP, DASH})
  <2>1. CASE Len(d) >= 4
    BY <1>2, <2>1 DEF HasCode, Agree
  <2>2. CASE Len(d) < 4
    <3>1. d[f - 1] = CR /\ f - 1 \in 1 .. 2
      BY <1>3, <2>2 DEF EndsLine
    <3>2. e[f - 1] \notin Digit
      BY <1>3, <3>1 DEF Agree, Digit, CR
    <3>3. f - 1 \in 1 .. 3
      BY <3>1
    <3>. QED
      BY <3>2, <3>3 DEF HasCode
  <2>. QED
    BY <2>1, <2>2
<1>. QED
  BY <1>2, <1>4, <1>5 DEF ftp_len, HasCode

(* The number of a Redis header: reading its digits one after the other    *)
(* gives a natural number.                                                 *)
LEMMA ValueIsNat ==
    ASSUME NEW text,
           Unsigned(text) \in Seq(Digit)
    PROVE  Value(text) \in Nat
<1>. DEFINE u == Unsigned(text)
            L == Len(u)
            Reads(f, n) == f = [i \in 0 .. n |->
                                  IF i = 0 THEN 0 ELSE 10 * f[i - 1] + (u[i] - 48)]
            sum == CHOOSE f : Reads(f, L)
<1>0. L \in Nat /\ \A i \in 1 .. L : u[i] \in Nat /\ u[i] >= 48
  <2>1. L \in Nat
    OBVIOUS
  <2>2. \A i \in 1 .. L : u[i] \in Digit
    BY ElementOfSeq
  <2>. QED
    BY <2>1, <2>2 DEF Digit
<1>. HIDE DEF u, L
<1>1. \E f : Reads(f, L)
  <2>. DEFINE Bad == {n \in 0 .. L : ~\E f : Reads(f, n)}
  <2>1. CASE Bad # {}
    <3>1. Bad \in SUBSET Nat
      OBVIOUS
    <3>2. PICK m \in Bad : \A y \in Bad : m <= y
      <4>. HIDE DEF Bad
      <4>. QED
        BY <2>1, <3>1, LeastOf
    <3>3. m # 0
      <4>1. Reads([i \in 0 .. 0 |-> 0], 0)
        OBVIOUS
      <4>. QED
        BY <4>1
    <3>4. m - 1 \in 0 .. L /\ m - 1 \notin Bad
      <4>1. m \in 0 .. L
        OBVIOUS
      <4>. HIDE DEF Bad
      <4>. QED
        BY <1>0, <3>2, <3>3, <4>1
    <3>5. PICK g : Reads(g, m - 1)
      BY <3>4
    <3>. DEFINE h == [i \in 0 .. m |->
                        IF i = m THEN 10 * g[m - 1] + (u[m] - 48) ELSE g[i]]
    <3>6. ASSUME NEW i \in 0 .. m
          PROVE  h[i] = IF i = 0 THEN 0 ELSE 10 * h[i - 1] + (u[i] - 48)
      <4>0. m \in Nat /\ i \in Nat
        BY <1>0
      <4>1. CASE i = m
        <5>1. h[i - 1] = g[m - 1]
          BY <3>3, <4>0, <4>1
        <5>. QED
          BY <3>3, <4>0, <4>1, <5>1
      <4>2. CASE i # m
        <5>1. i \in 0 .. m - 1 /\ h[i] = g[i]
          BY <4>0, <4>2
        <5>2. i # 0 => h[i - 1] = g[i - 1]
          BY <4>0, <4>2
        <5>3. g[i] = IF i = 0 THEN 0 ELSE 10 * g[i - 1] + (u[i] - 48)
          BY <3>5, <5>1
        <5>. QED
          BY <5>1, <5>2, <5>3
      <4>. QED
        BY <4>1, <4>2
    <3>7. Reads(h, m)
      <4>1. h = [i \in 0 .. m |-> h[i]]
        OBVIOUS
      <4>. QED
        BY <3>6, <4>1
    <3>. QED
      BY <3>2, <3>7
  <2>2. CASE Bad = {}
    <3>1. L \in 0 .. L
      BY <1>0
    <3>. HIDE DEF Reads
    <3>. QED
      BY <2>2, <3>1
  <2>. QED
    BY <2>1, <2>2
<1>2. Reads(sum, L)
  BY <1>1, Zenon
<1>3. Value(text) = sum[L]
  BY Zenon DEF Value, u, L
<1>. HIDE DEF sum
<1>4. sum[L] \in Nat
  <2>. DEFINE Odd == {n \in 0 .. L : sum[n] \notin Nat}
  <2>1. CASE Odd # {}
    <3>1. Odd \in SUBSET Nat
      OBVIOUS
    <3>2. PICK m \in Odd : \A y \in Odd : m <= y
      <4>. HIDE DEF Odd
      <4>. QED
        BY <2>1, <3>1, LeastOf
    <3>3. sum[m] = IF m = 0 THEN 0 ELSE 10 * sum[m - 1] + (u[m] - 48)
      BY <1>2, <3>2
    <3>4. m # 0
      BY <3>3
    <3>5. m - 1 \in 0 .. L /\ m - 1 \notin Odd /\ m \in 1 .. L
      BY <1>0, <3>2, <3>4
    <3>6. sum[m - 1] \in Nat
      BY <3>5
    <3>. QED
      BY <1>0, <3>3, <3>4, <3>5, <3>6
  <2>2. CASE Odd = {}
    BY <1>0, <2>2
  <2>. QED
    BY <2>1, <2>2
<1>. QED
  BY <1>3, <1>4

(* What a Redis header says of the message's length *)
BulkText(data, h) == SubSeq(data, 2, h - 2)
BulkTotal(text, h) == IF Negative(text) THEN h ELSE h + Value(text) + 2

LEMMA BulkIs ==
    ASSUME NEW data \in Seq(Byte), NEW h, h = line_end(data, 0), h # 0
    PROVE  redis_bulk_len(data) =
              IF ~IsNumber(BulkText(data, h)) THEN Error("protocol_mismatch")
              ELSE IF BulkTotal(BulkText(data, h), h) \in 0 .. Len(data)
                   THEN Complete(BulkTotal(BulkText(data, h), h)) ELSE More
  BY DEF redis_bulk_len, BulkText, BulkTotal

LEMMA BulkIsLonger ==
    ASSUME NEW data \in Seq(Byte), NEW h \in 2 .. Len(data),
           IsNumber(BulkText(data, h))
    PROVE  BulkTotal(BulkText(data, h), h) \in Nat /\
           BulkTotal(BulkText(data, h), h) >= h
<1>1. PICK text \in Seq(Byte) : text = BulkText(data, h)
  <2>1. \A i \in 2 .. h - 2 : data[i] \in Byte
    BY ElementOfSeq
  <2>2. SubSeq(data, 2, h - 2) \in Seq(Byte)
    BY <2>1, SubSeqProperties
  <2>. QED
    BY <2>2 DEF BulkText
<1>2. Unsigned(text) \in Seq(Byte)
  BY <1>1 DEF Unsigned
<1>3. Unsigned(text) \in Seq(Digit)
  <2>1. \A i \in 1 .. Len(Unsigned(text)) : Unsigned(text)[i] \in Digit
    BY <1>1, <1>2 DEF IsNumber
  <2>. QED
    BY <1>2, <2>1, SeqDef
<1>4. Value(text) \in Nat
  BY <1>3, ValueIsNat
<1>. QED
  BY <1>1, <1>4 DEF BulkTotal

LEMMA BulkAgree ==
    ASSUME NEW d \in Seq(Byte), NEW e \in Seq(Byte), NEW n \in Nat,
           Agree(d, e, n), redis_bulk_len(d) = Complete(n)
    PROVE  redis_bulk_len(e) = Complete(n)
<1>1. PICK h : h = line_end(d, 0)
  OBVIOUS
<1>2. h # 0
  BY <1>1 DEF redis_bulk_len, Complete, More
<1>3. h \in 2 .. Len(d)
  BY <1>1, <1>2, LineIs
<1>4. PICK text : text = BulkText(d, h)
  OBVIOUS
<1>5. IsNumber(text) /\ n = BulkTotal(text, h)
  BY <1>1, <1>2, <1>4, BulkIs DEF Complete, More, Error
<1>6. h <= n
  BY <1>3, <1>4, <1>5, BulkIsLonger
<1>7. line_end(e, 0) = h
  BY <1>1, <1>2, <1>6, LineAgree
<1>8. BulkText(e, h) = text
  <2>1. 2 \in 1 .. n + 1 /\ h - 2 \in 0 .. n
    BY <1>3, <1>6
  <2>. QED
    BY <1>4, <2>1, AgreeSub DEF BulkText
<1>9. n \in 0 .. Len(e)
  BY DEF Agree
<1>. QED
  BY <1>2, <1>5, <1>7, <1>8, <1>9, BulkIs

LEMMA BulkStaysWrong ==
    ASSUME NEW d \in Seq(Byte), NEW e \in Seq(Byte), Agree(d, e, Len(d)),
           redis_bulk_len(d).tag = "error"
    PROVE  redis_bulk_len(e) = redis_bulk_len(d)
<1>1. PICK h : h = line_end(d, 0)
  OBVIOUS
<1>2. h # 0
  BY <1>1 DEF redis_bulk_len, More
<1>3. h \in 2 .. Len(d)
  BY <1>1, <1>2, LineIs
<1>4. ~IsNumber(BulkText(d, h)) /\ redis_bulk_len(d) = Error("protocol_mismatch")
  BY <1>1, <1>2, BulkIs DEF Complete, More, Error
<1>5. line_end(e, 0) = h
  BY <1>1, <1>2, <1>3, LineAgree
<1>6. BulkText(e, h) = BulkText(d, h)
  <2>1. 2 \in 1 .. Len(d) + 1 /\ h - 2 \in 0 .. Len(d) /\ Len(d) \in Nat
    BY <1>3
  <2>. QED
    BY <2>1, AgreeSub DEF BulkText
<1>. QED
  BY <1>2, <1>4, <1>5, <1>6, BulkIs

LEMMA RedisAgree ==
    ASSUME NEW d \in Seq(Byte), NEW e \in Seq(Byte), NEW n \in Nat,
           Agree(d, e, n), redis_len(d) = Complete(n)
    PROVE  redis_len(e) = Complete(n)
<1>1. d # <<>>
  BY DEF redis_len, Complete, More
<1>2. CASE Head(d) \in {PLUS, DASH, COLON, STAR}
  <2>1. CompleteAt(line_end(d, 0)) = Complete(n)
    BY <1>1, <1>2 DEF redis_len, PLUS, DASH, COLON, STAR, DOLLAR
  <2>2. line_end(d, 0) = n /\ n # 0
    BY <2>1 DEF CompleteAt, Complete, More
  <2>3. line_end(e, 0) = n
    BY <2>2, LineAgree
  <2>4. e # <<>> /\ Head(e) = Head(d)
    BY <1>1, <2>2 DEF Agree
  <2>. QED
    BY <1>2, <2>2, <2>3, <2>4 DEF redis_len, CompleteAt, PLUS, DASH, COLON, STAR, DOLLAR
<1>3. CASE Head(d) = DOLLAR
  <2>1. redis_bulk_len(d) = Complete(n)
    BY <1>1, <1>3 DEF redis_len, PLUS, DASH, COLON, STAR, DOLLAR
  <2>2. redis_bulk_len(e) = Complete(n)
    BY <2>1, BulkAgree
  <2>3. n # 0
    <3>1. line_end(d, 0) # 0
      BY <2>1 DEF redis_bulk_len, Complete, More
    <3>2. PICK h \in 2 .. Len(d) : h = line_end(d, 0)
      BY <3>1, LineIs
    <3>3. IsNumber(BulkText(d, h)) /\ n = BulkTotal(BulkText(d, h), h)
      BY <2>1, <3>1, <3>2, BulkIs DEF Complete, More, Error
    <3>. QED
      BY <3>2, <3>3, BulkIsLonger
  <2>4. e # <<>> /\ Head(e) = Head(d)
    BY <1>1, <2>3 DEF Agree
  <2>. QED
    BY <1>3, <2>2, <2>4 DEF redis_len, PLUS, DASH, COLON, STAR, DOLLAR
<1>4. CASE Head(d) \notin {PLUS, DASH, COLON, STAR, DOLLAR}
  BY <1>1, <1>4 DEF redis_len, Error, Complete
<1>. QED
  BY <1>2, <1>3, <1>4

LEMMA RedisStaysWrong ==
    ASSUME NEW d \in Seq(Byte), NEW e \in Seq(Byte), Agree(d, e, Len(d)),
           redis_len(d).tag = "error"
    PROVE  redis_len(e) = redis_len(d)
<1>1. d # <<>>
  BY DEF redis_len, More
<1>2. e # <<>> /\ Head(e) = Head(d)
  BY <1>1 DEF Agree
<1>3. CASE Head(d) \in {PLUS, DASH, COLON, STAR}
  <2>1. redis_len(d) = CompleteAt(line_end(d, 0))
    BY <1>1, <1>3 DEF redis_len, PLUS, DASH, COLON, STAR, DOLLAR
  <2>. QED
    BY <2>1 DEF CompleteAt, Complete, More
<1>4. CASE Head(d) = DOLLAR
  <2>1. redis_len(d) = redis_bulk_len(d) /\ redis_len(e) = redis_bulk_len(e)
    BY <1>1, <1>2, <1>4 DEF redis_len, PLUS, DASH, COLON, STAR, DOLLAR
  <2>. QED
    BY <2>1, BulkStaysWrong
<1>5. CASE Head(d) \notin {PLUS, DASH, COLON, STAR, DOLLAR}
  BY <1>1, <1>2, <1>5 DEF redis_len
<1>. QED
  BY <1>3, <1>4, <1>5

LEMMA SshAgree ==
    ASSUME NEW d \in Seq(Byte), NEW e \in Seq(Byte), NEW n \in Nat,
           Agree(d, e, n), ssh_len(d) = Complete(n)
    PROVE  ssh_len(e) = Complete(n)
<1>. DEFINE ends(x) == {i \in 1 .. Len(x) : x[i] = LF}
<1>1. ends(d) \in SUBSET Nat /\ ends(e) \in SUBSET Nat
  OBVIOUS
<1>2. ends(d) # {} /\ Min(ends(d)) = n /\ n # 0
  BY DEF ssh_len, CompleteAt, Complete, More
<1>3. n \in ends(d) /\ \A y \in ends(d) : n <= y
  <2>. HIDE DEF ends
  <2>. QED
    BY <1>1, <1>2, LeastOf
<1>4. n \in ends(e)
  BY <1>3 DEF Agree
<1>5. ASSUME NEW y \in ends(e) PROVE n <= y
  <2>1. CASE y < n
    <3>1. y \in ends(d)
      BY <2>1 DEF Agree
    <3>. QED
      BY <1>3, <3>1
  <2>. QED
    BY <2>1
<1>6. Min(ends(e)) = n
  <2>. HIDE DEF ends
  <2>. QED
    BY <1>1, <1>4, <1>5, MinIs
<1>. QED
  BY <1>2, <1>4, <1>6 DEF ssh_len, CompleteAt

(* The headers of MySQL and Postgres *)
LEMMA MysqlTotal ==
    ASSUME NEW data \in Seq(Byte), Len(data) >= 4
    PROVE  LittleEndian(data) \in Nat
<1>1. data[1] \in Nat /\ data[2] \in Nat /\ data[3] \in Nat
  BY ElementOfSeq, ByteIsNat
<1>. QED
  BY <1>1, LittleEndianSum, Zenon

LEMMA PostgresTotal ==
    ASSUME NEW data \in Seq(Byte), Len(data) >= 5
    PROVE  BigEndian(SubSeq(data, 2, 5)) \in Nat
<1>1. SubSeq(data, 2, 5) \in Seq(Byte) /\ Len(SubSeq(data, 2, 5)) = 4
  OBVIOUS
<1>. QED
  BY <1>1, BigEndianType

LEMMA PostgresIs ==
    ASSUME NEW data \in Seq(Byte), Len(data) >= 5, NEW max,
           NEW b \in Nat, b = BigEndian(SubSeq(data, 2, 5))
    PROVE  postgres_len(data, max) =
              IF data[1] \notin Alphabetic \/ b < 4
              THEN Error("protocol_mismatch") ELSE Sized(data, b + 1, max)
<1>1. ~(Len(data) < 5)
  OBVIOUS
<1>. QED
  BY <1>1, Zenon DEF postgres_len

LEMMA MysqlAgree ==
    ASSUME NEW d \in Seq(Byte), NEW e \in Seq(Byte), NEW n \in Nat,
           NEW max \in Nat, Agree(d, e, n), n >= 4
    PROVE  LittleEndian(e) = LittleEndian(d)
<1>1. d[1] = e[1] /\ d[2] = e[2] /\ d[3] = e[3]
  BY DEF Agree
<1>. QED
  BY <1>1 DEF LittleEndian

(* A complete message is found complete in whatever agrees with it: in the *)
(* truncated evidence as well as in longer data (message_len).             *)
THEOREM CompleteIsLocal ==
    ASSUME NEW p \in Protocol, NEW max \in Nat, NEW n \in Nat,
           NEW d \in Seq(Byte), NEW e \in Seq(Byte),
           Agree(d, e, n), Len(e) <= max, message_len(p, d, max) = Complete(n)
    PROVE  message_len(p, e, max) = Complete(n)
<1>1. Framed(p, d, max) = Complete(n)
  BY DEF message_len, Error, Complete
<1>2. message_len(p, e, max) = Framed(p, e, max)
  BY DEF message_len
<1>3. CASE p = "ssh"
  BY <1>1, <1>2, <1>3, SshAgree DEF Framed
<1>4. CASE p \in {"ftp", "smtp"}
  BY <1>1, <1>2, <1>4, ReplyAgree DEF Framed, smtp_len
<1>5. CASE p = "redis"
  BY <1>1, <1>2, <1>5, RedisAgree DEF Framed
<1>6. CASE p = "mysql"
  <2>1. mysql_len(d, max) = Complete(n)
    BY <1>1, <1>6 DEF Framed
  <2>2. Len(d) >= 4
    BY <2>1 DEF mysql_len, More, Complete
  <2>3. LittleEndian(d) \in Nat
    BY <2>2, MysqlTotal
  <2>4. n = LittleEndian(d) + 4 /\ n <= max
    BY <2>1, <2>2, <2>3 DEF mysql_len, Sized, More, Complete, Error
  <2>5. LittleEndian(e) = LittleEndian(d)
    BY <2>3, <2>4, MysqlAgree
  <2>6. Len(e) >= n /\ Len(e) >= 4
    BY <2>3, <2>4 DEF Agree
  <2>7. mysql_len(e, max) = Complete(n)
    BY <2>3, <2>4, <2>5, <2>6 DEF mysql_len, Sized
  <2>. QED
    BY <1>2, <1>6, <2>7 DEF Framed
<1>7. CASE p = "postgres"
  <2>1. postgres_len(d, max) = Complete(n)
    BY <1>1, <1>7 DEF Framed
  <2>2. Len(d) >= 5
    BY <2>1 DEF postgres_len, More, Complete
  <2>3. PICK b \in Nat : b = BigEndian(SubSeq(d, 2, 5))
    BY <2>2, PostgresTotal
  <2>4. b >= 4 /\ d[1] \in Alphabetic
    BY <2>1, <2>2, <2>3 DEF postgres_len, Error, Complete
  <2>5. n = b + 1 /\ n <= max
    BY <2>1, <2>2, <2>3, <2>4 DEF postgres_len, Sized, More, Complete, Error
  <2>6. SubSeq(e, 2, 5) = SubSeq(d, 2, 5) /\ e[1] = d[1]
    <3>1. 2 \in 1 .. n + 1 /\ 5 \in 0 .. n
      BY <2>4, <2>5
    <3>. QED
      BY <3>1, AgreeSub DEF Agree
  <2>7. Len(e) >= n /\ Len(e) >= 5
    BY <2>4, <2>5 DEF Agree
  <2>8. postgres_len(e, max) = Complete(n)
    <3>1. postgres_len(e, max) = Sized(e, b + 1, max)
      <4>1. b = BigEndian(SubSeq(e, 2, 5))
        BY <2>3, <2>6, Zenon
      <4>2. e[1] \in Alphabetic /\ ~(b < 4)
        BY <2>4, <2>6
      <4>. QED
        BY <2>7, <4>1, <4>2, PostgresIs
    <3>2. Sized(e, b + 1, max) = Complete(n)
      BY <2>5, <2>7 DEF Sized
    <3>. QED
      BY <3>1, <3>2
  <2>. QED
    BY <1>2, <1>7, <2>8 DEF Framed
<1>. QED
  BY <1>3, <1>4, <1>5, <1>6, <1>7 DEF Protocol

(* A rejected beginning stays rejected, whatever follows (message_len).    *)
LEMMA WrongStaysWrong ==
    ASSUME NEW p \in Protocol, NEW max \in Nat,
           NEW d \in Seq(Byte), NEW e \in Seq(Byte), Agree(d, e, Len(d)),
           Len(e) <= max, message_len(p, d, max).tag = "error"
    PROVE  message_len(p, e, max) = message_len(p, d, max)
<1>1. Len(d) <= max
  BY DEF Agree
<1>2. message_len(p, e, max) = Framed(p, e, max)
      /\ message_len(p, d, max) = Framed(p, d, max)
  BY <1>1 DEF message_len
<1>3. CASE p = "ssh"
  BY <1>2, <1>3 DEF Framed, ssh_len, CompleteAt, Complete, More
<1>4. CASE p \in {"ftp", "smtp"}
  BY <1>2, <1>4, ReplyStaysWrong DEF Framed, smtp_len
<1>5. CASE p = "redis"
  BY <1>2, <1>5, RedisStaysWrong DEF Framed
<1>6. CASE p = "mysql"
  <2>1. mysql_len(d, max).tag = "error"
    BY <1>2, <1>6 DEF Framed
  <2>2. Len(d) >= 4
    BY <2>1 DEF mysql_len, More
  <2>3. LittleEndian(d) \in Nat
    BY <2>2, MysqlTotal
  <2>4. LittleEndian(d) + 4 > max
    BY <2>1, <2>2, <2>3 DEF mysql_len, Sized, More, Complete
  <2>5. Len(e) >= 4 /\ LittleEndian(e) = LittleEndian(d)
    BY <2>2, MysqlAgree DEF Agree
  <2>6. mysql_len(e, max) = mysql_len(d, max)
    BY <2>2, <2>3, <2>4, <2>5 DEF mysql_len, Sized
  <2>. QED
    BY <1>2, <1>6, <2>6 DEF Framed
<1>7. CASE p = "postgres"
  <2>1. postgres_len(d, max).tag = "error"
    BY <1>2, <1>7 DEF Framed
  <2>2. Len(d) >= 5
    BY <2>1 DEF postgres_len, More
  <2>3. PICK b \in Nat : b = BigEndian(SubSeq(d, 2, 5))
    BY <2>2, PostgresTotal
  <2>4. SubSeq(e, 2, 5) = SubSeq(d, 2, 5) /\ e[1] = d[1] /\ Len(e) >= 5
    <3>1. 2 \in 1 .. Len(d) + 1 /\ 5 \in 0 .. Len(d) /\ Len(d) \in Nat
      BY <2>2
    <3>. QED
      BY <2>2, <3>1, AgreeSub DEF Agree
  <2>5. d[1] \notin Alphabetic \/ b < 4 \/ b + 1 > max
    BY <2>1, <2>2, <2>3 DEF postgres_len, Sized, More, Complete
  <2>6. postgres_len(e, max) = postgres_len(d, max)
    <3>1. CASE d[1] \notin Alphabetic \/ b < 4
      BY <2>2, <2>3, <2>4, <3>1, PostgresIs
    <3>2. CASE d[1] \in Alphabetic /\ ~(b < 4)
      <4>1. /\ postgres_len(e, max) = Sized(e, b + 1, max)
            /\ postgres_len(d, max) = Sized(d, b + 1, max)
        BY <2>2, <2>3, <2>4, <3>2, PostgresIs
      <4>2. Sized(e, b + 1, max) = Sized(d, b + 1, max)
        BY <2>5, <3>2 DEF Sized
      <4>. QED
        BY <4>1, <4>2
    <3>. QED
      BY <3>1, <3>2
  <2>. QED
    BY <1>2, <1>7, <2>6 DEF Framed
<1>. QED
  BY <1>3, <1>4, <1>5, <1>6, <1>7 DEF Protocol

(* There are three kinds of verdict *)
Kind(v) == v = More \/ v.tag = "error" \/ v = Complete(v.len)

LEMMA Kinds ==
    /\ Kind(More)
    /\ \A n : Kind(Complete(n)) /\ Kind(CompleteAt(n))
    /\ \A st : Kind(Error(st))
  BY DEF Kind, More, Complete, CompleteAt, Error

LEMMA SizedKind ==
    ASSUME NEW data \in Seq(Byte), NEW total \in Nat, NEW max \in Nat
    PROVE  Kind(Sized(data, total, max))
  BY Kinds DEF Sized

LEMMA VerdictKinds ==
    ASSUME NEW p \in Protocol, NEW max \in Nat, NEW d \in Seq(Byte),
           message_len(p, d, max) # More,
           message_len(p, d, max).tag # "error"
    PROVE  \E n \in 0 .. Len(d) : message_len(p, d, max) = Complete(n)
<1>1. Kind(message_len(p, d, max))
  <2>1. CASE Len(d) > max
    BY <2>1, Kinds DEF message_len
  <2>2. CASE ~(Len(d) > max)
    <3>0. message_len(p, d, max) = Framed(p, d, max)
      BY <2>2 DEF message_len
    <3>1. CASE p = "ssh"
      BY <3>0, <3>1, Kinds DEF Framed, ssh_len
    <3>2. CASE p \in {"ftp", "smtp"}
      BY <3>0, <3>2, Kinds DEF Framed, smtp_len, ftp_len
    <3>3. CASE p = "redis"
      BY <3>0, <3>3, Kinds DEF Framed, redis_len, redis_bulk_len
    <3>4. CASE p = "mysql"
      <4>1. Len(d) >= 4 => LittleEndian(d) + 4 \in Nat
        BY MysqlTotal
      <4>2. Len(d) < 4 \/ Len(d) >= 4
        OBVIOUS
      <4>. QED
        BY <3>0, <3>4, <4>1, <4>2, Kinds, SizedKind DEF Framed, mysql_len
    <3>5. CASE p = "postgres"
      <4>1. CASE Len(d) < 5
        BY <3>0, <3>5, <4>1, Kinds DEF Framed, postgres_len
      <4>2. CASE Len(d) >= 5
        <5>1. PICK b \in Nat : b = BigEndian(SubSeq(d, 2, 5))
          BY <4>2, PostgresTotal
        <5>2. Kind(postgres_len(d, max))
          BY <4>2, <5>1, PostgresIs, Kinds, SizedKind
        <5>. QED
          BY <3>0, <3>5, <5>2 DEF Framed
      <4>. QED
        BY <4>1, <4>2
    <3>. QED
      BY <3>1, <3>2, <3>3, <3>4, <3>5 DEF Protocol
  <2>. QED
    BY <2>1, <2>2
<1>2. PICK n : message_len(p, d, max) = Complete(n)
  BY <1>1 DEF Kind
<1>3. n \in 0 .. Len(d)
  BY <1>2, MessageFits DEF Complete
<1>. QED
  BY <1>2, <1>3

(* A verdict is final: once the bytes of a server have been accepted or    *)
(* rejected, more of them change nothing (message_len).                    *)
THEOREM VerdictIsFinal ==
    ASSUME NEW p \in Protocol, NEW max \in Nat,
           NEW d \in Seq(Byte), NEW e \in Seq(Byte), Agree(d, e, Len(d)),
           Len(e) <= max, message_len(p, d, max) # More
    PROVE  message_len(p, e, max) = message_len(p, d, max)
<1>1. CASE message_len(p, d, max).tag = "error"
  BY <1>1, WrongStaysWrong
<1>2. ASSUME NEW n \in 0 .. Len(d), message_len(p, d, max) = Complete(n)
      PROVE  message_len(p, e, max) = message_len(p, d, max)
  <2>1. Agree(d, e, n)
    BY DEF Agree
  <2>. QED
    BY <1>2, <2>1, CompleteIsLocal
<1>. QED
  BY <1>1, <1>2, VerdictKinds

-----------------------------------------------------------------------------
(* Sequences *)

LEMMA PrefixOfConcat ==
    ASSUME NEW s \in Seq(Byte), NEW t \in Seq(Byte)
    PROVE  IsPrefix(s, s \o t)
<1>1. Len(s) <= Len(s \o t)
  BY ConcatProperties
<1>2. \A i \in 1 .. Len(s) : (s \o t)[i] = s[i]
  BY ConcatProperties
<1>. QED
  BY <1>1, <1>2, ConcatProperties DEF IsPrefix

LEMMA PrefixTruncated ==
    ASSUME NEW s \in Seq(Byte), NEW t \in Seq(Byte), IsPrefix(s, t),
           NEW n \in 0 .. Len(s)
    PROVE  /\ SubSeq(s, 1, n) \in Seq(Byte) /\ Len(SubSeq(s, 1, n)) = n
           /\ IsPrefix(SubSeq(s, 1, n), t)
<1>1. \A i \in 1 .. Len(s) : s[i] = t[i]
  BY DEF IsPrefix
<1>. QED
  BY <1>1 DEF IsPrefix

LEMMA SplitConcat ==
    ASSUME NEW s \in Seq(Byte), NEW t \in Seq(Byte), NEW n \in 0 .. Len(t)
    PROVE  /\ SubSeq(t, 1, n) \in Seq(Byte) /\ Len(SubSeq(t, 1, n)) = n
           /\ SubSeq(t, n + 1, Len(t)) \in Seq(Byte)
           /\ s \o t = (s \o SubSeq(t, 1, n)) \o SubSeq(t, n + 1, Len(t))
<1>. DEFINE a == SubSeq(t, 1, n)
            b == SubSeq(t, n + 1, Len(t))
<1>1. /\ a \in Seq(Byte) /\ Len(a) = n
      /\ \A i \in 1 .. n : a[i] = t[i]
  OBVIOUS
<1>2. /\ b \in Seq(Byte) /\ Len(b) = Len(t) - n
      /\ \A i \in 1 .. Len(t) - n : b[i] = t[n + i]
  OBVIOUS
<1>. HIDE DEF a, b
<1>3. a \o b = t
  <2>1. a \o b \in Seq(Byte) /\ Len(a \o b) = Len(t)
    <3>1. a \o b \in Seq(Byte)
      BY <1>1, <1>2, ConcatProperties, Zenon
    <3>2. Len(a \o b) = Len(a) + Len(b)
      BY <1>1, <1>2, ConcatProperties, Zenon
    <3>3. n \in Int /\ Len(t) \in Int
      OBVIOUS
    <3>4. Len(a) + Len(b) = Len(t)
      BY <1>1, <1>2, <3>3
    <3>. QED
      BY <3>1, <3>2, <3>4, Zenon
  <2>2. ASSUME NEW i \in 1 .. Len(t) PROVE (a \o b)[i] = t[i]
    <3>1. CASE i <= n
      BY <1>1, <1>2, <3>1
    <3>2. CASE i > n
      <4>1. (a \o b)[i] = b[i - n]
        BY <1>1, <1>2, <3>2
      <4>2. b[i - n] = t[n + (i - n)]
        BY <1>2, <3>2
      <4>. QED
        BY <4>1, <4>2
    <3>3. i \in Int /\ n \in Int
      OBVIOUS
    <3>4. i <= n \/ i > n
      BY <3>3
    <3>. QED
      BY <3>1, <3>2, <3>4
  <2>3. PICK u \in Seq(Byte) : u = a \o b
    BY <2>1
  <2>4. u = t
    BY <2>1, <2>2, <2>3, SeqEqual
  <2>. QED
    BY <2>3, <2>4
<1>4. (s \o a) \o b = s \o (a \o b)
  BY <1>1, <1>2, ConcatAssociative
<1>. QED
  BY <1>1, <1>2, <1>3, <1>4 DEF a, b

-----------------------------------------------------------------------------
(* The inspection *)

(* What is read belongs to the current connection and was not yet too much *)
(* when it was asked for; a connection that has been written to is one     *)
(* with a complete banner, and its attempt is the last.                    *)
InspectInv ==
    /\ proto \in Protocol
    /\ raw \in Seq(Byte) /\ rest \in Seq(Byte) /\ stream \in Seq(Byte)
    /\ Len(raw) <= MaxBytes + ChunkSize
    /\ IsPrefix(raw, stream)
    /\ pc = "read" => stream = raw \o rest
    /\ probed = 0 \/ (probed = 1 /\ proto = "ssh" /\ mode # "passive_banner")
    /\ pc \in {"connect", "read", "identify"} => probed = 0
    /\ pc \in {"identify", "offer", "packet"} =>
          proto = "ssh" /\ mode # "passive_banner" /\ status = "ok"
    /\ pc = "judge" /\ probed # 0 => status = "ok"

LEMMA InspectInit == Init => InspectInv
<1>1. <<>> \in Seq(Byte) /\ IsPrefix(<<>>, <<>>)
  BY DEF IsPrefix
<1>. QED
  BY <1>1, InspectAssumption DEF Init, InspectInv

(* One step per action; reads and the truncation move bytes. *)
LEMMA InspectStep == InspectInv /\ [Next]_vars => InspectInv'
<1>. SUFFICES ASSUME InspectInv, [Next]_vars PROVE InspectInv'
  OBVIOUS
<1>. USE InspectAssumption DEF InspectInv
<1>1. CASE Connect
  <2>1. PICK s \in Streams[proto] : stream' = s /\ rest' = s
    BY <1>1 DEF Connect
  <2>2. s \in Seq(Byte)
    BY <2>1 DEF Byte
  <2>3. raw' = <<>> /\ <<>> \in Seq(Byte) /\ IsPrefix(<<>>, s) /\ s = <<>> \o s
    BY <1>1, <2>2 DEF Connect, IsPrefix
  <2>. QED
    BY <1>1, <2>1, <2>2, <2>3 DEF Connect, config
<1>2. CASE BannerComplete
  <2>1. banner_completion.len \in 0 .. Len(raw)
    BY <1>2, MessageFits DEF BannerComplete, banner_completion
  <2>2. raw' \in Seq(Byte) /\ Len(raw') <= Len(raw) /\ IsPrefix(raw', stream)
    BY <1>2, <2>1, PrefixTruncated DEF BannerComplete
  <2>. QED
    BY <1>2, <2>2 DEF BannerComplete, config
<1>3. CASE ReadChunk
  <2>1. PICK n \in 1 .. ChunkSize :
           /\ n <= Len(rest)
           /\ raw' = raw \o SubSeq(rest, 1, n)
           /\ rest' = SubSeq(rest, n + 1, Len(rest))
    BY <1>3 DEF ReadChunk
  <2>2. n \in 0 .. Len(rest)
    BY <2>1
  <2>3. /\ SubSeq(rest, 1, n) \in Seq(Byte) /\ Len(SubSeq(rest, 1, n)) = n
        /\ rest' \in Seq(Byte) /\ raw \o rest = raw' \o rest'
    BY <2>1, <2>2, SplitConcat
  <2>4. raw' \in Seq(Byte) /\ Len(raw') = Len(raw) + n
    BY <2>1, <2>3, ConcatProperties
  <2>5. Len(raw) <= MaxBytes
    BY <1>3 DEF ReadChunk, banner_completion, message_len, More, Error
  <2>6. stream' = raw' \o rest'
    BY <1>3, <2>3 DEF ReadChunk
  <2>7. IsPrefix(raw', stream')
    BY <2>3, <2>4, <2>6, PrefixOfConcat
  <2>8. Len(raw') <= MaxBytes + ChunkSize
    BY <2>4, <2>5
  <2>. QED
    BY <1>3, <2>3, <2>4, <2>6, <2>7, <2>8 DEF ReadChunk, config
<1>4. CASE ReadMore
  <2>1. PICK n \in 1 .. ChunkSize :
           /\ raw' = raw \o [i \in 1 .. n |-> Filler]
           /\ stream' = stream \o [i \in 1 .. n |-> Filler]
    BY <1>4 DEF ReadMore
  <2>2. PICK bytes \in Seq(Byte) : bytes = [i \in 1 .. n |-> Filler] /\ Len(bytes) = n
    <3>1. Filler \in Byte
      BY DEF Byte
    <3>2. [i \in 1 .. n |-> Filler] \in [1 .. n -> Byte] /\ n \in Nat
      BY <3>1
    <3>3. [i \in 1 .. n |-> Filler] \in Seq(Byte)
      BY <3>2, SMTT(20)
    <3>4. Len([i \in 1 .. n |-> Filler]) = n
      BY <3>2, SMTT(20)
    <3>. QED
      BY <3>3, <3>4, Zenon
  <2>3. raw' \in Seq(Byte) /\ Len(raw') = Len(raw) + n
    BY <2>1, <2>2, ConcatProperties
  <2>4. Len(raw) <= MaxBytes
    BY <1>4 DEF ReadMore, banner_completion, message_len, More, Error
  <2>5. stream = raw /\ rest' = <<>>
    BY <1>4, ConcatEmptySeq DEF ReadMore
  <2>6. stream' = raw' \o rest' /\ stream' \in Seq(Byte)
    BY <2>1, <2>3, <2>5, ConcatEmptySeq
  <2>7. IsPrefix(raw', stream')
    <3>1. <<>> \in Seq(Byte)
      OBVIOUS
    <3>. QED
      BY <2>3, <2>5, <2>6, <3>1, PrefixOfConcat
  <2>8. Len(raw') <= MaxBytes + ChunkSize
    BY <2>3, <2>4
  <2>. QED
    BY <1>4, <2>3, <2>5, <2>6, <2>7, <2>8 DEF ReadMore, config
<1>5. CASE ConnectError \/ ConnectFails \/ Exhausted
  BY <1>5 DEF ConnectError, ConnectFails, Exhausted, config, observation
<1>6. CASE BannerRejected \/ ReadEnd \/ ReadFails
  BY <1>6 DEF BannerRejected, ReadEnd, ReadFails, config
<1>7. CASE WriteFails \/ WriteIdentification \/ WriteKexinit
  BY <1>7 DEF WriteFails, WriteIdentification, WriteKexinit, config, observation
<1>8. CASE PacketPanics \/ PacketUseless \/ PacketFails \/ Kexinit
  BY <1>8 DEF PacketPanics, PacketUseless, PacketFails, Kexinit, config, observation
<1>9. CASE Judge
  <2>1. status = "ok" => status' = "ok" \/ terminal_banner_status(status')
    BY <1>9 DEF Judge, Judged, terminal_banner_status
  <2>. QED
    BY <1>9, <2>1 DEF Judge, config
<1>10. CASE UNCHANGED vars
  BY <1>10 DEF vars, config, observation
<1>. QED
  BY <1>1, <1>2, <1>3, <1>4, <1>5, <1>6, <1>7, <1>8, <1>9, <1>10 DEF Next

(* InspectInv holds in every state of an inspection (inspect_banner).      *)
THEOREM InspectInductive == Spec => []InspectInv
  BY InspectInit, InspectStep, PTL DEF Spec

(* The verdicts of the framings that reject a message name a status. *)
Rejects(v) == v.tag = "error" => v.status \in {"protocol_mismatch", "oversized"}

LEMMA SizedRejects ==
    ASSUME NEW data \in Seq(Byte), NEW total \in Nat, NEW max \in Nat
    PROVE  Rejects(Sized(data, total, max))
  BY DEF Sized, Complete, More, Error, Rejects, Status

LEMMA ReplyRejects ==
    ASSUME NEW data
    PROVE  Rejects(ftp_len(data))
  BY DEF ftp_len, CompleteAt, Complete, More, Error, Rejects, Status

LEMMA MessageRejects ==
    ASSUME NEW data \in Seq(Byte), NEW p \in Protocol, NEW max \in Nat
    PROVE  Rejects(message_len(p, data, max))
<1>. USE DEF Complete, More, Error, Rejects, Status
<1>1. CASE Len(data) > max
  BY <1>1 DEF message_len
<1>2. CASE ~(Len(data) > max) /\ p = "ssh"
  BY <1>2 DEF message_len, Framed, ssh_len, CompleteAt
<1>3. CASE ~(Len(data) > max) /\ p \in {"ftp", "smtp"}
  BY <1>3, ReplyRejects DEF message_len, Framed, smtp_len
<1>4. CASE ~(Len(data) > max) /\ p = "mysql"
  <2>1. Len(data) >= 4 => LittleEndian(data) + 4 \in Nat
    <3>1. ASSUME Len(data) >= 4
          PROVE  data[1] \in Nat /\ data[2] \in Nat /\ data[3] \in Nat
      BY <3>1, ElementOfSeq, ByteIsNat
    <3>. QED
      BY <3>1, LittleEndianSum
  <2>. QED
    BY <1>4, <2>1, SizedRejects DEF message_len, Framed, mysql_len
<1>5. CASE ~(Len(data) > max) /\ p = "redis"
  BY <1>5 DEF message_len, Framed, redis_len, redis_bulk_len, CompleteAt
<1>6. CASE ~(Len(data) > max) /\ p = "postgres"
  <2>1. Len(data) >= 5 => BigEndian(SubSeq(data, 2, 5)) + 1 \in Nat
    <3>1. ASSUME Len(data) >= 5
          PROVE  SubSeq(data, 2, 5) \in Seq(Byte) /\ Len(SubSeq(data, 2, 5)) = 4
      BY <3>1
    <3>2. Len(data) >= 5 => BigEndian(SubSeq(data, 2, 5)) \in Nat
      BY <3>1, BigEndianType
    <3>. QED
      BY <3>2
  <2>. QED
    BY <1>6, <2>1, SizedRejects DEF message_len, Framed, postgres_len
<1>. QED
  BY <1>1, <1>2, <1>3, <1>4, <1>5, <1>6 DEF Protocol

(* An attempt that has begun is one of the Attempts. *)
AttemptOK ==
    pc \in {"read", "identify", "offer", "packet", "judge"} => attempt < Attempts

PlacesOK ==
    /\ mode \in Mode
    /\ pc \in {"connect", "read", "identify", "offer", "packet", "judge",
               "done", "failed", "panicked"}
    /\ attempt \in 0 .. Attempts
    /\ status \in Status
    /\ parsed \in {None, "banner", "kex"}
    /\ AttemptOK

LEMMA PlacesStep == InspectInv /\ PlacesOK /\ [Next]_vars => PlacesOK'
<1>. SUFFICES ASSUME InspectInv, PlacesOK, [Next]_vars PROVE PlacesOK'
  OBVIOUS
<1>. USE InspectAssumption DEF PlacesOK, AttemptOK, Status
<1>1. CASE ConnectError \/ ConnectFails \/ Connect \/ Exhausted
  BY <1>1 DEF ConnectError, ConnectFails, Connect, Exhausted, config, observation
<1>2. CASE BannerComplete \/ ReadChunk \/ ReadMore \/ ReadEnd \/ ReadFails
  BY <1>2 DEF BannerComplete, ReadChunk, ReadMore, ReadEnd, ReadFails, config
<1>3. CASE BannerRejected
  <2>1. banner_completion.status \in Status
    BY <1>3, MessageRejects
    DEF BannerRejected, banner_completion, Rejects, InspectInv
  <2>. QED
    BY <1>3, <2>1 DEF BannerRejected, config
<1>4. CASE WriteFails \/ WriteIdentification \/ WriteKexinit
  BY <1>4 DEF WriteFails, WriteIdentification, WriteKexinit, config, observation
<1>5. CASE PacketPanics \/ PacketUseless \/ PacketFails \/ Kexinit
  BY <1>5 DEF PacketPanics, PacketUseless, PacketFails, Kexinit, config, observation
<1>6. CASE Judge
  BY <1>6 DEF Judge, Judged, config
<1>7. CASE UNCHANGED vars
  BY <1>7 DEF vars, config, observation
<1>. QED
  BY <1>1, <1>2, <1>3, <1>4, <1>5, <1>6, <1>7 DEF Next

FaultsOK == faults \in BOOLEAN

LEMMA FaultsStep == FaultsOK /\ [Next]_vars => FaultsOK'
<1>1. ASSUME FaultsOK, [Next]_vars PROVE faults' = faults \/ faults' = TRUE
  BY <1>1
  DEF Next, vars, ConnectError, ConnectFails, Connect, Exhausted,
      BannerComplete, BannerRejected, ReadChunk, ReadMore, ReadEnd, ReadFails,
      WriteFails, WriteIdentification, WriteKexinit, PacketPanics,
      PacketUseless, PacketFails, Kexinit, Judge
<1>. QED
  BY <1>1, Zenon DEF FaultsOK

(* Every variable keeps its type: the attempts stay within                 *)
(* banner_attempts, and every way to reject a message names a status       *)
(* (inspect_banner, message_len).                                          *)
THEOREM TypeCorrect == Spec => []TypeOK
<1>1. Init => PlacesOK /\ FaultsOK
  <2>1. Init => PlacesOK
    BY InspectAssumption DEF Init, PlacesOK, AttemptOK, Status
  <2>2. Init => FaultsOK
    BY Zenon DEF Init, FaultsOK
  <2>. QED
    BY <2>1, <2>2
<1>2. InspectInv /\ PlacesOK /\ FaultsOK => TypeOK
  BY DEF InspectInv, PlacesOK, FaultsOK, TypeOK, Byte
<1>. QED
  BY <1>1, <1>2, InspectInductive, PlacesStep, FaultsStep, PTL DEF Spec

(* Evidence never mixes two attempts (inspect_banner, read_banner).        *)
THEOREM EvidenceIsPure == Spec => []EvidenceOfOneAttempt
<1>1. InspectInv => EvidenceOfOneAttempt
  BY DEF InspectInv, EvidenceOfOneAttempt
<1>. QED
  BY <1>1, InspectInductive, PTL

(* No server can make the evidence grow beyond banner_max_bytes and one    *)
(* read (read_banner, message_len).                                        *)
THEOREM EvidenceIsBounded == Spec => []EvidenceBounded
<1>1. InspectInv => EvidenceBounded
  BY DEF InspectInv, EvidenceBounded
<1>. QED
  BY <1>1, InspectInductive, PTL

(* The two together: the evidence of a result is limited and of one        *)
(* connection.                                                             *)
THEOREM EvidenceIsSound == Spec => []EvidenceSound
<1>1. EvidenceOfOneAttempt /\ EvidenceBounded => EvidenceSound
  BY DEF EvidenceSound
<1>. QED
  BY <1>1, EvidenceIsPure, EvidenceIsBounded, PTL

(* At most one connection of an inspection is written to, and only to SSH  *)
(* servers in an active mode (inspect_ssh_stream, inspect_banner).         *)
THEOREM ProbesAreSingle == Spec => []OneActiveProbe
<1>1. InspectInv => OneActiveProbe
  BY DEF InspectInv, OneActiveProbe
<1>. QED
  BY <1>1, InspectInductive, PTL

-----------------------------------------------------------------------------
(* Chunks *)

(* The verdict on the data is the first verdict on a prefix of them. *)
LEMMA FirstIsFinal ==
    ASSUME proto \in Protocol, NEW data \in Seq(Byte), Len(data) <= MaxBytes
    PROVE  message_len(proto, data, MaxBytes) = FirstVerdict(data)
<1>. DEFINE V(n) == message_len(proto, SubSeq(data, 1, n), MaxBytes)
            decided == {n \in 0 .. Len(data) : V(n) # More}
<1>0. MaxBytes \in Nat /\ decided \in SUBSET Nat
  BY InspectAssumption
<1>1. FirstVerdict(data) = IF decided = {} THEN More ELSE V(Min(decided))
  BY DEF FirstVerdict
<1>2. ASSUME NEW n \in 0 .. Len(data)
      PROVE  /\ SubSeq(data, 1, n) \in Seq(Byte) /\ Len(SubSeq(data, 1, n)) = n
             /\ Agree(SubSeq(data, 1, n), data, n)
  BY DEF Agree
<1>3. SubSeq(data, 1, Len(data)) = data
  OBVIOUS
<1>4. CASE decided = {}
  <2>1. Len(data) \in 0 .. Len(data)
    OBVIOUS
  <2>2. V(Len(data)) = More
    <3>. HIDE DEF V
    <3>. QED
      BY <1>4, <2>1
  <2>. QED
    BY <1>1, <1>3, <1>4, <2>2
<1>5. CASE decided # {}
  <2>1. PICK m \in 0 .. Len(data) : m = Min(decided) /\ V(m) # More
    <3>1. Min(decided) \in decided
      <4>. HIDE DEF decided
      <4>. QED
        BY <1>0, <1>5, MinIn
    <3>. HIDE DEF V
    <3>. QED
      BY <3>1
  <2>2. message_len(proto, data, MaxBytes) = V(m)
    BY <1>0, <1>2, <2>1, VerdictIsFinal
  <2>. HIDE DEF V, decided
  <2>. QED
    BY <1>1, <1>5, <2>1, <2>2
<1>. QED
  BY <1>4, <1>5

(* What read_banner makes of a server does not depend on how its bytes     *)
(* were cut into reads (read_banner, message_len).                         *)
THEOREM ChunksDoNotMatter == Spec => []ChunkingIrrelevant
<1>1. InspectInv => ChunkingIrrelevant
  BY FirstIsFinal DEF InspectInv, ChunkingIrrelevant
<1>. QED
  BY <1>1, InspectInductive, PTL

-----------------------------------------------------------------------------
(* Results *)

(* The banner was found complete, and so was its truncation. *)
Found == pc \in {"identify", "offer", "packet"} \/ (pc = "judge" /\ status = "ok")

(* Only an inspection that found a banner has status ok, and only one that *)
(* is over, or whose KEXINIT was read, has fields.                         *)
FoundOK ==
    /\ pc \in {"connect", "read"} => status # "ok"
    /\ pc \notin {"judge", "done"} => parsed = None
    /\ pc = "judge" => parsed = None \/ (parsed = "kex" /\ status = "ok")
    /\ pc = "done" => (status = "ok" <=> parsed # None)
    /\ Found \/ (pc = "done" /\ status = "ok") =>
          /\ message_len(proto, raw, MaxBytes) = Complete(Len(raw))
          /\ BytesDropped \/ stream = raw \o rest

(* a KEXINIT that could be read was read, unless a call failed or nothing  *)
(* was asked for; a banner that does not parse has no fields               *)
KexOK ==
    mode = "kexinit_probe" /\ proto = "ssh" /\ ~faults /\ ~BytesDropped
      /\ KexinitSent =>
        /\ pc = "judge" /\ status = "ok" => parsed = "kex" \/ ~parse(proto, raw)
        /\ pc = "done" /\ status = "ok" => parsed = "kex"

ResultInv == FoundOK /\ KexOK

LEMMA RestIs ==
    ASSUME NEW s \in Seq(Byte), NEW t \in Seq(Byte)
    PROVE  /\ SubSeq(s \o t, Len(s) + 1, Len(s \o t)) = t
           /\ Agree(s, s \o t, Len(s)) /\ s \o t \in Seq(Byte)
           /\ Len(s \o t) = Len(s) + Len(t)
<1>1. PICK u \in Seq(Byte) : u = s \o t
  BY ConcatProperties
<1>2. /\ Len(u) = Len(s) + Len(t)
      /\ \A i \in 1 .. Len(s) + Len(t) :
            u[i] = IF i <= Len(s) THEN s[i] ELSE t[i - Len(s)]
  BY <1>1, ConcatProperties, Zenon
<1>3. Agree(s, u, Len(s))
  BY <1>2 DEF Agree
<1>4. PICK v \in Seq(Byte) : v = SubSeq(u, Len(s) + 1, Len(u))
                             /\ Len(v) = Len(t)
                             /\ \A i \in 1 .. Len(t) : v[i] = u[Len(s) + i]
  <2>1. PICK a \in Nat, b \in Nat : a = Len(s) + 1 /\ b = Len(u)
    OBVIOUS
  <2>2. \A i \in a .. b : u[i] \in Byte
    BY <2>1, ElementOfSeq
  <2>3. /\ SubSeq(u, a, b) \in Seq(Byte)
        /\ Len(SubSeq(u, a, b)) = IF a <= b THEN b - a + 1 ELSE 0
        /\ \A i \in 1 .. b - a + 1 : SubSeq(u, a, b)[i] = u[a + i - 1]
    <3>1. a \in Int /\ b \in Int
      OBVIOUS
    <3>. QED
      BY <2>2, <3>1, SubSeqProperties
  <2>4. PICK w \in Seq(Byte) : w = SubSeq(u, a, b) /\ Len(w) = Len(t)
                               /\ \A i \in 1 .. Len(t) : w[i] = u[a + i - 1]
    <3>1. b - a + 1 = Len(t) /\ (IF a <= b THEN b - a + 1 ELSE 0) = Len(t)
      BY <1>2, <2>1
    <3>. QED
      BY <2>3, <3>1, Zenon
  <2>5. \A i \in 1 .. Len(t) : a + i - 1 = Len(s) + i
    BY <2>1
  <2>6. \A i \in 1 .. Len(t) : w[i] = u[Len(s) + i]
    BY <2>4, <2>5, Zenon
  <2>. QED
    BY <2>1, <2>4, <2>6, Zenon
<1>5. \A i \in 1 .. Len(t) : v[i] = t[i]
  <2>1. ASSUME NEW i \in 1 .. Len(t) PROVE v[i] = t[i]
    <3>1. Len(s) + i \in 1 .. Len(s) + Len(t) /\ ~(Len(s) + i <= Len(s))
          /\ (Len(s) + i) - Len(s) = i
      OBVIOUS
    <3>2. u[Len(s) + i] = t[i]
      BY <1>2, <3>1, Zenon
    <3>. QED
      BY <1>4, <3>2
  <2>. QED
    BY <2>1
<1>6. v = t
  BY <1>4, <1>5, SeqEqual
<1>. QED
  BY <1>1, <1>2, <1>3, <1>4, <1>6

LEMMA PieceIs ==
    ASSUME NEW s \in Seq(Byte), NEW n \in 0 .. Len(s)
    PROVE  /\ SubSeq(s, 1, n) \in Seq(Byte) /\ Len(SubSeq(s, 1, n)) = n
           /\ \A i \in 1 .. n : SubSeq(s, 1, n)[i] = s[i]
  OBVIOUS

(* Two complete messages at the front of the same bytes are one. *)
LEMMA OneMessage ==
    ASSUME NEW p \in Protocol, NEW max \in Nat,
           NEW d \in Seq(Byte), NEW e \in Seq(Byte),
           message_len(p, d, max) = Complete(Len(d)),
           message_len(p, e, max) = Complete(Len(e)),
           Len(d) <= Len(e), Agree(d, e, Len(d))
    PROVE  Len(d) = Len(e)
<1>1. PICK m \in Nat, n \in Nat : m = Len(d) /\ n = Len(e)
  OBVIOUS
<1>2. n <= max
  <2>1. message_len(p, e, max).tag = "complete"
    BY DEF Complete
  <2>. QED
    BY <1>1, <2>1, MessageFits
<1>3. message_len(p, e, max) = Complete(m)
  BY <1>1, <1>2, CompleteIsLocal
<1>4. Complete(m) = Complete(n)
  BY <1>1, <1>3, Zenon
<1>. QED
  BY <1>1, <1>4 DEF Complete

(* The KEXINIT of a server whose banner is raw is what is left to read. *)
LEMMA KexinitIsNext ==
    ASSUME InspectInv, stream = raw \o rest, KexinitSent,
           message_len(proto, raw, MaxBytes) = Complete(Len(raw))
    PROVE  /\ Len(rest) \in 6 .. MaxBytes
           /\ PacketTotal = Len(rest)
           /\ KexParses(rest)
<1>0. /\ raw \in Seq(Byte) /\ rest \in Seq(Byte) /\ stream \in Seq(Byte)
      /\ proto \in Protocol /\ MaxBytes \in Nat
  BY InspectAssumption DEF InspectInv
<1>1. PICK n \in 1 .. Len(stream) :
         /\ message_len(proto, SubSeq(stream, 1, n), MaxBytes) = Complete(n)
         /\ Len(SubSeq(stream, n + 1, Len(stream))) \in 6 .. MaxBytes
         /\ BigEndian(SubSeq(SubSeq(stream, n + 1, Len(stream)), 1, 4)) + 4 =
               Len(SubSeq(stream, n + 1, Len(stream)))
         /\ KexParses(SubSeq(stream, n + 1, Len(stream)))
  BY Zenon DEF KexinitSent
<1>2. PICK d \in Seq(Byte) : d = SubSeq(stream, 1, n) /\ Len(d) = n
                             /\ \A i \in 1 .. n : d[i] = stream[i]
  <2>1. n \in 0 .. Len(stream)
    BY <1>0
  <2>. QED
    BY <1>0, <2>1, PieceIs
<1>3. Agree(raw, stream, Len(raw)) /\ Len(raw) <= Len(stream)
  BY <1>0, RestIs DEF Agree
<1>4. message_len(proto, d, MaxBytes) = Complete(Len(d))
  BY <1>1, <1>2, Zenon
<1>5. n = Len(raw)
  <2>0. Len(raw) \in Nat /\ n \in Nat /\ Len(d) = n
    BY <1>0, <1>2
  <2>1. CASE n <= Len(raw)
    <3>1. Agree(d, raw, Len(d))
      BY <1>2, <1>3, <2>0, <2>1 DEF Agree
    <3>. QED
      BY <1>0, <1>4, <2>0, <2>1, <3>1, OneMessage
  <2>2. CASE Len(raw) <= n
    <3>1. Agree(raw, d, Len(raw))
      BY <1>2, <1>3, <2>0, <2>2 DEF Agree
    <3>. QED
      BY <1>0, <1>4, <2>0, <2>2, <3>1, OneMessage
  <2>. QED
    BY <2>0, <2>1, <2>2
<1>6. SubSeq(stream, n + 1, Len(stream)) = rest
  BY <1>0, <1>5, RestIs
<1>. QED
  BY <1>1, <1>6, Zenon DEF PacketTotal

(* A step that keeps the bytes keeps what is known of them. *)
LEMMA BytesKept ==
    ASSUME UNCHANGED <<proto, raw, rest, stream>>
    PROVE  /\ BytesDropped' <=> BytesDropped
           /\ KexinitSent' <=> KexinitSent
           /\ message_len(proto, raw, MaxBytes)' = message_len(proto, raw, MaxBytes)
           /\ Complete(Len(raw))' = Complete(Len(raw))
<1>1. BytesDropped' <=> BytesDropped
  BY DEF BytesDropped
<1>2. KexinitSent' <=> KexinitSent
  BY Zenon DEF KexinitSent
<1>3. /\ message_len(proto, raw, MaxBytes)' = message_len(proto, raw, MaxBytes)
      /\ Complete(Len(raw))' = Complete(Len(raw))
  BY Zenon
<1>. QED
  BY <1>1, <1>2, <1>3

(* Cut off after its message, the evidence is still that message. *)
LEMMA TruncationOK ==
    ASSUME InspectInv, BannerComplete
    PROVE  /\ message_len(proto, raw, MaxBytes)' = Complete(Len(raw))'
           /\ BytesDropped' \/ (stream = raw \o rest)'
<1>0. /\ raw \in Seq(Byte) /\ rest \in Seq(Byte) /\ proto \in Protocol
      /\ stream = raw \o rest /\ MaxBytes \in Nat
      /\ proto' = proto /\ rest' = rest /\ stream' = stream
  BY InspectAssumption DEF InspectInv, BannerComplete, config
<1>1. PICK L \in 0 .. Len(raw) : message_len(proto, raw, MaxBytes) = Complete(L)
  <2>1. message_len(proto, raw, MaxBytes).tag = "complete"
    BY DEF BannerComplete, banner_completion
  <2>2. /\ message_len(proto, raw, MaxBytes) # More
        /\ message_len(proto, raw, MaxBytes).tag # "error"
    BY <2>1 DEF More
  <2>. QED
    BY <1>0, <2>2, VerdictKinds
<1>2. raw' = SubSeq(raw, 1, L)
  BY <1>1 DEF BannerComplete, banner_completion, Complete
<1>3. PICK d \in Seq(Byte) : d = raw' /\ Len(d) = L /\ Agree(raw, d, L)
  <2>1. Agree(raw, SubSeq(raw, 1, L), L)
    BY <1>0, PieceIs DEF Agree
  <2>. QED
    BY <1>0, <1>2, <2>1, PieceIs
<1>4. Len(raw) <= MaxBytes /\ L <= MaxBytes
  <2>1. message_len(proto, raw, MaxBytes).tag = "complete"
    BY DEF BannerComplete, banner_completion
  <2>. QED
    BY <1>0, <2>1, MessageFits
<1>5. message_len(proto, d, MaxBytes) = Complete(L)
  BY <1>0, <1>1, <1>3, <1>4, CompleteIsLocal
<1>6. CASE L = Len(raw)
  <2>1. raw' = raw
    BY <1>0, <1>2, <1>6
  <2>. QED
    BY <1>0, <1>3, <1>5, <2>1
<1>7. CASE L # Len(raw)
  <2>1. Len(stream) = Len(raw) + Len(rest)
    BY <1>0, RestIs
  <2>2. Len(stream) # L + Len(rest)
    BY <1>0, <1>7, <2>1
  <2>3. BytesDropped'
    BY <1>0, <1>3, <2>2 DEF BytesDropped
  <2>. QED
    BY <1>0, <1>3, <1>5, <2>3
<1>. QED
  BY <1>6, <1>7

LEMMA FoundStep ==
    ASSUME InspectInv, PlacesOK, FoundOK, [Next]_vars
    PROVE  FoundOK'
<1>. USE DEF FoundOK, Found
<1>1. CASE ConnectError \/ ConnectFails \/ Connect \/ Exhausted
  BY <1>1 DEF ConnectError, ConnectFails, Connect, Exhausted, observation
<1>2. CASE BannerComplete
  BY <1>2, TruncationOK DEF BannerComplete
<1>3. CASE BannerRejected
  <2>1. status' # "ok"
    BY <1>3, MessageRejects, InspectAssumption
    DEF BannerRejected, banner_completion, Rejects, InspectInv
  <2>. QED
    BY <1>3, <2>1 DEF BannerRejected
<1>4. CASE ReadChunk \/ ReadMore \/ ReadEnd \/ ReadFails
  BY <1>4 DEF ReadChunk, ReadMore, ReadEnd, ReadFails
<1>5. CASE WriteFails \/ WriteIdentification \/ WriteKexinit \/ PacketPanics
             \/ PacketUseless \/ PacketFails
  <2>1. UNCHANGED <<proto, raw, rest, stream, status, parsed>>
    BY <1>5 DEF WriteFails, WriteIdentification, WriteKexinit, PacketPanics,
                PacketUseless, PacketFails, config, observation
  <2>2. /\ pc \in {"identify", "offer", "packet"} /\ status = "ok"
        /\ pc' \in {"offer", "packet", "judge", "panicked"}
    BY <1>5 DEF WriteFails, WriteIdentification, WriteKexinit, PacketPanics,
                PacketUseless, PacketFails, InspectInv
  <2>. QED
    BY <2>1, <2>2, BytesKept
<1>6. CASE Kexinit
  <2>1. UNCHANGED <<proto, raw, rest, stream, status>>
    BY <1>6 DEF Kexinit, config
  <2>2. pc = "packet" /\ pc' = "judge" /\ status = "ok" /\ parsed' \in {"kex", None}
    BY <1>6, Zenon DEF Kexinit, InspectInv
  <2>. QED
    BY <2>1, <2>2, BytesKept
<1>7. CASE Judge
  <2>1. UNCHANGED <<proto, raw, rest, stream>>
    BY <1>7 DEF Judge, config
  <2>2. \/ status = "ok" /\ parsed = None /\ parsed' = "banner" /\ status' = "ok"
        \/ parsed' = None /\ status' = "protocol_mismatch"
        \/ ~(status = "ok" /\ parsed = None) /\ parsed' = parsed /\ status' = status
    BY <1>7, Zenon DEF Judge, Judged
  <2>3. pc = "judge" /\ pc' \in {"done", "connect"} /\ (pc' = "connect" => status' # "ok")
    BY <1>7 DEF Judge
  <2>. QED
    BY <2>1, <2>2, <2>3, BytesKept, InspectAssumption
<1>8. CASE UNCHANGED vars
  <2>1. UNCHANGED <<proto, raw, rest, stream, status, parsed, pc>>
    BY <1>8 DEF vars, config, observation
  <2>. QED
    BY <2>1, BytesKept
<1>. QED
  BY <1>1, <1>2, <1>3, <1>4, <1>5, <1>6, <1>7, <1>8 DEF Next

(* A KEXINIT the server has sent is there to be read. *)
LEMMA KexinitArrives ==
    ASSUME InspectInv, FoundOK, pc = "packet", ~BytesDropped, KexinitSent
    PROVE  KexArrived
<1>1. /\ stream = raw \o rest
      /\ message_len(proto, raw, MaxBytes) = Complete(Len(raw))
  BY DEF FoundOK, Found
<1>2. Len(rest) \in 6 .. MaxBytes /\ PacketTotal = Len(rest) /\ KexParses(rest)
  BY <1>1, KexinitIsNext
<1>3. rest \in Seq(Byte) /\ MaxBytes \in Nat
  BY InspectAssumption DEF InspectInv
<1>4. SubSeq(rest, 1, PacketTotal) = rest
  BY <1>2, <1>3
<1>5. PacketArrived
  BY <1>2, <1>3 DEF PacketArrived, HeaderArrived
<1>. QED
  BY <1>2, <1>4, <1>5, Zenon DEF KexArrived

LEMMA KexStep ==
    ASSUME InspectInv, PlacesOK, FoundOK, KexOK, [Next]_vars
    PROVE  KexOK'
<1>. USE DEF KexOK
<1>1. CASE ConnectError \/ ConnectFails \/ Connect \/ Exhausted
  BY <1>1 DEF ConnectError, ConnectFails, Connect, Exhausted, observation, FoundOK
<1>2. CASE BannerComplete
  BY <1>2 DEF BannerComplete, config
<1>3. CASE BannerRejected
  <2>1. status' # "ok"
    BY <1>3, MessageRejects, InspectAssumption
    DEF BannerRejected, banner_completion, Rejects, InspectInv
  <2>. QED
    BY <1>3, <2>1 DEF BannerRejected
<1>4. CASE ReadChunk \/ ReadMore \/ ReadEnd \/ ReadFails
  BY <1>4 DEF ReadChunk, ReadMore, ReadEnd, ReadFails
<1>5. CASE WriteFails \/ WriteIdentification \/ WriteKexinit \/ PacketPanics \/ PacketFails
  BY <1>5 DEF WriteFails, WriteIdentification, WriteKexinit, PacketPanics, PacketFails,
              config
<1>6. CASE PacketUseless
  <2>1. /\ UNCHANGED <<proto, raw, rest, stream>>
        /\ pc = "packet" /\ ~KexArrived
    BY <1>6 DEF PacketUseless, config, observation
  <2>2. ~(~BytesDropped /\ KexinitSent)
    BY <2>1, KexinitArrives
  <2>. QED
    BY <2>1, <2>2, BytesKept
<1>7. CASE Kexinit
  <2>1. /\ UNCHANGED <<proto, raw>> /\ pc' = "judge"
        /\ parsed' = IF parse(proto, raw) THEN "kex" ELSE None
    BY <1>7 DEF Kexinit, config
  <2>2. parsed' = "kex" \/ ~parse(proto, raw)'
    BY <2>1, Zenon
  <2>. QED
    BY <2>1, <2>2
<1>8. CASE Judge
  <2>1. /\ UNCHANGED <<proto, mode, raw, rest, stream, faults>>
        /\ pc = "judge" /\ pc' \in {"done", "connect"}
    BY <1>8 DEF Judge, config
  <2>2. \/ status' # "ok"
        \/ status = "ok" /\ parsed = None /\ parse(proto, raw)
        \/ status = "ok" /\ parsed # None /\ parsed' = parsed
    BY <1>8, Zenon DEF Judge, Judged
  <2>3. parsed = None \/ parsed = "kex"
    BY <2>1 DEF FoundOK
  <2>. QED
    BY <2>1, <2>2, <2>3, BytesKept, InspectAssumption
<1>9. CASE UNCHANGED vars
  <2>1. UNCHANGED <<proto, mode, raw, rest, stream, faults, status, parsed, pc>>
    BY <1>9 DEF vars, config, observation
  <2>2. parse(proto, raw)' <=> parse(proto, raw)
    BY <2>1, Zenon
  <2>. QED
    BY <2>1, <2>2, BytesKept
<1>. QED
  BY <1>1, <1>2, <1>3, <1>4, <1>5, <1>6, <1>7, <1>8, <1>9 DEF Next

(* A result is ok exactly when fields come with it, its evidence is then   *)
(* one whole message, and a KEXINIT that the server sent in time to be     *)
(* read is recorded (inspect_banner, inspect_ssh_stream, read_ssh_packet). *)
THEOREM ResultsAreSound == Spec => []ResultSound
<1>1. Init => PlacesOK /\ ResultInv
  BY InspectAssumption
  DEF Init, PlacesOK, AttemptOK, Status, ResultInv, FoundOK, KexOK, Found
<1>2. InspectInv /\ PlacesOK /\ ResultInv /\ [Next]_vars => (PlacesOK /\ ResultInv)'
  BY PlacesStep, FoundStep, KexStep DEF ResultInv
<1>3. ResultInv => ResultSound
  <2>1. FoundOK => ResultConsistent
    BY DEF FoundOK, ResultConsistent
  <2>2. KexOK => KexinitRecorded
    BY DEF KexOK, KexinitRecorded
  <2>. QED
    BY <2>1, <2>2 DEF ResultInv, ResultSound
<1>. QED
  BY <1>1, <1>2, <1>3, InspectInductive, PTL DEF Spec

=============================================================================
