--------------------------- MODULE ParsersProofs ---------------------------
(***************************************************************************)
(* Theorems about the parsers that put together what comes in pieces, for  *)
(* every value of the constants of their modules.                          *)
(***************************************************************************)
EXTENDS Parsers, FiniteSetTheorems, SequenceTheorems, WellFoundedInduction, TLAPS

-----------------------------------------------------------------------------
(* The loop of parse_sec has a trace.                                      *)
IsTrace(f, ch, bytes, n) ==
  f = [m \in 0 .. n |-> IF m = 0 THEN ch ELSE ParseTurn(f[m - 1], bytes, m)]

(* A set of numbers has a least one: it stands in for induction.           *)
LEMMA LeastNat ==
  ASSUME NEW S \in SUBSET Nat, S # {}
  PROVE  \E n \in S : \A m \in S : ~(m < n)
<1>1. PICK R : R = OpToRel(<, Nat) OBVIOUS
<1>2. \A m, n \in Nat : <<m, n>> \in R <=> m < n BY <1>1 DEF OpToRel
<1>3. IsWellFoundedOn(R, Nat) BY <1>1, NatLessThanWellFounded
<1>4. PICK n \in S : \A m \in S : <<m, n>> \notin R BY <1>3, WFMin
<1>. QED BY <1>2, <1>4

(* The loop of parse_sec has a trace whatever the bytes.                   *)
LEMMA TraceExists ==
  ASSUME NEW ch, NEW bytes, NEW n \in Nat
  PROVE  \E f : IsTrace(f, ch, bytes, n)
<1>1. PICK S \in SUBSET Nat : S = {k \in Nat : ~\E f : IsTrace(f, ch, bytes, k)} OBVIOUS
<1>2. SUFFICES ASSUME S # {} PROVE FALSE BY <1>1
<1>3. PICK k \in S : \A m \in S : ~(m < k) BY <1>2, LeastNat
<1>4. k # 0
  <2>1. PICK f : f = [m \in 0 .. 0 |-> ch] OBVIOUS
  <2>2. f = [m \in 0 .. 0 |-> IF m = 0 THEN ch ELSE ParseTurn(f[m - 1], bytes, m)] BY <2>1
  <2>. QED BY <1>1, <2>2 DEF IsTrace
<1>5. PICK j \in Nat : k = j + 1
  <2>1. k - 1 \in Nat /\ k = (k - 1) + 1 BY <1>4
  <2>. QED BY <2>1
<1>6. j \notin S BY <1>3, <1>5
<1>7. PICK f : IsTrace(f, ch, bytes, j) BY <1>1, <1>6
<1>8. /\ f[0] = ch /\ \A m \in 1 .. j : f[m] = ParseTurn(f[m - 1], bytes, m)
  <2>1. 0 \in 0 .. j BY <1>5
  <2>2. \A m \in 1 .. j : m \in 0 .. j /\ m # 0 BY <1>5
  <2>3. f = [m \in 0 .. j |-> IF m = 0 THEN ch ELSE ParseTurn(f[m - 1], bytes, m)]
    BY <1>7 DEF IsTrace
  <2>4. ASSUME NEW m \in 0 .. j
        PROVE  f[m] = IF m = 0 THEN ch ELSE ParseTurn(f[m - 1], bytes, m)
    BY <2>3
  <2>. QED BY <2>1, <2>2, <2>4
<1>9. PICK g : g = [m \in 0 .. k |-> IF m = k THEN ParseTurn(f[j], bytes, k) ELSE f[m]] OBVIOUS
<1>10. ASSUME NEW m \in 0 .. k PROVE g[m] = IF m = 0 THEN ch ELSE ParseTurn(g[m - 1], bytes, m)
  <2>1. CASE m = 0 BY <1>4, <1>8, <1>9, <2>1
  <2>2. CASE m = k
    <3>1. j \in 0 .. k /\ j # k /\ m - 1 = j BY <1>5, <2>2
    <3>2. g[j] = f[j] BY <1>9, <3>1
    <3>. QED BY <1>4, <1>9, <2>2, <3>1, <3>2
  <2>3. CASE m # 0 /\ m # k
    <3>1. m \in 1 .. j /\ m - 1 \in 0 .. k /\ m - 1 # k BY <1>5, <2>3
    <3>2. g[m] = f[m] /\ g[m - 1] = f[m - 1] BY <1>9, <2>3, <3>1
    <3>. QED BY <1>8, <2>3, <3>1, <3>2
  <2>. QED BY <2>1, <2>2, <2>3
<1>11. g = [m \in 0 .. k |-> IF m = 0 THEN ch ELSE ParseTurn(g[m - 1], bytes, m)] BY <1>9, <1>10
<1>. QED BY <1>1, <1>11 DEF IsTrace

(* What the loop returns is the end of a trace.                            *)
LEMMA ParsedIsTraced ==
  ASSUME NEW ch, NEW bytes, Len(bytes) \in Nat
  PROVE  \E f : IsTrace(f, ch, bytes, Len(bytes)) /\ Parsed(ch, bytes) = f[Len(bytes)]
<1>1. PICK f :
        f = CHOOSE g : g = [m \in 0 .. Len(bytes) |->
                               IF m = 0 THEN ch ELSE ParseTurn(g[m - 1], bytes, m)]
  OBVIOUS
<1>2. \E g : g = [m \in 0 .. Len(bytes) |-> IF m = 0 THEN ch ELSE ParseTurn(g[m - 1], bytes, m)]
  <2>1. PICK g : IsTrace(g, ch, bytes, Len(bytes)) BY TraceExists
  <2>. QED BY <2>1 DEF IsTrace
<1>3. f = [m \in 0 .. Len(bytes) |-> IF m = 0 THEN ch ELSE ParseTurn(f[m - 1], bytes, m)]
  BY <1>1, <1>2
<1>4. Parsed(ch, bytes) = f[Len(bytes)] BY <1>1 DEF Parsed
<1>. QED BY <1>3, <1>4 DEF IsTrace

LEMMA Traced ==
  ASSUME NEW f, NEW ch, NEW bytes, NEW n \in Nat, IsTrace(f, ch, bytes, n)
  PROVE  f[0] = ch /\ \A m \in 1 .. n : f[m] = ParseTurn(f[m - 1], bytes, m)
<1>1. 0 \in 0 .. n /\ \A m \in 1 .. n : m \in 0 .. n /\ m # 0 OBVIOUS
<1>2. f = [m \in 0 .. n |-> IF m = 0 THEN ch ELSE ParseTurn(f[m - 1], bytes, m)] BY DEF IsTrace
<1>3. ASSUME NEW m \in 0 .. n
      PROVE  f[m] = IF m = 0 THEN ch ELSE ParseTurn(f[m - 1], bytes, m)
  BY <1>2
<1>. QED BY <1>1, <1>3

(* When the loop has ended it stays where it is.                           *)
Over(c, bytes) == c.at = Len(bytes) \/ bytes[c.at + 1].val = 255

(* Once there is nothing or stuffing, the turns that are left do nothing.  *)
LEMMA LoopEnds ==
  ASSUME NEW f, NEW ch, NEW bytes, NEW n \in Nat, IsTrace(f, ch, bytes, n),
         NEW k \in 1 .. n, Over(f[k], bytes)
  PROVE  f[n] = f[k]
<1>1. PICK S : S = {m \in k .. n : f[m] # f[k]} OBVIOUS
<1>2. S \in SUBSET Nat BY <1>1
<1>3. SUFFICES ASSUME S # {} PROVE FALSE
  <2>1. n \in k .. n OBVIOUS
  <2>. QED BY <1>1, <2>1
<1>4. PICK m \in S : \A j \in S : ~(j < m) BY <1>2, <1>3, LeastNat
<1>5. m \in k .. n /\ f[m] # f[k] BY <1>1
<1>6. m - 1 \in k .. n /\ m - 1 < m /\ m \in 1 .. n /\ m > 1 BY <1>5
<1>7. f[m - 1] = f[k] BY <1>1, <1>4, <1>6
<1>8. f[m] = ParseTurn(f[m - 1], bytes, m) BY <1>6, Traced
<1>9. f[m] = f[m - 1] BY <1>6, <1>7, <1>8 DEF ParseTurn, Over
<1>. QED BY <1>5, <1>7, <1>9

(* One turn that takes all, or all up to stuffing; two of them.            *)
LEMMA ParsedOnce ==
  ASSUME NEW ch, NEW bytes, Len(bytes) \in Nat, Len(bytes) >= 1, ch.at # Len(bytes),
         NEW c, c = CheckSec(ch, SubSeq(bytes, ch.at + 1, Len(bytes))), Over(c, bytes)
  PROVE  Parsed(ch, bytes) = c
<1>1. PICK n \in Nat : n = Len(bytes) OBVIOUS
<1>2. PICK f : IsTrace(f, ch, bytes, n) /\ Parsed(ch, bytes) = f[n] BY <1>1, ParsedIsTraced
<1>3. 1 \in 1 .. n /\ 1 - 1 = 0 /\ ~(1 > 1) BY <1>1
<1>4. f[0] = ch /\ f[1] = ParseTurn(f[1 - 1], bytes, 1) BY <1>2, <1>3, Traced
<1>5. f[1] = c BY <1>3, <1>4 DEF ParseTurn
<1>6. f[n] = f[1] BY <1>2, <1>3, <1>5, LoopEnds
<1>. QED BY <1>2, <1>5, <1>6

LEMMA ParsedTwice ==
  ASSUME NEW ch, NEW bytes, Len(bytes) \in Nat, Len(bytes) >= 2, ch.at # Len(bytes),
         NEW c, c = CheckSec(ch, SubSeq(bytes, ch.at + 1, Len(bytes))), ~Over(c, bytes),
         NEW d, d = CheckSec(c, SubSeq(bytes, c.at + 1, Len(bytes))), Over(d, bytes)
  PROVE  Parsed(ch, bytes) = d
<1>1. PICK n \in Nat : n = Len(bytes) OBVIOUS
<1>2. PICK f : IsTrace(f, ch, bytes, n) /\ Parsed(ch, bytes) = f[n] BY <1>1, ParsedIsTraced
<1>3. 1 \in 1 .. n /\ 2 \in 1 .. n /\ 1 - 1 = 0 /\ 2 - 1 = 1 /\ ~(1 > 1) BY <1>1
<1>4. f[0] = ch /\ f[1] = ParseTurn(f[1 - 1], bytes, 1) /\ f[2] = ParseTurn(f[2 - 1], bytes, 2)
  BY <1>2, <1>3, Traced
<1>5. f[1] = c BY <1>3, <1>4 DEF ParseTurn
<1>6. f[2] = d BY <1>3, <1>4, <1>5 DEF ParseTurn, Over
<1>7. f[n] = f[2] BY <1>2, <1>3, <1>6, LoopEnds
<1>. QED BY <1>2, <1>6, <1>7

-----------------------------------------------------------------------------
(* Sections, and what a buffer holds of one.                               *)
LEMMA SectionIs ==
  ASSUME NEW no \in Nat, NEW len \in SecLengths
  PROVE  /\ Section(no, len) \in Seq(SecBytes) /\ Len(Section(no, len)) = len
         /\ len \in 3 .. 258
         /\ Section(no, len)[1].val = 0 /\ Section(no, len)[2].val = 0
         /\ Section(no, len)[3].val = len - 3
<1>1. len \in 3 .. 258 BY SectionAsmAssumption
<1>2. PICK s : s = Section(no, len) OBVIOUS
<1>3. s = [k \in 1 .. len |->
            [no |-> no, off |-> k, val |-> IF k = 3 THEN len - 3 ELSE IF k < 3 THEN 0 ELSE no % 2]]
  BY <1>2 DEF Section
<1>4. ASSUME NEW k \in 1 .. len PROVE s[k] \in SecBytes
  <2>1. PICK v : v = IF k = 3 THEN len - 3 ELSE IF k < 3 THEN 0 ELSE no % 2 OBVIOUS
  <2>2. no % 2 \in 0 .. 1 OBVIOUS
  <2>3. v \in 0 .. 255 BY <1>1, <2>1, <2>2
  <2>4. s[k] = [no |-> no, off |-> k, val |-> v] BY <1>3, <2>1
  <2>5. k \in Nat OBVIOUS
  <2>. QED BY <2>3, <2>4, <2>5 DEF SecBytes, Values
<1>5. s \in Seq(SecBytes) /\ Len(s) = len
  <2>1. s \in [1 .. len -> SecBytes] BY <1>3, <1>4
  <2>2. len \in Nat BY <1>1
  <2>. QED BY <2>1, <2>2
<1>6. 1 \in 1 .. len /\ 2 \in 1 .. len /\ 3 \in 1 .. len BY <1>1
<1>7. s[1].val = 0 /\ s[2].val = 0 /\ s[3].val = len - 3 BY <1>3, <1>6
<1>. QED BY <1>1, <1>2, <1>5, <1>7

(* A section says its own length.                                          *)
LEMMA SlenIs ==
  ASSUME NEW no \in Nat, NEW len \in SecLengths, NEW b,
         b[2] = Section(no, len)[2], b[3] = Section(no, len)[3]
  PROVE  Slen(b) = len
<1>1. b[2].val = 0 /\ b[3].val = len - 3 /\ len \in 3 .. 258 BY SectionIs
<1>2. ((0 * 256 + (len - 3)) % 4096) + 3 = len BY <1>1
<1>. QED BY <1>1, <1>2 DEF Slen

(* The first m elements, and more of them.                                 *)
LEMMA Joined ==
  ASSUME NEW S, NEW s \in Seq(S), NEW b \in Seq(S), NEW m \in 0 .. Len(s), NEW j \in 0 .. Len(b),
         m + j <= Len(s), \A i \in 1 .. j : b[i] = s[m + i]
  PROVE  SubSeq(s, 1, m) \o SubSeq(b, 1, j) = SubSeq(s, 1, m + j)
<1>1. PICK x : x = SubSeq(s, 1, m) OBVIOUS
<1>2. PICK y : y = SubSeq(b, 1, j) OBVIOUS
<1>3. PICK z : z = SubSeq(s, 1, m + j) OBVIOUS
<1>4. x \in Seq(S) /\ Len(x) = m /\ \A i \in 1 .. m : x[i] = s[i] BY <1>1
<1>5. y \in Seq(S) /\ Len(y) = j /\ \A i \in 1 .. j : y[i] = b[i] BY <1>2
<1>6. z \in Seq(S) /\ Len(z) = m + j /\ \A i \in 1 .. m + j : z[i] = s[i] BY <1>3
<1>7. /\ x \o y \in Seq(S) /\ Len(x \o y) = Len(x) + Len(y)
      /\ \A i \in 1 .. Len(x) + Len(y) : (x \o y)[i] = IF i <= Len(x) THEN x[i] ELSE y[i - Len(x)]
  BY <1>4, <1>5, ConcatProperties
<1>8. ASSUME NEW i \in 1 .. m + j PROVE (x \o y)[i] = z[i]
  <2>1. (x \o y)[i] = IF i <= m THEN x[i] ELSE y[i - m] BY <1>4, <1>5, <1>7
  <2>2. CASE i <= m
    <3>1. i \in 1 .. m BY <2>2
    <3>. QED BY <1>4, <1>6, <2>1, <2>2, <3>1
  <2>3. CASE ~(i <= m)
    <3>1. i - m \in 1 .. j /\ m + (i - m) = i BY <2>3
    <3>2. y[i - m] = b[i - m] /\ b[i - m] = s[m + (i - m)] BY <1>5, <3>1
    <3>. QED BY <1>6, <2>1, <2>3, <3>1, <3>2
  <2>. QED BY <2>2, <2>3
<1>9. x \o y = z
  <2>1. Len(x \o y) = Len(z) /\ \A i \in 1 .. Len(x \o y) : (x \o y)[i] = z[i]
    BY <1>4, <1>5, <1>6, <1>7, <1>8
  <2>. QED BY <1>6, <1>7, <2>1, SeqEqual
<1>. QED BY <1>1, <1>2, <1>3, <1>9

(* A channel, and what it holds after k bytes of section s.                *)
Chan(buf, out, at) == [buf |-> buf, out |-> out, at |-> at]
Held(s, k) == IF k < 3 \/ k = Len(s) THEN <<>> ELSE SubSeq(s, 1, k)
Whole(s, k, out) == IF k = Len(s) THEN Append(out, s) ELSE out

(* x goes on with section s after m bytes of it.                           *)
GoesOn(x, s, m) == \A i \in 1 .. Len(x) : m + i <= Len(s) => x[i] = s[m + i]

(* check_sec once the first three bytes are there.                         *)
LEMMA FillSection ==
  ASSUME NEW no \in Nat, NEW len \in SecLengths, NEW s, s = Section(no, len),
         NEW m \in 3 .. len, NEW x \in Seq(SecBytes), GoesOn(x, s, m),
         NEW out, NEW at, NEW k, k = Lesser(len, m + Len(x))
  PROVE  Fill(Chan(SubSeq(s, 1, m), out, at), x)
           = Chan(IF k = len THEN <<>> ELSE SubSeq(s, 1, k), Whole(s, k, out), at + (k - m))
<1>1. s \in Seq(SecBytes) /\ Len(s) = len /\ len \in 3 .. 258 BY SectionIs
<1>2. Len(x) \in Nat OBVIOUS
<1>3. PICK ch : ch = Chan(SubSeq(s, 1, m), out, at) OBVIOUS
<1>4. ch.buf = SubSeq(s, 1, m) /\ ch.out = out /\ ch.at = at BY <1>3 DEF Chan
<1>5. Len(ch.buf) = m /\ ch.buf[2] = s[2] /\ ch.buf[3] = s[3]
  <2>1. 2 \in 1 .. m /\ 3 \in 1 .. m OBVIOUS
  <2>2. Len(ch.buf) = m /\ \A i \in 1 .. m : ch.buf[i] = s[i] BY <1>1, <1>4
  <2>. QED BY <2>1, <2>2
<1>6. Slen(ch.buf) = len BY <1>5, SlenIs
<1>7. PICK cpy : cpy = Lesser(len - m, Len(x)) OBVIOUS
<1>8. cpy \in 0 .. Len(x) /\ m + cpy = k /\ m + cpy <= len /\ cpy = k - m
  BY <1>1, <1>2, <1>7 DEF Lesser
<1>9. ch.buf \o SubSeq(x, 1, cpy) = SubSeq(s, 1, k)
  <2>1. m \in 0 .. Len(s) BY <1>1
  <2>2. \A i \in 1 .. cpy : x[i] = s[m + i]
    <3>1. ASSUME NEW i \in 1 .. cpy PROVE x[i] = s[m + i]
      <4>1. i \in 1 .. Len(x) /\ m + i <= Len(s) BY <1>1, <1>2, <1>8
      <4>. QED BY <4>1 DEF GoesOn
    <3>. QED BY <3>1
  <2>3. m + cpy <= Len(s) BY <1>1, <1>8
  <2>4. SubSeq(s, 1, m) \o SubSeq(x, 1, cpy) = SubSeq(s, 1, m + cpy)
    BY <1>1, <1>8, <2>1, <2>2, <2>3, Joined
  <2>. QED BY <1>4, <1>8, <2>4
<1>10. Len(SubSeq(s, 1, k)) = k /\ SubSeq(s, 1, len) = s
  <2>1. k \in 0 .. Len(s) BY <1>1, <1>8
  <2>. QED BY <1>1, <2>1, SubSeqFull
<1>11. Fill(ch, x) = [buf |-> IF len = k THEN <<>> ELSE SubSeq(s, 1, k),
                      out |-> IF len = k THEN Append(out, SubSeq(s, 1, k)) ELSE out,
                      at  |-> at + cpy]
  BY <1>4, <1>5, <1>6, <1>7, <1>9, <1>10 DEF Fill
<1>12. (IF len = k THEN Append(out, SubSeq(s, 1, k)) ELSE out) = Whole(s, k, out)
  BY <1>1, <1>10 DEF Whole
<1>. QED BY <1>3, <1>8, <1>11, <1>12 DEF Chan

(* check_sec on bytes that go on with a section.                           *)
LEMMA CheckSection ==
  ASSUME NEW no \in Nat, NEW len \in SecLengths, NEW s, s = Section(no, len),
         NEW m \in 0 .. len - 1, m = 0 \/ m >= 3, NEW x \in Seq(SecBytes), GoesOn(x, s, m),
         NEW out, NEW at, at \in Nat, NEW k, k = Lesser(len, m + Len(x))
  PROVE  CheckSec(Chan(Held(s, m), out, at), x)
           = Chan(Held(s, k), Whole(s, k, out), at + (k - m))
<1>1. s \in Seq(SecBytes) /\ Len(s) = len /\ len \in 3 .. 258 BY SectionIs
<1>2. Len(x) \in Nat OBVIOUS
<1>3. PICK b : b = Held(s, m) OBVIOUS
<1>4. b = SubSeq(s, 1, m)
  <2>1. m # Len(s) BY <1>1
  <2>2. CASE m = 0 BY <1>3, <2>2, SubSeqEmpty DEF Held
  <2>3. CASE m >= 3 BY <1>3, <2>1, <2>3 DEF Held
  <2>. QED BY <2>2, <2>3
<1>5. Len(b) = m BY <1>1, <1>4
<1>6. k \in m .. len /\ (m + Len(x) < 3 => k = m + Len(x)) /\ (m + Len(x) >= 3 => k >= 3)
  BY <1>1, <1>2 DEF Lesser
<1>7. PICK ch : ch = Chan(b, out, at) OBVIOUS
<1>8. ch.buf = b /\ ch.out = out /\ ch.at = at /\ ch = [buf |-> b, out |-> out, at |-> at]
  BY <1>7 DEF Chan
<1>9. CASE m + Len(x) < 3
  <2>1. m = 0 /\ k = Len(x) /\ k < 3 /\ k # Len(s) BY <1>1, <1>2, <1>6, <1>9
  <2>2. b = <<>> /\ Held(s, k) = <<>> /\ Whole(s, k, out) = out BY <1>3, <2>1 DEF Held, Whole
  <2>4. CheckSec(ch, x) = [buf |-> <<>>, out |-> out, at |-> at + Len(x)]
    BY <1>5, <1>8, <1>9, <2>2 DEF CheckSec
  <2>5. k - m = Len(x) BY <1>2, <2>1
  <2>. QED BY <1>3, <1>7, <2>2, <2>4, <2>5 DEF Chan
<1>10. CASE m + Len(x) >= 3
  <2>1. PICK cpy : cpy = IF m < 3 THEN 3 - m ELSE 0 OBVIOUS
  <2>2. cpy \in 0 .. Len(x) /\ m + cpy \in 3 .. len /\ m + cpy <= Len(s)
    BY <1>1, <1>2, <1>10, <2>1
  <2>3. b \o SubSeq(x, 1, cpy) = SubSeq(s, 1, m + cpy)
    <3>1. m \in 0 .. Len(s) BY <1>1
    <3>2. \A i \in 1 .. cpy : x[i] = s[m + i]
      <4>1. ASSUME NEW i \in 1 .. cpy PROVE x[i] = s[m + i]
        <5>1. i \in 1 .. Len(x) /\ m + i <= Len(s) BY <1>1, <1>2, <2>2
        <5>. QED BY <5>1 DEF GoesOn
      <4>. QED BY <4>1
    <3>3. SubSeq(s, 1, m) \o SubSeq(x, 1, cpy) = SubSeq(s, 1, m + cpy)
      BY <1>1, <2>2, <3>1, <3>2, Joined
    <3>. QED BY <1>4, <3>3
  <2>4. PICK rest : rest = SubSeq(x, cpy + 1, Len(x)) OBVIOUS
  <2>5. /\ rest \in Seq(SecBytes) /\ Len(rest) = Len(x) - cpy
        /\ \A i \in 1 .. Len(x) - cpy : rest[i] = x[cpy + i]
    BY <1>2, <2>2, <2>4
  <2>6. GoesOn(rest, s, m + cpy)
    <3>1. ASSUME NEW i \in 1 .. Len(rest), (m + cpy) + i <= Len(s)
          PROVE  rest[i] = s[(m + cpy) + i]
      <4>1. /\ i \in 1 .. Len(x) - cpy /\ cpy + i \in 1 .. Len(x)
            /\ m + (cpy + i) = (m + cpy) + i
        BY <1>2, <2>2, <2>5
      <4>2. m + (cpy + i) <= Len(s) BY <3>1, <4>1
      <4>3. x[cpy + i] = s[m + (cpy + i)] BY <4>1, <4>2 DEF GoesOn
      <4>. QED BY <2>5, <4>1, <4>3
    <3>. QED BY <3>1 DEF GoesOn
  <2>7. PICK dh : dh = Chan(SubSeq(s, 1, m + cpy), out, at + cpy) OBVIOUS
  <2>8. [buf |-> ch.buf \o SubSeq(x, 1, cpy), out |-> ch.out, at |-> ch.at + cpy] = dh
    BY <1>8, <2>3, <2>7 DEF Chan
  <2>9. CheckSec(ch, x) = Fill(dh, rest)
    <3>1. ~(Len(ch.buf) + Len(x) < 3) BY <1>2, <1>5, <1>8, <1>10
    <3>2. (IF Len(ch.buf) < 3 THEN 3 - Len(ch.buf) ELSE 0) = cpy BY <1>5, <1>8, <2>1
    <3>. QED BY <2>4, <2>8, <3>1, <3>2 DEF CheckSec
  <2>10. k = Lesser(len, (m + cpy) + Len(rest)) BY <1>2, <2>2, <2>5 DEF Lesser
  <2>11. Fill(dh, rest) = Chan(IF k = len THEN <<>> ELSE SubSeq(s, 1, k), Whole(s, k, out),
                               (at + cpy) + (k - (m + cpy)))
    <3>1. PICK m2 : m2 = m + cpy OBVIOUS
    <3>2. m2 \in 3 .. len /\ k = Lesser(len, m2 + Len(rest)) /\ GoesOn(rest, s, m2)
      BY <2>2, <2>6, <2>10, <3>1
    <3>3. rest \in Seq(SecBytes) BY <2>5
    <3>4. Fill(Chan(SubSeq(s, 1, m2), out, at + cpy), rest)
            = Chan(IF k = len THEN <<>> ELSE SubSeq(s, 1, k), Whole(s, k, out),
                   (at + cpy) + (k - m2))
      BY <3>2, <3>3, FillSection
    <3>. QED BY <2>7, <3>1, <3>4
  <2>12. (at + cpy) + (k - (m + cpy)) = at + (k - m) BY <1>6, <2>2
  <2>13. ~(k < 3) BY <1>6, <1>10
  <2>14. (IF k = len THEN <<>> ELSE SubSeq(s, 1, k)) = Held(s, k) BY <1>1, <2>13 DEF Held
  <2>. QED BY <1>3, <1>7, <2>9, <2>11, <2>12, <2>14
<1>. QED BY <1>2, <1>9, <1>10

-----------------------------------------------------------------------------
(* What holds of a channel whatever bytes have come: a header in the       *)
(* buffer is complete, and the section it says is not.                     *)
GoodBuf(b) == b \in Seq(SecBytes) /\ (b = <<>> \/ (Len(b) >= 3 /\ Len(b) < Slen(b)))
Good(ch, n) == GoodBuf(ch.buf) /\ ch.out \in Seq(Seq(SecBytes)) /\ ch.at \in 0 .. n

(* The length a header says is three at least.                             *)
LEMMA SlenIsNat ==
  ASSUME NEW b \in Seq(SecBytes), Len(b) >= 3
  PROVE  Slen(b) \in Nat /\ Slen(b) >= 3
<1>1. 2 \in 1 .. Len(b) /\ 3 \in 1 .. Len(b) OBVIOUS
<1>2. b[2] \in SecBytes /\ b[3] \in SecBytes BY <1>1, ElementOfSeq
<1>3. b[2].val \in 0 .. 255 /\ b[3].val \in 0 .. 255 BY <1>2 DEF SecBytes, Values
<1>4. PICK v, w : v = b[2].val /\ w = b[3].val OBVIOUS
<1>5. v \in 0 .. 255 /\ w \in 0 .. 255 BY <1>3, <1>4
<1>6. PICK t : t = v * 256 + w OBVIOUS
<1>7. t \in Int BY <1>5, <1>6
<1>8. PICK u : u = t % 4096 OBVIOUS
<1>9. u \in 0 .. 4095 BY <1>7, <1>8
<1>10. Slen(b) = u + 3 BY <1>4, <1>6, <1>8 DEF Slen
<1>. QED BY <1>9, <1>10

(* Whatever comes, ch->buf holds less than its header says, or nothing.    *)
LEMMA FillAny ==
  ASSUME NEW ch, NEW x \in Seq(SecBytes), NEW n, n \in Nat,
         ch.buf \in Seq(SecBytes), Len(ch.buf) >= 3, Len(ch.buf) <= Slen(ch.buf),
         ch.out \in Seq(Seq(SecBytes)), ch.at \in Nat, ch.at + Len(x) <= n
  PROVE  Good(Fill(ch, x), n)
<1>1. PICK b, out, at : b = ch.buf /\ out = ch.out /\ at = ch.at OBVIOUS
<1>2. b \in Seq(SecBytes) /\ Len(b) \in Nat /\ Len(x) \in Nat BY <1>1
<1>3. PICK len : len = Slen(b) OBVIOUS
<1>4. len \in Nat /\ Len(b) >= 3 /\ Len(b) <= len BY <1>1, <1>3, SlenIsNat
<1>5. PICK cpy : cpy = Lesser(len - Len(b), Len(x)) OBVIOUS
<1>6. cpy \in 0 .. Len(x) /\ Len(b) + cpy <= len BY <1>2, <1>4, <1>5 DEF Lesser
<1>7. PICK y : y = SubSeq(x, 1, cpy) OBVIOUS
<1>8. y \in Seq(SecBytes) /\ Len(y) = cpy BY <1>6, <1>7
<1>9. PICK z : z = b \o y OBVIOUS
<1>10. /\ z \in Seq(SecBytes) /\ Len(z) = Len(b) + cpy
       /\ \A i \in 1 .. Len(b) + Len(y) : z[i] = IF i <= Len(b) THEN b[i] ELSE y[i - Len(b)]
  BY <1>2, <1>8, <1>9, ConcatProperties
<1>11. Slen(z) = len
  <2>1. 2 \in 1 .. Len(b) + Len(y) /\ 3 \in 1 .. Len(b) + Len(y) /\ 2 <= Len(b) /\ 3 <= Len(b)
    BY <1>2, <1>4, <1>6, <1>8
  <2>2. z[2] = b[2] /\ z[3] = b[3] BY <1>10, <2>1
  <2>. QED BY <1>3, <2>2 DEF Slen
<1>12. Fill(ch, x) = [buf |-> IF len = Len(z) THEN <<>> ELSE z,
                      out |-> IF len = Len(z) THEN Append(out, z) ELSE out,
                      at  |-> at + cpy]
  BY <1>1, <1>3, <1>5, <1>7, <1>9 DEF Fill
<1>13. GoodBuf(IF len = Len(z) THEN <<>> ELSE z)
  <2>1. CASE len = Len(z)
    <3>1. <<>> \in Seq(SecBytes) OBVIOUS
    <3>2. GoodBuf(<<>>) BY <3>1, Zenon DEF GoodBuf
    <3>. QED BY <2>1, <3>2
  <2>2. CASE len # Len(z)
    <3>1. Len(z) >= 3 /\ Len(z) <= len /\ Len(z) \in Nat BY <1>2, <1>4, <1>6, <1>10
    <3>2. Len(z) < Slen(z) BY <1>4, <1>11, <2>2, <3>1
    <3>3. GoodBuf(z) BY <1>10, <3>1, <3>2 DEF GoodBuf
    <3>. QED BY <2>2, <3>3
  <2>. QED BY <2>1, <2>2
<1>14. (IF len = Len(z) THEN Append(out, z) ELSE out) \in Seq(Seq(SecBytes))
  BY <1>1, <1>10, AppendProperties
<1>15. at + cpy \in 0 .. n
  <2>1. at \in Nat /\ at + Len(x) <= n BY <1>1
  <2>. QED BY <1>2, <1>6, <2>1
<1>. QED BY <1>12, <1>13, <1>14, <1>15 DEF Good

LEMMA CheckAny ==
  ASSUME NEW ch, NEW x \in Seq(SecBytes), NEW n, n \in Nat,
         Good(ch, n), ch.at + Len(x) <= n
  PROVE  Good(CheckSec(ch, x), n)
<1>1. PICK b, out, at : b = ch.buf /\ out = ch.out /\ at = ch.at OBVIOUS
<1>2. GoodBuf(b) /\ out \in Seq(Seq(SecBytes)) /\ at \in 0 .. n BY <1>1 DEF Good
<1>3. b \in Seq(SecBytes) /\ Len(b) \in Nat /\ Len(x) \in Nat BY <1>2 DEF GoodBuf
<1>4. at \in Nat /\ at + Len(x) <= n BY <1>1, <1>2
<1>5. CASE Len(b) + Len(x) < 3
  <2>1. CheckSec(ch, x) = [buf |-> b, out |-> out, at |-> at + Len(x)] BY <1>1, <1>5 DEF CheckSec
  <2>2. at + Len(x) \in 0 .. n BY <1>3, <1>4
  <2>. QED BY <1>2, <2>1, <2>2 DEF Good
<1>6. CASE ~(Len(b) + Len(x) < 3)
  <2>1. PICK cpy : cpy = IF Len(b) < 3 THEN 3 - Len(b) ELSE 0 OBVIOUS
  <2>2. cpy \in 0 .. Len(x) BY <1>3, <1>6, <2>1
  <2>3. PICK y : y = SubSeq(x, 1, cpy) OBVIOUS
  <2>4. y \in Seq(SecBytes) /\ Len(y) = cpy BY <2>2, <2>3
  <2>5. PICK z : z = b \o y OBVIOUS
  <2>6. z \in Seq(SecBytes) /\ Len(z) = Len(b) + cpy BY <1>3, <2>4, <2>5, ConcatProperties
  <2>7. PICK rest : rest = SubSeq(x, cpy + 1, Len(x)) OBVIOUS
  <2>8. rest \in Seq(SecBytes) /\ Len(rest) = Len(x) - cpy BY <1>3, <2>2, <2>7
  <2>9. PICK dh : dh = [buf |-> z, out |-> out, at |-> at + cpy] OBVIOUS
  <2>10. CheckSec(ch, x) = Fill(dh, rest) BY <1>1, <1>6, <2>1, <2>3, <2>5, <2>7, <2>9 DEF CheckSec
  <2>11. dh.buf = z /\ dh.out = out /\ dh.at = at + cpy BY <2>9
  <2>12. Len(z) >= 3 BY <1>3, <2>1, <2>6
  <2>13. Len(z) <= Slen(z)
    <3>1. CASE b = <<>>
      <4>1. Len(z) = 3 BY <2>1, <2>6, <3>1
      <4>. QED BY <2>6, <2>12, <4>1, SlenIsNat
    <3>2. CASE Len(b) >= 3 /\ Len(b) < Slen(b)
      <4>1. cpy = 0 BY <1>3, <2>1, <3>2
      <4>2. y = <<>> BY <2>3, <4>1, SubSeqEmpty
      <4>3. z = b BY <1>3, <2>5, <4>2, ConcatEmptySeq
      <4>4. Slen(b) \in Nat BY <1>3, <3>2, SlenIsNat
      <4>. QED BY <1>3, <3>2, <4>3, <4>4
    <3>. QED BY <1>2, <3>1, <3>2 DEF GoodBuf
  <2>14. dh.at \in Nat /\ dh.at + Len(rest) <= n BY <1>3, <1>4, <2>2, <2>8, <2>11
  <2>15. Good(Fill(dh, rest), n) BY <1>2, <2>6, <2>8, <2>11, <2>12, <2>13, <2>14, FillAny
  <2>. QED BY <2>10, <2>15
<1>. QED BY <1>5, <1>6

LEMMA TurnAny ==
  ASSUME NEW c, NEW bytes \in Seq(SecBytes), NEW m, Good(c, Len(bytes))
  PROVE  Good(ParseTurn(c, bytes, m), Len(bytes))
<1>1. PICK at : at = c.at OBVIOUS
<1>2. at \in 0 .. Len(bytes) /\ Len(bytes) \in Nat BY <1>1 DEF Good
<1>3. PICK x : x = SubSeq(bytes, at + 1, Len(bytes)) OBVIOUS
<1>4. x \in Seq(SecBytes) /\ Len(x) = Len(bytes) - at BY <1>2, <1>3
<1>5. c.at + Len(x) <= Len(bytes) BY <1>1, <1>2, <1>4
<1>6. Good(CheckSec(c, x), Len(bytes)) BY <1>2, <1>4, <1>5, CheckAny
<1>7. ParseTurn(c, bytes, m) = c \/ ParseTurn(c, bytes, m) = CheckSec(c, x)
  BY <1>1, <1>3 DEF ParseTurn
<1>. QED BY <1>6, <1>7

LEMMA ParsedAny ==
  ASSUME NEW ch, NEW bytes \in Seq(SecBytes), Good(ch, Len(bytes))
  PROVE  Good(Parsed(ch, bytes), Len(bytes))
<1>1. PICK n \in Nat : n = Len(bytes) OBVIOUS
<1>2. PICK f : IsTrace(f, ch, bytes, n) /\ Parsed(ch, bytes) = f[n] BY <1>1, ParsedIsTraced
<1>3. PICK S : S = {m \in 0 .. n : ~Good(f[m], n)} OBVIOUS
<1>4. S \in SUBSET Nat BY <1>3
<1>5. SUFFICES ASSUME S # {} PROVE FALSE
  <2>1. n \in 0 .. n BY <1>1
  <2>. QED BY <1>1, <1>2, <1>3, <2>1
<1>6. PICK m \in S : \A j \in S : ~(j < m) BY <1>4, <1>5, LeastNat
<1>7. m \in 0 .. n /\ ~Good(f[m], n) BY <1>3
<1>8. m # 0
  <2>1. f[0] = ch BY <1>2, Traced
  <2>. QED BY <1>1, <1>7, <2>1
<1>9. m - 1 \in 0 .. n /\ m - 1 < m /\ m \in 1 .. n BY <1>7, <1>8
<1>10. Good(f[m - 1], n) BY <1>3, <1>6, <1>9
<1>11. f[m] = ParseTurn(f[m - 1], bytes, m) BY <1>2, <1>9, Traced
<1>12. Good(f[m], n) BY <1>1, <1>10, <1>11, TurnAny
<1>. QED BY <1>7, <1>12

-----------------------------------------------------------------------------
(* One and two sections in a row.                                          *)
LEMMA FlattenFew ==
  ASSUME NEW S, NEW s \in Seq(S), NEW t \in Seq(S)
  PROVE  /\ FlattenSeq(<<>>) = <<>> /\ FlattenSeq(<<s>>) = s /\ FlattenSeq(<<s, t>>) = s \o t
<1>1. FlattenSeq(<<>>) = <<>> BY DEF FlattenSeq
<1>2. FlattenSeq(<<s>>) = s
  <2>1. PICK q : q = <<s>> OBVIOUS
  <2>2. Len(q) = 1 /\ q[1] = s BY <2>1
  <2>3. PICK f : f = CHOOSE g : g = [i \in 1 .. Len(q) |-> IF i = 1 THEN q[i] ELSE g[i - 1] \o q[i]]
    OBVIOUS
  <2>4. \E g : g = [i \in 1 .. Len(q) |-> IF i = 1 THEN q[i] ELSE g[i - 1] \o q[i]]
    <3>1. PICK g : g = [i \in 1 .. Len(q) |-> q[1]] OBVIOUS
    <3>2. g = [i \in 1 .. Len(q) |-> IF i = 1 THEN q[i] ELSE g[i - 1] \o q[i]] BY <2>2, <3>1
    <3>. QED BY <3>2
  <2>5. f = [i \in 1 .. Len(q) |-> IF i = 1 THEN q[i] ELSE f[i - 1] \o q[i]] BY <2>3, <2>4
  <2>6. f[1] = s BY <2>2, <2>5
  <2>7. FlattenSeq(q) = f[1] BY <2>2, <2>3 DEF FlattenSeq
  <2>. QED BY <2>1, <2>6, <2>7
<1>3. FlattenSeq(<<s, t>>) = s \o t
  <2>1. PICK q : q = <<s, t>> OBVIOUS
  <2>2. Len(q) = 2 /\ q[1] = s /\ q[2] = t BY <2>1
  <2>3. PICK f : f = CHOOSE g : g = [i \in 1 .. Len(q) |-> IF i = 1 THEN q[i] ELSE g[i - 1] \o q[i]]
    OBVIOUS
  <2>4. \E g : g = [i \in 1 .. Len(q) |-> IF i = 1 THEN q[i] ELSE g[i - 1] \o q[i]]
    <3>1. PICK u : u = s \o t OBVIOUS
    <3>2. PICK g : g = [i \in 1 .. Len(q) |-> IF i = 1 THEN s ELSE u] OBVIOUS
    <3>3. ASSUME NEW i \in 1 .. Len(q) PROVE g[i] = IF i = 1 THEN q[i] ELSE g[i - 1] \o q[i]
      <4>1. 1 \in 1 .. Len(q) /\ 2 \in 1 .. Len(q) BY <2>2
      <4>2. g[1] = s /\ g[2] = u BY <3>2, <4>1
      <4>3. CASE i = 1 BY <2>2, <4>2, <4>3
      <4>4. CASE i = 2
        <5>1. i - 1 = 1 /\ i # 1 BY <4>4
        <5>. QED BY <2>2, <3>1, <4>2, <4>4, <5>1
      <4>. QED BY <2>2, <4>3, <4>4
    <3>4. g = [i \in 1 .. Len(q) |-> IF i = 1 THEN q[i] ELSE g[i - 1] \o q[i]] BY <3>2, <3>3
    <3>. QED BY <3>4
  <2>5. f = [i \in 1 .. Len(q) |-> IF i = 1 THEN q[i] ELSE f[i - 1] \o q[i]] BY <2>3, <2>4
  <2>6. ASSUME NEW i \in 1 .. Len(q) PROVE f[i] = IF i = 1 THEN q[i] ELSE f[i - 1] \o q[i]
    BY <2>5
  <2>7. 1 \in 1 .. Len(q) /\ 2 \in 1 .. Len(q) /\ 2 - 1 = 1 /\ 2 # 1 BY <2>2
  <2>8. f[1] = s /\ f[2] = f[1] \o t BY <2>2, <2>6, <2>7
  <2>9. FlattenSeq(q) = f[2] BY <2>2, <2>3 DEF FlattenSeq
  <2>. QED BY <2>1, <2>8, <2>9
<1>. QED BY <1>1, <1>2, <1>3

LEMMA StuffingIs == Stuffing \in SecBytes /\ Stuffing.val = 255
BY DEF Stuffing, SecBytes, Values

(* A payload is what there is, then stuffing.                              *)
LEMMA PaddedIs ==
  ASSUME NEW all \in Seq(SecBytes), NEW n \in Nat
  PROVE  /\ Padded(all, n) \in Seq(SecBytes) /\ Len(Padded(all, n)) = n
         /\ \A i \in 1 .. n : Padded(all, n)[i] = IF i <= Len(all) THEN all[i] ELSE Stuffing
<1>1. PICK p : p = [k \in 1 .. n |-> Stuffing] OBVIOUS
<1>2. p \in Seq(SecBytes) /\ Len(p) = n /\ \A i \in 1 .. n : p[i] = Stuffing
  <2>1. p \in [1 .. n -> SecBytes] BY <1>1, StuffingIs
  <2>2. p \in Seq(SecBytes) /\ Len(p) = n BY <1>1, <2>1
  <2>. QED BY <1>1, <2>2
<1>3. PICK z : z = all \o p OBVIOUS
<1>4. /\ z \in Seq(SecBytes) /\ Len(z) = Len(all) + n
      /\ \A i \in 1 .. Len(all) + n : z[i] = IF i <= Len(all) THEN all[i] ELSE p[i - Len(all)]
  BY <1>2, <1>3, ConcatProperties
<1>5. Len(all) \in Nat OBVIOUS
<1>6. Padded(all, n) = SubSeq(z, 1, n) BY <1>1, <1>3 DEF Padded
<1>7. n \in 0 .. Len(z) BY <1>4, <1>5
<1>8. /\ SubSeq(z, 1, n) \in Seq(SecBytes) /\ Len(SubSeq(z, 1, n)) = n
      /\ \A i \in 1 .. n : SubSeq(z, 1, n)[i] = z[i]
  BY <1>4, <1>7
<1>9. ASSUME NEW i \in 1 .. n PROVE z[i] = IF i <= Len(all) THEN all[i] ELSE Stuffing
  <2>1. i \in 1 .. Len(all) + n BY <1>5
  <2>2. CASE i <= Len(all) BY <1>4, <2>1, <2>2
  <2>3. CASE ~(i <= Len(all))
    <3>1. i - Len(all) \in 1 .. n BY <1>5, <2>3
    <3>. QED BY <1>2, <1>4, <2>1, <2>3, <3>1
  <2>. QED BY <2>2, <2>3
<1>. QED BY <1>6, <1>8, <1>9

(* x is what is left of s after m bytes of it, and stuffing.               *)
LeftOf(x, s, m) ==
  \A i \in 1 .. Len(x) : x[i] = IF m + i <= Len(s) THEN s[m + i] ELSE Stuffing

(* A payload that goes on with one section, to its end or not.             *)
LEMMA ParsedOne ==
  ASSUME NEW no \in Nat, NEW len \in SecLengths, NEW s, s = Section(no, len),
         NEW m \in 0 .. len - 1, m = 0 \/ m >= 3, NEW x \in Seq(SecBytes), Len(x) >= 1,
         LeftOf(x, s, m), NEW out, NEW k, k = Lesser(len, m + Len(x))
  PROVE  Parsed(Chan(Held(s, m), out, 0), x) = Chan(Held(s, k), Whole(s, k, out), k - m)
<1>1. Len(s) = len /\ len \in 3 .. 258 BY SectionIs
<1>2. Len(x) \in Nat OBVIOUS
<1>3. GoesOn(x, s, m) BY <1>1 DEF GoesOn, LeftOf
<1>4. k \in Nat /\ k - m \in 1 .. Len(x) /\ (k - m # Len(x) => k = len) BY <1>1, <1>2 DEF Lesser
<1>5. PICK ch : ch = Chan(Held(s, m), out, 0) OBVIOUS
<1>6. ch.at = 0 BY <1>5 DEF Chan
<1>7. SubSeq(x, ch.at + 1, Len(x)) = x BY <1>6, SubSeqFull
<1>8. PICK c : c = Chan(Held(s, k), Whole(s, k, out), k - m) OBVIOUS
<1>9. CheckSec(ch, x) = c
  <2>1. PICK z : z = 0 OBVIOUS
  <2>2. z \in Nat BY <2>1
  <2>3. CheckSec(Chan(Held(s, m), out, z), x) = Chan(Held(s, k), Whole(s, k, out), z + (k - m))
    BY <1>3, <2>2, CheckSection
  <2>4. z + (k - m) = k - m BY <1>4, <2>1
  <2>. QED BY <1>5, <1>8, <2>1, <2>3, <2>4
<1>10. Over(c, x)
  <2>1. c.at = k - m BY <1>8 DEF Chan
  <2>2. CASE k - m = Len(x) BY <2>1, <2>2 DEF Over
  <2>3. CASE k - m # Len(x)
    <3>1. k = len /\ (k - m) + 1 \in 1 .. Len(x) /\ ~(m + ((k - m) + 1) <= len)
      BY <1>1, <1>2, <1>4, <2>3
    <3>2. x[(k - m) + 1] = Stuffing BY <1>1, <3>1 DEF LeftOf
    <3>. QED BY <2>1, <3>2, StuffingIs DEF Over
  <2>. QED BY <2>2, <2>3
<1>11. Parsed(ch, x) = c
  <2>1. ch.at # Len(x) BY <1>2, <1>6
  <2>2. c = CheckSec(ch, SubSeq(x, ch.at + 1, Len(x))) BY <1>7, <1>9
  <2>. QED BY <1>2, <1>10, <2>1, <2>2, ParsedOnce
<1>. QED BY <1>5, <1>8, <1>11

(* A payload with a section and the next one, that one to its end or not.  *)
LEMMA ParsedTwo ==
  ASSUME NEW no \in Nat, NEW len \in SecLengths, NEW s, s = Section(no, len),
         NEW no2 \in Nat, NEW len2 \in SecLengths, NEW t, t = Section(no2, len2),
         NEW x \in Seq(SecBytes), Len(x) > len, LeftOf(x, s \o t, 0),
          NEW out, NEW k, k = Lesser(len2, Len(x) - len)
  PROVE  Parsed(Chan(<<>>, out, 0), x) = Chan(Held(t, k), Whole(t, k, Append(out, s)), len + k)
<1>1. Len(s) = len /\ len \in 3 .. 258 BY SectionIs
<1>2. Len(t) = len2 /\ len2 \in 3 .. 258 /\ t[1].val = 0 BY SectionIs
<1>3. Len(x) \in Nat OBVIOUS
<1>4. ASSUME NEW i \in 1 .. Len(x)
      PROVE  x[i] = IF i <= len THEN s[i] ELSE IF i - len <= len2 THEN t[i - len] ELSE Stuffing
  <2>1. PICK u : u = s \o t OBVIOUS
  <2>2. s \in Seq(SecBytes) /\ t \in Seq(SecBytes) BY SectionIs
  <2>3. /\ Len(u) = len + len2
        /\ \A j \in 1 .. len + len2 : u[j] = IF j <= len THEN s[j] ELSE t[j - len]
    BY <1>1, <1>2, <2>1, <2>2, ConcatProperties
  <2>4. x[i] = IF i <= len + len2 THEN u[i] ELSE Stuffing
    <3>1. 0 + i = i OBVIOUS
    <3>. QED BY <2>1, <2>3, <3>1 DEF LeftOf
  <2>5. CASE i <= len + len2
    <3>1. i \in 1 .. len + len2 /\ i - len <= len2 BY <1>1, <1>2, <2>5
    <3>. QED BY <2>3, <2>4, <2>5, <3>1
  <2>6. CASE ~(i <= len + len2)
    <3>1. ~(i <= len) /\ ~(i - len <= len2) BY <1>1, <1>2, <2>6
    <3>. QED BY <2>4, <2>6, <3>1
  <2>. QED BY <2>5, <2>6
<1>5. k \in 1 .. Len(x) - len /\ (k # Len(x) - len => k = len2) BY <1>1, <1>2, <1>3 DEF Lesser
<1>6. PICK ch : ch = Chan(<<>>, out, 0) OBVIOUS
<1>7. ch.at = 0 BY <1>6 DEF Chan
<1>8. PICK c : c = Chan(<<>>, Append(out, s), len) OBVIOUS
<1>9. c.at = len BY <1>8 DEF Chan
<1>10. c = CheckSec(ch, SubSeq(x, ch.at + 1, Len(x)))
  <2>1. SubSeq(x, ch.at + 1, Len(x)) = x BY <1>7, SubSeqFull
  <2>2. PICK m : m = 0 OBVIOUS
  <2>3. m \in 0 .. len - 1 /\ m \in Nat /\ len = Lesser(len, m + Len(x)) /\ (m = 0 \/ m >= 3)
    BY <1>1, <1>3, <2>2 DEF Lesser
  <2>4. GoesOn(x, s, m)
    <3>1. ASSUME NEW i \in 1 .. Len(x), m + i <= Len(s) PROVE x[i] = s[m + i]
      <4>1. m + i = i /\ i <= len BY <1>1, <2>2, <3>1
      <4>. QED BY <1>4, <4>1
    <3>. QED BY <3>1 DEF GoesOn
  <2>5. PICK k1 : k1 = len OBVIOUS
  <2>6. k1 = Lesser(len, m + Len(x)) BY <2>3, <2>5
  <2>7. CheckSec(Chan(Held(s, m), out, m), x)
          = Chan(Held(s, k1), Whole(s, k1, out), m + (k1 - m))
    BY <2>3, <2>4, <2>6, CheckSection
  <2>8. Held(s, m) = <<>> /\ Held(s, k1) = <<>> /\ Whole(s, k1, out) = Append(out, s)
    BY <1>1, <2>2, <2>5 DEF Held, Whole
  <2>9. m + (k1 - m) = len BY <1>1, <2>2, <2>5
  <2>. QED BY <1>6, <1>8, <2>1, <2>2, <2>7, <2>8, <2>9
<1>11. ~Over(c, x)
  <2>1. len + 1 \in 1 .. Len(x) /\ ~(len + 1 <= len) /\ (len + 1) - len = 1 /\ 1 <= len2
    BY <1>1, <1>2, <1>3
  <2>2. x[len + 1] = t[1] BY <1>4, <2>1
  <2>3. len # Len(x) BY <1>1, <1>3
  <2>. QED BY <1>2, <1>9, <2>2, <2>3 DEF Over
<1>12. PICK y : y = SubSeq(x, c.at + 1, Len(x)) OBVIOUS
<1>13. /\ y \in Seq(SecBytes) /\ Len(y) = Len(x) - len
       /\ \A i \in 1 .. Len(x) - len : y[i] = x[len + i]
  <2>1. len + 1 \in Nat /\ len + 1 >= 1 BY <1>1
  <2>2. y = SubSeq(x, len + 1, Len(x)) BY <1>9, <1>12
  <2>. QED BY <1>1, <1>3, <2>1, <2>2
<1>14. PICK d : d = Chan(Held(t, k), Whole(t, k, Append(out, s)), len + k) OBVIOUS
<1>15. d = CheckSec(c, y)
  <2>1. PICK m : m = 0 OBVIOUS
  <2>2. m \in 0 .. len2 - 1 /\ (m = 0 \/ m >= 3) /\ k = Lesser(len2, m + Len(y)) /\ len \in Nat
    BY <1>1, <1>2, <1>3, <1>13, <2>1 DEF Lesser
  <2>3. GoesOn(y, t, m)
    <3>1. ASSUME NEW i \in 1 .. Len(y), m + i <= Len(t) PROVE y[i] = t[m + i]
      <4>1. /\ m + i = i /\ len + i \in 1 .. Len(x) /\ ~(len + i <= len)
            /\ (len + i) - len = i /\ i <= len2 /\ i \in 1 .. Len(x) - len
        BY <1>1, <1>2, <1>3, <1>13, <2>1, <3>1
      <4>2. x[len + i] = t[i] BY <1>4, <4>1
      <4>. QED BY <1>13, <4>1, <4>2
    <3>. QED BY <3>1 DEF GoesOn
  <2>4. PICK o2 : o2 = Append(out, s) OBVIOUS
  <2>5. CheckSec(Chan(Held(t, m), o2, len), y)
          = Chan(Held(t, k), Whole(t, k, o2), len + (k - m))
    <3>1. y \in Seq(SecBytes) BY <1>13
    <3>2. PICK at : at = len OBVIOUS
    <3>3. at \in Nat BY <2>2, <3>2
    <3>4. CheckSec(Chan(Held(t, m), o2, at), y)
            = Chan(Held(t, k), Whole(t, k, o2), at + (k - m))
      BY ONLY <2>2, <2>3, <3>1, <3>3, no2 \in Nat, len2 \in SecLengths, t = Section(no2, len2),
         CheckSection
    <3>. QED BY <3>2, <3>4
  <2>6. Held(t, m) = <<>> BY <2>1 DEF Held
  <2>7. len + (k - m) = len + k BY <1>1, <1>5, <2>1
  <2>. QED BY <1>8, <1>14, <2>4, <2>5, <2>6, <2>7
<1>16. Over(d, x)
  <2>1. d.at = len + k BY <1>14 DEF Chan
  <2>2. CASE k = Len(x) - len
    <3>1. len + k = Len(x) BY <1>1, <1>3, <2>2
    <3>. QED BY <2>1, <3>1 DEF Over
  <2>3. CASE k # Len(x) - len
    <3>1. /\ k = len2 /\ (len + k) + 1 \in 1 .. Len(x) /\ ~((len + k) + 1 <= len)
          /\ ~(((len + k) + 1) - len <= len2)
      BY <1>1, <1>2, <1>3, <1>5, <2>3
    <3>2. x[(len + k) + 1] = Stuffing BY <1>4, <3>1
    <3>. QED BY <2>1, <3>2, StuffingIs DEF Over
  <2>. QED BY <2>2, <2>3
<1>17. Parsed(ch, x) = d
  <2>1. ch.at # Len(x) /\ Len(x) >= 2 BY <1>1, <1>3, <1>7
  <2>. QED BY <1>3, <1>10, <1>11, <1>12, <1>15, <1>16, <2>1, ParsedTwice
<1>. QED BY <1>6, <1>14, <1>17

-----------------------------------------------------------------------------
(* IsSuffix by its definition with Reverse.                                *)
LEMMA SuffixOf ==
  ASSUME NEW S, NEW g \in Seq(S), NEW d \in Seq(S)
  PROVE  IsSuffix(d, g \o d)
<1>1. PICK e : e = g \o d OBVIOUS
<1>2. /\ e \in Seq(S) /\ Len(e) = Len(g) + Len(d)
      /\ \A i \in 1 .. Len(g) + Len(d) : e[i] = IF i <= Len(g) THEN g[i] ELSE d[i - Len(g)]
  BY <1>1, ConcatProperties
<1>3. Len(g) \in Nat /\ Len(d) \in Nat OBVIOUS
<1>4. PICK r : r = Reverse(d) OBVIOUS
<1>5. PICK q : q = Reverse(e) OBVIOUS
<1>6. r \in Seq(S) /\ Len(r) = Len(d) /\ \A i \in 1 .. Len(d) : r[i] = d[(Len(d) - i) + 1]
  <2>1. r = [i \in 1 .. Len(d) |-> d[(Len(d) - i) + 1]] BY <1>4 DEF Reverse
  <2>2. ASSUME NEW i \in 1 .. Len(d) PROVE d[(Len(d) - i) + 1] \in S
    <3>1. (Len(d) - i) + 1 \in 1 .. Len(d) BY <1>3
    <3>. QED BY <3>1, ElementOfSeq
  <2>3. r \in [1 .. Len(d) -> S] BY <2>1, <2>2
  <2>. QED BY <1>3, <2>1, <2>3
<1>7. q \in Seq(S) /\ Len(q) = Len(e) /\ \A i \in 1 .. Len(e) : q[i] = e[(Len(e) - i) + 1]
  <2>1. q = [i \in 1 .. Len(e) |-> e[(Len(e) - i) + 1]] BY <1>5 DEF Reverse
  <2>2. ASSUME NEW i \in 1 .. Len(e) PROVE e[(Len(e) - i) + 1] \in S
    <3>1. (Len(e) - i) + 1 \in 1 .. Len(e) BY <1>2, <1>3
    <3>. QED BY <1>2, <3>1, ElementOfSeq
  <2>3. q \in [1 .. Len(e) -> S] BY <2>1, <2>2
  <2>. QED BY <1>2, <1>3, <2>1, <2>3
<1>8. PICK a, b : a = SubSeq(r, 1, Len(r)) /\ b = SubSeq(q, 1, Len(r)) OBVIOUS
<1>9. a = b
  <2>1. a \in Seq(S) /\ Len(a) = Len(d) /\ \A i \in 1 .. Len(d) : a[i] = r[i] BY <1>3, <1>6, <1>8
  <2>2. b \in Seq(S) /\ Len(b) = Len(d) /\ \A i \in 1 .. Len(d) : b[i] = q[i]
    <3>1. Len(r) \in 0 .. Len(q) BY <1>2, <1>3, <1>6, <1>7
    <3>. QED BY <1>3, <1>6, <1>7, <1>8, <3>1
  <2>3. ASSUME NEW i \in 1 .. Len(d) PROVE a[i] = b[i]
    <3>1. PICK j : j = (Len(d) - i) + 1 OBVIOUS
    <3>2. j \in 1 .. Len(d) BY <1>3, <3>1
    <3>3. i \in 1 .. Len(e) /\ (Len(e) - i) + 1 = Len(g) + j /\ Len(g) + j \in 1 .. Len(g) + Len(d)
          /\ ~(Len(g) + j <= Len(g)) /\ (Len(g) + j) - Len(g) = j
      BY <1>2, <1>3, <3>1, <3>2
    <3>4. q[i] = e[Len(g) + j] BY <1>7, <3>3
    <3>5. e[Len(g) + j] = d[j] BY <1>2, <3>3
    <3>6. r[i] = d[j] BY <1>6, <3>1
    <3>. QED BY <2>1, <2>2, <3>4, <3>5, <3>6
  <2>. QED BY <2>1, <2>2, <2>3, SeqEqual
<1>10. Len(r) <= Len(q) BY <1>2, <1>3, <1>6, <1>7
<1>. QED BY <1>1, <1>4, <1>5, <1>8, <1>9, <1>10 DEF IsSuffix, IsPrefix

(* The inductive invariant.                                                *)
SecInv ==
  /\ SectionAsmTypeOK
  /\ section \in Sections(begun) /\ sent >= 1
  /\ GoodBuf(secBuf)
  /\ intact = ~doubt.after
  /\ intact => sent >= 3 /\ secBuf = Held(section, sent)
  /\ SectionsWhole

(* The sections that begin in a packet.                                    *)
LEMMA BeginningsAre ==
  ASSUME NEW list \in Beginnings, begun \in Nat
  PROVE  \/ list = <<>>
         \/ \E len \in SecLengths : list = <<Section(begun + 1, len)>>
         \/ \E len, len2 \in SecLengths :
              list = <<Section(begun + 1, len), Section(begun + 2, len2)>>
BY DEF Beginnings, Sections

LEMMA Appended ==
  ASSUME NEW S, NEW out \in Seq(S), NEW s \in S, NEW t \in S
  PROVE  /\ Append(out, s) = out \o <<s>>
         /\ Append(Append(out, s), t) = out \o <<s, t>>
<1>1. Append(out, s) = out \o <<s>> BY AppendIsConcat
<1>2. Append(Append(out, s), t) = out \o <<s, t>>
  <2>1. PICK p, q : p = Append(Append(out, s), t) /\ q = out \o <<s, t>> OBVIOUS
  <2>2. PICK o : o = Append(out, s) OBVIOUS
  <2>3. o \in Seq(S) /\ Len(o) = Len(out) + 1 /\ o[Len(out) + 1] = s
        /\ \A i \in 1 .. Len(out) : o[i] = out[i]
    BY <2>2, AppendProperties
  <2>4. p \in Seq(S) /\ Len(p) = Len(o) + 1 /\ p[Len(o) + 1] = t
        /\ \A i \in 1 .. Len(o) : p[i] = o[i]
    BY <2>1, <2>2, <2>3, AppendProperties
  <2>5. PICK u : u = <<s, t>> OBVIOUS
  <2>6. u \in Seq(S) /\ Len(u) = 2 /\ u[1] = s /\ u[2] = t BY <2>5
  <2>7. q \in Seq(S) /\ Len(q) = Len(out) + 2
        /\ \A i \in 1 .. Len(out) + 2 : q[i] = IF i <= Len(out) THEN out[i] ELSE u[i - Len(out)]
    BY <2>1, <2>5, <2>6, ConcatProperties
  <2>8. Len(out) \in Nat OBVIOUS
  <2>9. ASSUME NEW i \in 1 .. Len(p) PROVE p[i] = q[i]
    <3>1. CASE i <= Len(out)
      <4>1. i \in 1 .. Len(out) /\ i \in 1 .. Len(o) /\ i \in 1 .. Len(out) + 2
        BY <2>3, <2>4, <2>8, <3>1
      <4>. QED BY <2>3, <2>4, <2>7, <3>1, <4>1
    <3>2. CASE i = Len(out) + 1
      <4>1. i \in 1 .. Len(o) /\ i \in 1 .. Len(out) + 2 /\ ~(i <= Len(out)) /\ i - Len(out) = 1
        BY <2>3, <2>8, <3>2
      <4>. QED BY <2>3, <2>4, <2>6, <2>7, <3>2, <4>1
    <3>3. CASE i = Len(out) + 2
      <4>1. i = Len(o) + 1 /\ i \in 1 .. Len(out) + 2 /\ ~(i <= Len(out)) /\ i - Len(out) = 2
        BY <2>3, <2>8, <3>3
      <4>. QED BY <2>4, <2>6, <2>7, <4>1
    <3>. QED BY <2>3, <2>4, <2>8, <3>1, <3>2, <3>3
  <2>10. Len(p) = Len(q) BY <2>3, <2>4, <2>7, <2>8
  <2>. QED BY <2>1, <2>4, <2>7, <2>9, <2>10, SeqEqual
<1>. QED BY <1>1, <1>2

(* The current section, what is to come of it, and what the channel holds. *)
LEMMA SecState ==
  ASSUME SecInv
  PROVE  /\ begun \in Nat /\ gaps \in Nat
         /\ \E len \in SecLengths :
              /\ section = Section(begun, len) /\ Len(section) = len /\ len \in 3 .. 258
              /\ sent \in 1 .. len /\ section \in Seq(SecBytes)
              /\ StillToCome \in Seq(SecBytes) /\ Len(StillToCome) = len - sent
              /\ \A i \in 1 .. len - sent : StillToCome[i] = section[sent + i]
         /\ GoodBuf(secBuf) /\ doubt \in [before : BOOLEAN, after : BOOLEAN]
         /\ intact \in BOOLEAN /\ given \in Seq(Seq(SecBytes)) /\ owed \in Seq(Seq(SecBytes))
<1>1. begun \in Nat /\ gaps \in Nat
  <2>1. begun \in 0 .. MaxBegun /\ gaps \in 0 .. MaxGaps BY DEF SecInv, SectionAsmTypeOK
  <2>. QED BY <2>1, SectionAsmAssumption
<1>2. PICK len \in SecLengths : section = Section(begun, len) BY DEF SecInv, Sections
<1>3. section \in Seq(SecBytes) /\ Len(section) = len /\ len \in 3 .. 258 BY <1>1, <1>2, SectionIs
<1>4. sent \in 1 .. len
  <2>1. sent \in 0 .. Len(section) /\ sent >= 1 BY DEF SecInv, SectionAsmTypeOK
  <2>. QED BY <1>3, <2>1
<1>5. PICK x : x = StillToCome OBVIOUS
<1>6. x = SubSeq(section, sent + 1, len) BY <1>3, <1>5 DEF StillToCome
<1>7. /\ x \in Seq(SecBytes) /\ Len(x) = len - sent
      /\ \A i \in 1 .. len - sent : x[i] = section[sent + i]
  BY <1>3, <1>4, <1>6
<1>8. /\ GoodBuf(secBuf) /\ doubt \in [before : BOOLEAN, after : BOOLEAN]
      /\ intact \in BOOLEAN /\ given \in Seq(Seq(SecBytes)) /\ owed \in Seq(Seq(SecBytes))
  BY DEF SecInv, SectionAsmTypeOK
<1>. QED BY <1>1, <1>2, <1>3, <1>4, <1>5, <1>7, <1>8

LEMMA ChannelIs == Channel = Chan(secBuf, <<>>, 0)
BY DEF Channel, Chan

LEMMA ChannelGood ==
  ASSUME GoodBuf(secBuf), NEW n \in Nat
  PROVE  Good(Channel, n)
<1>1. Channel.buf = secBuf /\ Channel.out = <<>> /\ Channel.at = 0 BY DEF Channel
<1>2. <<>> \in Seq(Seq(SecBytes)) /\ 0 \in 0 .. n OBVIOUS
<1>. QED BY <1>1, <1>2 DEF Good

(* A packet in which no section begins.                                    *)
LEMMA Continues ==
  ASSUME SecInv, StillToCome # <<>>, NEW n \in Nat, n >= 1,
         NEW ch, ch = Parsed(Channel, Padded(StillToCome, n)),
         NEW k, k = Lesser(Len(section), sent + n)
  PROVE  /\ GoodBuf(ch.buf) /\ ch.out \in Seq(Seq(SecBytes))
         /\ intact => /\ ch.buf = Held(section, k)
                      /\ ch.out = IF k = Len(section) THEN <<section>> ELSE <<>>
<1>1. PICK len \in SecLengths :
        /\ section = Section(begun, len) /\ Len(section) = len /\ len \in 3 .. 258
        /\ sent \in 1 .. len /\ section \in Seq(SecBytes)
        /\ StillToCome \in Seq(SecBytes) /\ Len(StillToCome) = len - sent
        /\ \A i \in 1 .. len - sent : StillToCome[i] = section[sent + i]
  BY SecState
<1>2. begun \in Nat /\ GoodBuf(secBuf) BY SecState
<1>3. PICK x : x = Padded(StillToCome, n) OBVIOUS
<1>4. /\ x \in Seq(SecBytes) /\ Len(x) = n
      /\ \A i \in 1 .. n : x[i] = IF i <= len - sent THEN StillToCome[i] ELSE Stuffing
  BY <1>1, <1>3, PaddedIs
<1>5. GoodBuf(ch.buf) /\ ch.out \in Seq(Seq(SecBytes))
  <2>1. Good(Channel, Len(x)) BY <1>2, <1>4, ChannelGood
  <2>2. Good(ch, Len(x)) BY <1>3, <1>4, <2>1, ParsedAny
  <2>. QED BY <2>2 DEF Good
<1>6. ASSUME intact
      PROVE  ch.buf = Held(section, k) /\ ch.out = IF k = Len(section) THEN <<section>> ELSE <<>>
  <2>1. sent >= 3 /\ secBuf = Held(section, sent) BY <1>6 DEF SecInv
  <2>2. sent # len
    <3>1. CASE sent = len
      <4>1. Len(StillToCome) = 0 BY <1>1, <3>1
      <4>. QED BY <1>1, <4>1, EmptySeq
    <3>. QED BY <3>1
  <2>3. PICK m, s, no : m = sent /\ s = section /\ no = begun OBVIOUS
  <2>4. /\ no \in Nat /\ len \in SecLengths /\ x \in Seq(SecBytes)
        /\ m \in 0 .. len - 1 /\ (m = 0 \/ m >= 3) /\ s = Section(no, len)
        /\ k = Lesser(len, m + Len(x)) /\ Len(x) >= 1
    BY <1>1, <1>2, <1>4, <2>1, <2>2, <2>3
  <2>5. ASSUME NEW i \in 1 .. Len(x) PROVE x[i] = IF m + i <= len THEN s[m + i] ELSE Stuffing
    <3>1. i \in 1 .. n /\ (m + i <= len <=> i <= len - sent) BY <1>1, <1>4, <2>3
    <3>2. CASE m + i <= len
      <4>1. i \in 1 .. len - sent BY <1>1, <3>1, <3>2
      <4>. QED BY <1>1, <1>4, <2>3, <3>1, <3>2, <4>1
    <3>3. CASE ~(m + i <= len) BY <1>4, <3>1, <3>3
    <3>. QED BY <3>2, <3>3
  <2>6. Parsed(Chan(Held(s, m), <<>>, 0), x) = Chan(Held(s, k), Whole(s, k, <<>>), k - m)
    <3>1. LeftOf(x, s, m) BY <1>1, <2>3, <2>5 DEF LeftOf
    <3>2. PICK o : o = <<>> OBVIOUS
    <3>3. Parsed(Chan(Held(s, m), o, 0), x) = Chan(Held(s, k), Whole(s, k, o), k - m)
      BY ONLY <2>4, <3>1, ParsedOne
    <3>. QED BY <3>2, <3>3
  <2>7. ch = Chan(Held(s, k), Whole(s, k, <<>>), k - m) BY <1>3, <2>1, <2>3, <2>6, ChannelIs
  <2>8. ch.buf = Held(s, k) /\ ch.out = Whole(s, k, <<>>) BY <2>7 DEF Chan
  <2>9. Append(<<>>, s) = <<s>>
    <3>1. s \in Seq(SecBytes) BY <1>1, <2>3
    <3>. QED BY <3>1
  <2>. QED BY <2>3, <2>8, <2>9 DEF Whole
<1>. QED BY <1>5, <1>6

(* The bytes before the first section that begins.                         *)
LEMMA Tailed ==
  ASSUME SecInv, NEW ch, ch = CheckTail(Channel, StillToCome)
  PROVE  \E g \in Seq(Seq(SecBytes)) :
           /\ ch = Chan(<<>>, g, 0)
           /\ intact => g = IF StillToCome # <<>> THEN <<section>> ELSE <<>>
<1>1. PICK len \in SecLengths :
        /\ section = Section(begun, len) /\ Len(section) = len /\ len \in 3 .. 258
        /\ sent \in 1 .. len /\ section \in Seq(SecBytes)
        /\ StillToCome \in Seq(SecBytes) /\ Len(StillToCome) = len - sent
        /\ \A i \in 1 .. len - sent : StillToCome[i] = section[sent + i]
  BY SecState
<1>2. begun \in Nat /\ GoodBuf(secBuf) BY SecState
<1>3. PICK x : x = StillToCome OBVIOUS
<1>4. x \in Seq(SecBytes) /\ Len(x) \in Nat /\ Len(x) = len - sent BY <1>1, <1>3
<1>5. PICK g : g = CheckSec(Channel, x).out OBVIOUS
<1>6. ch = Chan(<<>>, g, 0) BY <1>3, <1>5 DEF CheckTail, Chan
<1>7. g \in Seq(Seq(SecBytes))
  <2>1. Good(Channel, Len(x)) BY <1>2, <1>4, ChannelGood
  <2>2. Channel.at + Len(x) <= Len(x)
    <3>1. Channel.at = 0 BY DEF Channel
    <3>. QED BY <1>4, <3>1
  <2>3. Good(CheckSec(Channel, x), Len(x)) BY <1>4, <2>1, <2>2, CheckAny
  <2>. QED BY <1>5, <2>3 DEF Good
<1>8. ASSUME intact PROVE g = IF x # <<>> THEN <<section>> ELSE <<>>
  <2>1. sent >= 3 /\ secBuf = Held(section, sent) BY <1>8 DEF SecInv
  <2>2. CASE x = <<>>
    <3>1. Len(x) = 0 BY <2>2, EmptySeq
    <3>2. sent = Len(section) BY <1>1, <1>4, <3>1
    <3>3. secBuf = <<>> BY <2>1, <3>2 DEF Held
    <3>4. Channel.buf = <<>> /\ Channel.out = <<>> BY <3>3 DEF Channel
    <3>5. Len(Channel.buf) + Len(x) < 3 BY <3>1, <3>4
    <3>6. CheckSec(Channel, x) =
            [buf |-> Channel.buf, out |-> Channel.out, at |-> Channel.at + Len(x)]
      BY <3>5 DEF CheckSec
    <3>. QED BY <1>5, <2>2, <3>4, <3>6
  <2>3. CASE x # <<>>
    <3>1. Len(x) >= 1 BY <1>4, <2>3, EmptySeq
    <3>2. PICK m, s, no, at, k : m = sent /\ s = section /\ no = begun /\ at = 0 /\ k = len
      OBVIOUS
    <3>3. /\ no \in Nat /\ len \in SecLengths /\ x \in Seq(SecBytes)
          /\ m \in 0 .. len - 1 /\ (m = 0 \/ m >= 3) /\ s = Section(no, len) /\ at \in Nat
          /\ k = Lesser(len, m + Len(x))
      BY <1>1, <1>2, <1>4, <2>1, <3>1, <3>2 DEF Lesser
    <3>4. GoesOn(x, s, m) BY <1>1, <1>3, <1>4, <3>2 DEF GoesOn
    <3>5. CheckSec(Chan(Held(s, m), <<>>, at), x) =
            Chan(Held(s, k), Whole(s, k, <<>>), at + (k - m))
      BY ONLY <3>3, <3>4, CheckSection
    <3>6. g = Whole(s, k, <<>>)
      <4>1. CheckSec(Channel, x) = Chan(Held(s, k), Whole(s, k, <<>>), at + (k - m))
        BY <2>1, <3>2, <3>5, ChannelIs
      <4>. QED BY <1>5, <4>1 DEF Chan
    <3>7. Append(<<>>, section) = <<section>> BY <1>1
    <3>. QED BY <1>1, <2>3, <3>2, <3>6, <3>7 DEF Whole
  <2>. QED BY <2>2, <2>3
<1>. QED BY <1>3, <1>6, <1>7, <1>8

(* The last of the sections that begin in a packet, and those before it.   *)
LEMMA BeginningsParts ==
  ASSUME begun \in Nat, NEW list \in Beginnings, list # <<>>
  PROVE  /\ list \in Seq(Seq(SecBytes)) /\ Front(list) \in Seq(Seq(SecBytes))
         /\ Len(list) \in {1, 2}
         /\ FlattenSeq(list) \in Seq(SecBytes) /\ FlattenSeq(Front(list)) \in Seq(SecBytes)
         /\ \E len \in SecLengths :
              /\ Last(list) = Section(begun + Len(list), len)
              /\ Len(FlattenSeq(list)) = Len(FlattenSeq(Front(list))) + len
         /\ Last(list) \in Seq(SecBytes) /\ Len(Last(list)) \in 3 .. 258
<1>1. PICK no : no = begun OBVIOUS
<1>2. no \in Nat /\ no + 1 \in Nat /\ no + 2 \in Nat BY <1>1
<1>3. CASE \E len \in SecLengths : list = <<Section(begun + 1, len)>>
  <2>1. PICK len \in SecLengths : list = <<Section(begun + 1, len)>> BY <1>3
  <2>2. PICK s : s = Section(no + 1, len) OBVIOUS
  <2>3. s \in Seq(SecBytes) /\ Len(s) = len /\ len \in 3 .. 258 BY <1>2, <2>2, SectionIs
  <2>4. list = <<s>> BY <1>1, <2>1, <2>2
  <2>5. /\ Len(list) = 1 /\ Last(list) = s /\ Front(list) = <<>>
    <3>1. Len(list) = 1 /\ list[1] = s BY <2>4
    <3>2. SubSeq(list, 1, 1 - 1) = <<>> BY SubSeqEmpty
    <3>. QED BY <3>1, <3>2 DEF Last, Front
  <2>6. FlattenSeq(list) = s /\ FlattenSeq(Front(list)) = <<>> BY <2>3, <2>4, <2>5, FlattenFew
  <2>7. list \in Seq(Seq(SecBytes)) BY <2>3, <2>4
  <2>8. Len(<<>>) = 0 /\ <<>> \in Seq(SecBytes) /\ <<>> \in Seq(Seq(SecBytes)) OBVIOUS
  <2>9. Len(s) = Len(<<>>) + len BY <2>3, <2>8
  <2>10. Last(list) = Section(begun + Len(list), len) BY <1>1, <2>2, <2>5
  <2>11. Len(FlattenSeq(list)) = Len(FlattenSeq(Front(list))) + len BY <2>6, <2>9
  <2>. QED BY <2>3, <2>5, <2>6, <2>7, <2>8, <2>10, <2>11
<1>4. CASE \E len, len2 \in SecLengths :
             list = <<Section(begun + 1, len), Section(begun + 2, len2)>>
  <2>1. PICK len \in SecLengths, len2 \in SecLengths :
          list = <<Section(begun + 1, len), Section(begun + 2, len2)>>
    BY <1>4
  <2>2. PICK s, t : s = Section(no + 1, len) /\ t = Section(no + 2, len2) OBVIOUS
  <2>3. /\ s \in Seq(SecBytes) /\ Len(s) = len /\ len \in 3 .. 258
        /\ t \in Seq(SecBytes) /\ Len(t) = len2 /\ len2 \in 3 .. 258
    BY <1>2, <2>2, SectionIs
  <2>4. list = <<s, t>> BY <1>1, <2>1, <2>2
  <2>5. /\ Len(list) = 2 /\ Last(list) = t /\ Front(list) = <<s>>
    <3>1. Len(list) = 2 /\ list[1] = s /\ list[2] = t BY <2>4
    <3>2. list \in Seq(Seq(SecBytes)) BY <2>3, <2>4
    <3>3. PICK u : u = SubSeq(list, 1, 1) OBVIOUS
    <3>4. u \in Seq(Seq(SecBytes)) /\ Len(u) = 1 /\ u[1] = s BY <3>1, <3>2, <3>3
    <3>5. u = <<s>> BY <3>4
    <3>. QED BY <3>1, <3>3, <3>5, 2 - 1 = 1 DEF Last, Front
  <2>6. FlattenSeq(list) = s \o t /\ FlattenSeq(Front(list)) = s BY <2>3, <2>4, <2>5, FlattenFew
  <2>7. list \in Seq(Seq(SecBytes)) /\ <<s>> \in Seq(Seq(SecBytes)) BY <2>3, <2>4
  <2>8. s \o t \in Seq(SecBytes) /\ Len(s \o t) = Len(s) + len2 BY <2>3, ConcatProperties
  <2>. QED BY <1>1, <2>2, <2>3, <2>5, <2>6, <2>7, <2>8
<1>. QED BY <1>3, <1>4, BeginningsAre

(* A payload in which the sections of list begin.                          *)
LEMMA ParsedList ==
  ASSUME begun \in Nat, NEW list \in Beginnings, list # <<>>,
         NEW fl, fl = FlattenSeq(list), NEW ff, ff = FlattenSeq(Front(list)),
         NEW x \in Seq(SecBytes), Len(ff) < Len(x), LeftOf(x, fl, 0),
         NEW out \in Seq(Seq(SecBytes)), NEW k, k = Lesser(Len(Last(list)), Len(x) - Len(ff)),
         NEW c, c = Parsed(Chan(<<>>, out, 0), x)
  PROVE  /\ c.buf = Held(Last(list), k)
         /\ c.out = out \o (IF Len(fl) <= Len(x) THEN list ELSE Front(list))
<1>1. PICK no : no = begun OBVIOUS
<1>2. no \in Nat /\ no + 1 \in Nat /\ no + 2 \in Nat /\ Len(x) \in Nat BY <1>1
<1>3. CASE \E len \in SecLengths : list = <<Section(begun + 1, len)>>
  <2>1. PICK len \in SecLengths : list = <<Section(begun + 1, len)>> BY <1>3
  <2>2. PICK s, n1 : s = Section(n1, len) /\ n1 = no + 1 OBVIOUS
  <2>3. s \in Seq(SecBytes) /\ Len(s) = len /\ len \in 3 .. 258 /\ n1 \in Nat
    BY <1>2, <2>2, SectionIs
  <2>4. list = <<s>> BY <1>1, <2>1, <2>2
  <2>5. /\ Len(list) = 1 /\ Last(list) = s /\ Front(list) = <<>>
    <3>1. Len(list) = 1 /\ list[1] = s BY <2>4
    <3>2. SubSeq(list, 1, 1 - 1) = <<>> BY SubSeqEmpty
    <3>. QED BY <3>1, <3>2 DEF Last, Front
  <2>6. fl = s /\ ff = <<>> BY <2>3, <2>4, <2>5, FlattenFew
  <2>7. Len(ff) = 0 BY <2>6
  <2>8. PICK m : m = 0 OBVIOUS
  <2>9. /\ m \in 0 .. len - 1 /\ (m = 0 \/ m >= 3) /\ Len(x) >= 1 /\ k = Lesser(len, m + Len(x))
        /\ len \in SecLengths /\ s = Section(n1, len) /\ n1 \in Nat /\ x \in Seq(SecBytes)
    BY <1>2, <2>2, <2>3, <2>5, <2>7, <2>8 DEF Lesser
  <2>10. LeftOf(x, s, m) BY <2>6, <2>8
  <2>11. Parsed(Chan(Held(s, m), out, 0), x) = Chan(Held(s, k), Whole(s, k, out), k - m)
    <3>1. PICK o : o = out OBVIOUS
    <3>2. Parsed(Chan(Held(s, m), o, 0), x) = Chan(Held(s, k), Whole(s, k, o), k - m)
      BY ONLY <2>9, <2>10, ParsedOne
    <3>. QED BY <3>1, <3>2
  <2>12. Held(s, m) = <<>> BY <2>8 DEF Held
  <2>13. c.buf = Held(s, k) /\ c.out = Whole(s, k, out) BY <2>11, <2>12 DEF Chan
  <2>14. k = Len(s) <=> Len(fl) <= Len(x)
    BY <1>2, <2>3, <2>5, <2>6, <2>7 DEF Lesser
  <2>15. Append(out, s) = out \o list BY <2>3, <2>4, Appended
  <2>16. out = out \o Front(list) BY <2>5, ConcatEmptySeq
  <2>. QED BY <2>5, <2>13, <2>14, <2>15, <2>16 DEF Whole
<1>4. CASE \E len, len2 \in SecLengths :
             list = <<Section(begun + 1, len), Section(begun + 2, len2)>>
  <2>1. PICK len \in SecLengths, len2 \in SecLengths :
          list = <<Section(begun + 1, len), Section(begun + 2, len2)>>
    BY <1>4
  <2>2. PICK s, t, n1, n2 :
          s = Section(n1, len) /\ t = Section(n2, len2) /\ n1 = no + 1 /\ n2 = no + 2
    OBVIOUS
  <2>3. /\ s \in Seq(SecBytes) /\ Len(s) = len /\ len \in 3 .. 258 /\ n1 \in Nat
        /\ t \in Seq(SecBytes) /\ Len(t) = len2 /\ len2 \in 3 .. 258 /\ n2 \in Nat
    BY <1>2, <2>2, SectionIs
  <2>4. list = <<s, t>> BY <1>1, <2>1, <2>2
  <2>5. /\ Len(list) = 2 /\ Last(list) = t /\ Front(list) = <<s>>
    <3>1. Len(list) = 2 /\ list[1] = s /\ list[2] = t BY <2>4
    <3>2. list \in Seq(Seq(SecBytes)) BY <2>3, <2>4
    <3>3. PICK u : u = SubSeq(list, 1, 1) OBVIOUS
    <3>4. u \in Seq(Seq(SecBytes)) /\ Len(u) = 1 /\ u[1] = s BY <3>1, <3>2, <3>3
    <3>5. u = <<s>> BY <3>4
    <3>. QED BY <3>1, <3>3, <3>5, 2 - 1 = 1 DEF Last, Front
  <2>6. fl = s \o t /\ ff = s BY <2>3, <2>4, <2>5, FlattenFew
  <2>7. /\ Len(fl) = len + len2
        /\ \A i \in 1 .. len + len2 : fl[i] = IF i <= len THEN s[i] ELSE t[i - len]
    BY <2>3, <2>6, ConcatProperties
  <2>8. /\ Len(x) > len /\ k = Lesser(len2, Len(x) - len)
        /\ len \in SecLengths /\ s = Section(n1, len) /\ n1 \in Nat /\ x \in Seq(SecBytes)
        /\ len2 \in SecLengths /\ t = Section(n2, len2) /\ n2 \in Nat
    BY <1>2, <2>2, <2>3, <2>5, <2>6
  <2>9. LeftOf(x, s \o t, 0) BY <2>6
  <2>10. Parsed(Chan(<<>>, out, 0), x) = Chan(Held(t, k), Whole(t, k, Append(out, s)), len + k)
    <3>1. PICK o : o = out OBVIOUS
    <3>2. Parsed(Chan(<<>>, o, 0), x) = Chan(Held(t, k), Whole(t, k, Append(o, s)), len + k)
      BY ONLY <2>8, <2>9, ParsedTwo
    <3>. QED BY <3>1, <3>2
  <2>11. c.buf = Held(t, k) /\ c.out = Whole(t, k, Append(out, s)) BY <2>10 DEF Chan
  <2>12. k = Len(t) <=> Len(fl) <= Len(x)
    <3>1. Len(fl) = len + len2 /\ k = Lesser(len2, Len(x) - len) BY <2>7, <2>8
    <3>2. PICK w : w = Len(x) OBVIOUS
    <3>3. w \in Nat /\ k = IF len2 < w - len THEN len2 ELSE w - len BY <1>2, <3>1, <3>2 DEF Lesser
    <3>4. k = len2 <=> len + len2 <= w BY <2>3, <3>3
    <3>. QED BY <2>3, <3>1, <3>2, <3>4
  <2>13. Append(Append(out, s), t) = out \o list
    <3>1. PICK S : S = Seq(SecBytes) OBVIOUS
    <3>2. out \in Seq(S) /\ s \in S /\ t \in S BY <2>3, <3>1
    <3>3. Append(Append(out, s), t) = out \o <<s, t>> BY ONLY <3>2, Appended
    <3>. QED BY <2>4, <3>3
  <2>14. Append(out, s) = out \o Front(list) BY <2>3, <2>5, Appended
  <2>. QED BY <2>5, <2>11, <2>12, <2>13, <2>14 DEF Whole
<1>. QED BY <1>3, <1>4, BeginningsAre

(* A packet in which sections begin: what the channel holds and has given. *)
BeginsWell(list, room) ==
  LET rest == StillToCome
      all  == rest \o FlattenSeq(list)
      ch   == Parsed(CheckTail(Channel, rest), SubSeq(Padded(all, room), Len(rest) + 1, room))
      k    == IF Len(all) <= room THEN Len(Last(list)) ELSE Len(Last(list)) - (Len(all) - room)
  IN /\ k \in 1 .. Len(Last(list))
     /\ GoodBuf(ch.buf) /\ ch.out \in Seq(Seq(SecBytes))
     /\ ch.buf = Held(Last(list), k)
     /\ \E g \in Seq(Seq(SecBytes)) :
          /\ ch.out = g \o (IF Len(all) <= room THEN list ELSE Front(list))
          /\ intact => g = IF rest # <<>> THEN <<section>> ELSE <<>>

(* The bytes before the first section that begins, and those after.        *)
LEMMA Begins ==
  ASSUME SecInv, NEW list \in Beginnings, list # <<>>, NEW room \in Nat,
         Len(StillToCome \o FlattenSeq(Front(list))) < room
  PROVE  BeginsWell(list, room)
<1>1. PICK rest : rest = StillToCome OBVIOUS
<1>2. PICK all, body : all = rest \o FlattenSeq(list) /\ body = Padded(all, room) OBVIOUS
<1>3. PICK ch, k :
        /\ ch = Parsed(CheckTail(Channel, rest), SubSeq(body, Len(rest) + 1, room))
        /\ k = IF Len(all) <= room THEN Len(Last(list)) ELSE Len(Last(list)) - (Len(all) - room)
  OBVIOUS
<1>4. rest \in Seq(SecBytes) /\ Len(rest) \in Nat /\ begun \in Nat
  <2>1. begun \in Nat /\ StillToCome \in Seq(SecBytes) BY SecState
  <2>. QED BY <1>1, <2>1
<1>5. PICK fl, ff, last : fl = FlattenSeq(list) /\ ff = FlattenSeq(Front(list)) /\ last = Last(list)
  OBVIOUS
<1>6. /\ fl \in Seq(SecBytes) /\ ff \in Seq(SecBytes) /\ Len(last) \in 3 .. 258
      /\ Len(fl) = Len(ff) + Len(last)
  <2>1. PICK len \in SecLengths :
          Last(list) = Section(begun + Len(list), len) /\ Len(fl) = Len(ff) + len
    BY <1>4, <1>5, BeginningsParts
  <2>2. Len(list) \in {1, 2} BY <1>4, BeginningsParts
  <2>3. begun + Len(list) \in Nat BY <1>4, <2>2
  <2>4. Len(last) = len BY <1>5, <2>1, <2>3, SectionIs
  <2>5. /\ FlattenSeq(list) \in Seq(SecBytes) /\ FlattenSeq(Front(list)) \in Seq(SecBytes)
        /\ Len(Last(list)) \in 3 .. 258
    BY <1>4, BeginningsParts
  <2>. QED BY <1>5, <2>1, <2>4, <2>5
<1>7. Len(fl) \in Nat /\ Len(ff) \in Nat BY <1>6
<1>8. Len(all) = Len(rest) + Len(fl) /\ all \in Seq(SecBytes)
      /\ \A i \in 1 .. Len(rest) + Len(fl) :
           all[i] = IF i <= Len(rest) THEN rest[i] ELSE fl[i - Len(rest)]
  <2>1. all = rest \o fl BY <1>2, <1>5
  <2>2. PICK e, a, b : e = all /\ a = rest /\ b = fl OBVIOUS
  <2>3. e = a \o b /\ a \in Seq(SecBytes) /\ b \in Seq(SecBytes) BY <1>4, <1>6, <2>1, <2>2
  <2>4. /\ Len(e) = Len(a) + Len(b) /\ e \in Seq(SecBytes)
        /\ \A i \in 1 .. Len(a) + Len(b) : e[i] = IF i <= Len(a) THEN a[i] ELSE b[i - Len(a)]
    BY ONLY <2>3, ConcatProperties
  <2>. QED BY <2>2, <2>4
<1>9. Len(rest) + Len(ff) < room
  <2>1. Len(rest \o ff) = Len(rest) + Len(ff) BY <1>4, <1>6, ConcatProperties
  <2>. QED BY <1>1, <1>5, <2>1
<1>10. PICK x : x = SubSeq(body, Len(rest) + 1, room) OBVIOUS
<1>11. /\ body \in Seq(SecBytes) /\ Len(body) = room
      /\ \A i \in 1 .. room : body[i] = IF i <= Len(all) THEN all[i] ELSE Stuffing
  BY <1>2, <1>8, PaddedIs
<1>12. /\ x \in Seq(SecBytes) /\ Len(x) = room - Len(rest)
      /\ \A i \in 1 .. room - Len(rest) : x[i] = body[Len(rest) + i]
  <2>1. PICK a : a = Len(rest) + 1 OBVIOUS
  <2>2. a \in 1 .. Len(body) BY <1>4, <1>7, <1>9, <1>11, <2>1
  <2>3. /\ SubSeq(body, a, room) \in Seq(SecBytes) /\ Len(SubSeq(body, a, room)) = (room - a) + 1
        /\ \A i \in 1 .. (room - a) + 1 : SubSeq(body, a, room)[i] = body[(a + i) - 1]
    BY <1>11, <2>2
  <2>4. (room - a) + 1 = room - Len(rest) BY <1>4, <2>1
  <2>5. \A i \in 1 .. room - Len(rest) : (a + i) - 1 = Len(rest) + i BY <1>4, <2>1
  <2>. QED BY <1>10, <2>1, <2>3, <2>4, <2>5
<1>13. LeftOf(x, fl, 0)
  <2>1. ASSUME NEW i \in 1 .. Len(x)
        PROVE  x[i] = IF 0 + i <= Len(fl) THEN fl[0 + i] ELSE Stuffing
    <3>1. /\ i \in 1 .. room - Len(rest) /\ Len(rest) + i \in 1 .. room /\ 0 + i = i
          /\ (Len(rest) + i <= Len(all) <=> i <= Len(fl))
      BY <1>4, <1>7, <1>8, <1>12
    <3>2. x[i] = IF i <= Len(fl) THEN all[Len(rest) + i] ELSE Stuffing BY <1>11, <1>12, <3>1
    <3>3. CASE i <= Len(fl)
      <4>1. /\ Len(rest) + i \in 1 .. Len(rest) + Len(fl) /\ ~(Len(rest) + i <= Len(rest))
            /\ (Len(rest) + i) - Len(rest) = i
        BY <1>4, <1>7, <3>3
      <4>2. all[Len(rest) + i] = fl[i] BY <1>8, <4>1
      <4>. QED BY <3>1, <3>2, <3>3, <4>2
    <3>4. CASE ~(i <= Len(fl)) BY <3>1, <3>2, <3>4
    <3>. QED BY <3>3, <3>4
  <2>. QED BY <2>1 DEF LeftOf
<1>14. /\ k \in 1 .. Len(last) /\ k = Lesser(Len(last), Len(x) - Len(ff)) /\ Len(ff) < Len(x)
       /\ (Len(fl) <= Len(x) <=> Len(all) <= room)
  <2>1. PICK r, f, l, w : r = Len(rest) /\ f = Len(ff) /\ l = Len(last) /\ w = Len(x) OBVIOUS
  <2>2. r \in Nat /\ f \in Nat /\ l \in 3 .. 258 /\ w = room - r /\ r + f < room
    BY <1>4, <1>6, <1>7, <1>9, <1>12, <2>1
  <2>3. Len(fl) = f + l /\ Len(all) = r + (f + l) BY <1>6, <1>8, <2>1
  <2>4. k = IF r + (f + l) <= room THEN l ELSE l - ((r + (f + l)) - room) BY <1>3, <1>5, <2>1, <2>3
  <2>5. /\ k \in 1 .. l /\ k = (IF l < w - f THEN l ELSE w - f) /\ f < w
        /\ (f + l <= w <=> r + (f + l) <= room)
    BY ONLY room \in Nat, <2>2, <2>4
  <2>. QED BY <2>1, <2>3, <2>5 DEF Lesser
<1>15. PICK g \in Seq(Seq(SecBytes)) :
         /\ CheckTail(Channel, rest) = Chan(<<>>, g, 0)
         /\ intact => g = IF rest # <<>> THEN <<section>> ELSE <<>>
  <2>1. PICK d : d = CheckTail(Channel, StillToCome) OBVIOUS
  <2>2. \E g \in Seq(Seq(SecBytes)) :
          /\ d = Chan(<<>>, g, 0)
          /\ intact => g = IF StillToCome # <<>> THEN <<section>> ELSE <<>>
    BY <2>1, Tailed
  <2>. QED BY <1>1, <2>1, <2>2
<1>16. PICK c : c = Chan(<<>>, g, 0) OBVIOUS
<1>17. ch = Parsed(c, x) BY <1>3, <1>10, <1>15, <1>16
<1>18. GoodBuf(ch.buf) /\ ch.out \in Seq(Seq(SecBytes))
  <2>1. c.buf = <<>> /\ c.out = g /\ c.at = 0 BY <1>16 DEF Chan
  <2>2. <<>> \in Seq(SecBytes) OBVIOUS
  <2>3. GoodBuf(<<>>) BY <2>2, Zenon DEF GoodBuf
  <2>4. 0 \in 0 .. Len(x) BY <1>12
  <2>5. Good(c, Len(x)) BY <2>1, <2>3, <2>4 DEF Good
  <2>6. Good(ch, Len(x)) BY <1>12, <1>17, <2>5, ParsedAny
  <2>. QED BY <2>6 DEF Good
<1>19. /\ ch.buf = Held(Last(list), k)
       /\ ch.out = g \o (IF Len(fl) <= Len(x) THEN list ELSE Front(list))
  <2>1. x \in Seq(SecBytes) BY <1>12
  <2>2. k = Lesser(Len(Last(list)), Len(x) - Len(ff)) BY <1>5, <1>14
  <2>3. ch = Parsed(Chan(<<>>, g, 0), x) BY <1>16, <1>17
  <2>4. begun \in Nat /\ list \in Beginnings /\ list # <<>> BY <1>4
  <2>5. fl = FlattenSeq(list) /\ ff = FlattenSeq(Front(list)) BY <1>5
  <2>6. LeftOf(x, fl, 0) /\ Len(ff) < Len(x) BY <1>13, <1>14
  <2>7. g \in Seq(Seq(SecBytes)) OBVIOUS
  <2>. QED BY ONLY <2>1, <2>2, <2>3, <2>4, <2>5, <2>6, <2>7, ParsedList, SMTT(40)
<1>20. /\ k \in 1 .. Len(Last(list))
       /\ \E g1 \in Seq(Seq(SecBytes)) :
            /\ ch.out = g1 \o (IF Len(all) <= room THEN list ELSE Front(list))
            /\ intact => g1 = IF rest # <<>> THEN <<section>> ELSE <<>>
  BY <1>5, <1>14, <1>15, <1>19
<1>. QED BY <1>1, <1>2, <1>3, <1>18, <1>19, <1>20 DEF BeginsWell

-----------------------------------------------------------------------------
LEMMA SecInvInit == SectionAsmInit => SecInv
<1>. SUFFICES ASSUME SectionAsmInit PROVE SecInv OBVIOUS
<1>1. /\ begun = 0 /\ gaps = 0 /\ secBuf = <<>> /\ given = <<>> /\ owed = <<>>
      /\ section \in Sections(0) /\ sent \in 1 .. Len(section)
      /\ intact = FALSE /\ doubt = [before |-> TRUE, after |-> TRUE]
  BY DEF SectionAsmInit
<1>2. PICK len \in SecLengths : section = Section(0, len) BY <1>1 DEF Sections
<1>3. section \in Seq(SecBytes) /\ Len(section) \in Nat
  <2>1. 0 \in Nat OBVIOUS
  <2>2. section \in Seq(SecBytes) BY <1>2, <2>1, SectionIs
  <2>. QED BY <2>2
<1>4. begun \in 0 .. MaxBegun /\ gaps \in 0 .. MaxGaps BY <1>1, SectionAsmAssumption
<1>5. sent \in 0 .. Len(section) /\ sent >= 1 BY <1>1, <1>3
<1>6. <<>> \in Seq(SecBytes) /\ <<>> \in Seq(Seq(SecBytes)) OBVIOUS
<1>7. doubt \in [before : BOOLEAN, after : BOOLEAN] /\ intact \in BOOLEAN
      /\ intact = ~doubt.after /\ doubt.before
  BY <1>1
<1>8. SectionAsmTypeOK BY <1>1, <1>3, <1>4, <1>5, <1>6, <1>7 DEF SectionAsmTypeOK
<1>9. GoodBuf(secBuf) BY <1>1, <1>6, Zenon DEF GoodBuf
<1>10. SectionsWhole
  <2>1. PICK e \in Seq(Seq(SecBytes)) : e = <<>> BY <1>6
  <2>2. e \o e = e BY <2>1, ConcatEmptySeq
  <2>3. IsSuffix(e, e) BY <2>2, SuffixOf
  <2>. QED BY <1>1, <1>7, <2>1, <2>3 DEF SectionsWhole
<1>11. section \in Sections(begun) BY <1>1
<1>. QED BY <1>1, <1>5, <1>7, <1>8, <1>9, <1>10, <1>11 DEF SecInv

LEMMA WholeWhen ==
  ASSUME NEW S, NEW g \in Seq(S), NEW d \in Seq(S)
  PROVE  IsSuffix(<<>>, g) /\ IsSuffix(d, d) /\ IsSuffix(d, g \o d)
<1>1. PICK e \in Seq(S) : e = <<>>
  <2>1. <<>> \in Seq(S) OBVIOUS
  <2>. QED BY <2>1
<1>2. g \o e = g /\ e \o d = d BY <1>1, ConcatEmptySeq
<1>3. IsSuffix(e, g \o e) /\ IsSuffix(d, e \o d) /\ IsSuffix(d, g \o d) BY SuffixOf
<1>. QED BY <1>1, <1>2, <1>3

(* A packet, lost or not, in which no section begins.                      *)
LEMMA SecInvContinues ==
  ASSUME SecInv, NEW n \in Payloads, NEW lost \in BOOLEAN, TsPacket(n, <<>>, lost)
  PROVE  SecInv'
<1>1. PICK len \in SecLengths :
        /\ section = Section(begun, len) /\ Len(section) = len /\ len \in 3 .. 258
        /\ sent \in 1 .. len /\ section \in Seq(SecBytes)
        /\ StillToCome \in Seq(SecBytes) /\ Len(StillToCome) = len - sent
        /\ \A i \in 1 .. len - sent : StillToCome[i] = section[sent + i]
  BY SecState
<1>2. /\ begun \in Nat /\ gaps \in Nat /\ GoodBuf(secBuf) /\ intact \in BOOLEAN
      /\ doubt \in [before : BOOLEAN, after : BOOLEAN]
      /\ intact = ~doubt.after
  BY SecState DEF SecInv
<1>3. n \in Nat /\ n >= 1 BY SectionAsmAssumption
<1>4. PICK rest : rest = StillToCome OBVIOUS
<1>5. rest \in Seq(SecBytes) /\ Len(rest) = len - sent BY <1>1, <1>4
<1>6. FlattenSeq(<<>>) = <<>> BY DEF FlattenSeq
<1>7. rest \o FlattenSeq(<<>>) = rest BY <1>5, <1>6, ConcatEmptySeq
<1>8. PICK ch : ch = Parsed(Channel, Padded(rest, n)) OBVIOUS
<1>9. PICK ends \in BOOLEAN : ends <=> Len(rest) <= n
  <2>1. CASE Len(rest) <= n BY <2>1
  <2>2. CASE ~(Len(rest) <= n) BY <2>2
  <2>. QED BY <2>1, <2>2
<1>10. PICK done : done = IF rest # <<>> /\ intact /\ ends THEN <<section>> ELSE <<>> OBVIOUS
<1>11. done \o <<>> = done /\ done \in Seq(Seq(SecBytes))
  <2>1. done \in Seq(Seq(SecBytes))
    <3>1. <<section>> \in Seq(Seq(SecBytes)) BY <1>1
    <3>2. <<>> \in Seq(Seq(SecBytes)) OBVIOUS
    <3>. QED BY <1>10, <3>1, <3>2
  <2>. QED BY <2>1, ConcatEmptySeq
<1>12. /\ rest # <<>>
       /\ gaps' = (IF lost THEN gaps + 1 ELSE gaps) /\ gaps' <= MaxGaps
       /\ begun' = begun + Len(<<>>) /\ begun + Len(<<>>) <= MaxBegun
       /\ section' = section
       /\ sent' = IF ends THEN Len(section') ELSE Len(section') - (Len(rest) - n)
       /\ secBuf' = IF lost THEN secBuf ELSE ch.buf
       /\ given' = IF lost THEN <<>> ELSE ch.out
       /\ owed' = IF lost THEN <<>> ELSE done \o <<>>
       /\ intact' = (~lost /\ intact)
       /\ doubt' = [before |-> doubt.after, after |-> lost \/ doubt.after]
  BY <1>4, <1>7, <1>8, <1>9, <1>10 DEF TsPacket
<1>13. PICK k : k = Lesser(len, sent + n) OBVIOUS
<1>14. k \in 1 .. len /\ sent' = k /\ (ends <=> k = len)
  <2>1. ends <=> len - sent <= n BY <1>5, <1>9
  <2>2. sent' = IF ends THEN len ELSE len - ((len - sent) - n) BY <1>1, <1>5, <1>12
  <2>. QED BY <1>1, <1>3, <1>13, <2>1, <2>2 DEF Lesser
<1>15. /\ GoodBuf(ch.buf) /\ ch.out \in Seq(Seq(SecBytes))
       /\ intact => /\ ch.buf = Held(section, k)
                    /\ ch.out = IF k = Len(section) THEN <<section>> ELSE <<>>
  BY <1>1, <1>3, <1>4, <1>8, <1>12, <1>13, Continues
<1>16. SectionAsmTypeOK'
  <2>1. begun' = begun /\ begun' \in 0 .. MaxBegun
    <3>1. Len(<<>>) = 0 OBVIOUS
    <3>. QED BY <1>2, <1>12, <3>1, SectionAsmAssumption
  <2>2. gaps' \in 0 .. MaxGaps BY <1>2, <1>12, SectionAsmAssumption
  <2>3. section' \in Seq(SecBytes) /\ sent' \in 0 .. Len(section') BY <1>1, <1>12, <1>14
  <2>4. secBuf' \in Seq(SecBytes)
    <3>1. secBuf \in Seq(SecBytes) /\ ch.buf \in Seq(SecBytes) BY <1>2, <1>15 DEF GoodBuf
    <3>. QED BY <1>12, <3>1
  <2>5. given' \in Seq(Seq(SecBytes)) /\ owed' \in Seq(Seq(SecBytes))
    <3>1. <<>> \in Seq(Seq(SecBytes)) OBVIOUS
    <3>. QED BY <1>11, <1>12, <1>15, <3>1
  <2>6. intact' \in BOOLEAN /\ doubt' \in [before : BOOLEAN, after : BOOLEAN]
    <3>1. doubt.after \in BOOLEAN BY <1>2
    <3>. QED BY <1>12, <3>1
  <2>. QED BY <2>1, <2>2, <2>3, <2>4, <2>5, <2>6 DEF SectionAsmTypeOK
<1>17. (section \in Sections(begun) /\ sent >= 1)'
  <2>1. begun' = begun
    <3>1. Len(<<>>) = 0 OBVIOUS
    <3>. QED BY <1>2, <1>12, <3>1
  <2>. QED BY <1>1, <1>12, <1>14, <2>1 DEF Sections
<1>18. GoodBuf(secBuf)' BY <1>2, <1>12, <1>15
<1>19. (intact = ~doubt.after)' BY <1>2, <1>12
<1>20. (intact => sent >= 3 /\ secBuf = Held(section, sent))'
  <2>1. SUFFICES ASSUME intact' PROVE sent' >= 3 /\ secBuf' = Held(section', sent') OBVIOUS
  <2>2. ~lost /\ intact BY <1>12, <2>1
  <2>3. sent >= 3 BY <2>2 DEF SecInv
  <2>4. k >= 3 BY <1>1, <1>3, <1>13, <2>3 DEF Lesser
  <2>. QED BY <1>12, <1>14, <1>15, <2>2, <2>4
<1>21. SectionsWhole'
  <2>1. CASE lost
    <3>1. given' = <<>> /\ owed' = <<>> BY <1>12, <2>1
    <3>2. PICK e \in Seq(Seq(SecBytes)) : e = <<>>
      <4>1. <<>> \in Seq(Seq(SecBytes)) OBVIOUS
      <4>. QED BY <4>1
    <3>3. IsSuffix(e, e) BY WholeWhen
    <3>. QED BY <3>1, <3>2, <3>3 DEF SectionsWhole
  <2>2. CASE ~lost /\ intact
    <3>1. given' = owed' BY <1>1, <1>10, <1>11, <1>12, <1>14, <1>15, <2>2
    <3>2. PICK e \in Seq(Seq(SecBytes)) : e = owed' BY <1>11, <1>12, <2>2
    <3>3. IsSuffix(e, e) BY WholeWhen
    <3>. QED BY <3>1, <3>2, <3>3 DEF SectionsWhole
  <2>3. CASE ~lost /\ ~intact
    <3>1. owed' = <<>> /\ given' = ch.out BY <1>10, <1>11, <1>12, <2>3
    <3>2. doubt'.before BY <1>2, <1>12, <2>3
    <3>3. PICK g \in Seq(Seq(SecBytes)) : g = ch.out BY <1>15
    <3>4. IsSuffix(<<>>, g) BY WholeWhen
    <3>. QED BY <3>1, <3>2, <3>3, <3>4 DEF SectionsWhole
  <2>. QED BY <2>1, <2>2, <2>3
<1>. QED BY <1>16, <1>17, <1>18, <1>19, <1>20, <1>21 DEF SecInv

(* A packet, lost or not, in which sections begin.                         *)
LEMMA SecInvBegins ==
  ASSUME SecInv, NEW n \in Payloads, NEW list \in Beginnings, list # <<>>, NEW lost \in BOOLEAN,
         TsPacket(n, list, lost)
  PROVE  SecInv'
<1>1. /\ begun \in Nat /\ gaps \in Nat /\ GoodBuf(secBuf) /\ intact \in BOOLEAN
      /\ doubt \in [before : BOOLEAN, after : BOOLEAN]
      /\ intact = ~doubt.after /\ section \in Seq(SecBytes)
  BY SecState DEF SecInv
<1>2. PICK room \in Nat : room = n - 1
  <2>1. n - 1 \in Nat BY SectionAsmAssumption
  <2>. QED BY <2>1
<1>3. PICK rest, last, front : rest = StillToCome /\ last = Last(list) /\ front = Front(list)
  OBVIOUS
<1>4. PICK all : all = rest \o FlattenSeq(list) OBVIOUS
<1>5. PICK body : body = Padded(all, room) OBVIOUS
<1>6. PICK ch : ch = Parsed(CheckTail(Channel, rest), SubSeq(body, Len(rest) + 1, room)) OBVIOUS
<1>7. PICK ends \in BOOLEAN : ends <=> Len(all) <= room
  <2>1. CASE Len(all) <= room BY <2>1
  <2>2. CASE ~(Len(all) <= room) BY <2>2
  <2>. QED BY <2>1, <2>2
<1>8. PICK tail : tail = IF rest # <<>> /\ intact THEN <<section>> ELSE <<>> OBVIOUS
<1>9. PICK new : new = IF ends THEN list ELSE front OBVIOUS
<1>10. tail \in Seq(Seq(SecBytes)) /\ new \in Seq(Seq(SecBytes))
  <2>1. <<section>> \in Seq(Seq(SecBytes)) BY <1>1
  <2>2. <<>> \in Seq(Seq(SecBytes)) OBVIOUS
  <2>3. list \in Seq(Seq(SecBytes)) /\ front \in Seq(Seq(SecBytes)) BY <1>1, <1>3, BeginningsParts
  <2>. QED BY <1>8, <1>9, <2>1, <2>2, <2>3
<1>11. /\ Len(rest \o FlattenSeq(front)) < room
       /\ gaps' = (IF lost THEN gaps + 1 ELSE gaps) /\ gaps' <= MaxGaps
       /\ begun' = begun + Len(list) /\ begun + Len(list) <= MaxBegun
       /\ section' = last
       /\ sent' = IF ends THEN Len(section') ELSE Len(section') - (Len(all) - room)
       /\ secBuf' = IF lost THEN secBuf ELSE ch.buf
       /\ given' = IF lost THEN <<>> ELSE ch.out
       /\ owed' = IF lost THEN <<>> ELSE tail \o new
       /\ intact' = (~lost /\ sent' >= 3)
       /\ doubt' = [before |-> doubt.after, after |-> lost \/ sent' < 3]
  BY <1>2, <1>3, <1>4, <1>5, <1>6, <1>7, <1>8, <1>9 DEF TsPacket
<1>12. PICK k : k = IF Len(all) <= room THEN Len(last) ELSE Len(last) - (Len(all) - room) OBVIOUS
<1>13. sent' = k BY <1>7, <1>11, <1>12
<1>14. /\ k \in 1 .. Len(last)
       /\ GoodBuf(ch.buf) /\ ch.out \in Seq(Seq(SecBytes))
       /\ ch.buf = Held(last, k)
       /\ \E g \in Seq(Seq(SecBytes)) :
            /\ ch.out = g \o (IF Len(all) <= room THEN list ELSE front)
            /\ intact => g = IF rest # <<>> THEN <<section>> ELSE <<>>
  <2>1. Len(StillToCome \o FlattenSeq(Front(list))) < room BY <1>3, <1>11
  <2>2. BeginsWell(list, room) BY <2>1, Begins
  <2>. QED BY <1>3, <1>4, <1>5, <1>6, <1>12, <2>2 DEF BeginsWell
<1>15. PICK g \in Seq(Seq(SecBytes)) : ch.out = g \o new /\ (intact => g = tail)
  BY <1>7, <1>8, <1>9, <1>14
<1>16. last \in Seq(SecBytes) /\ Len(last) \in 3 .. 258 /\ Len(list) \in {1, 2}
       /\ \E len \in SecLengths : last = Section(begun + Len(list), len)
  BY <1>1, <1>3, BeginningsParts
<1>17. SectionAsmTypeOK'
  <2>1. begun' \in 0 .. MaxBegun BY <1>1, <1>11, <1>16, SectionAsmAssumption
  <2>2. gaps' \in 0 .. MaxGaps BY <1>1, <1>11, SectionAsmAssumption
  <2>3. section' \in Seq(SecBytes) /\ sent' \in 0 .. Len(section') BY <1>11, <1>13, <1>14, <1>16
  <2>4. secBuf' \in Seq(SecBytes)
    <3>1. secBuf \in Seq(SecBytes) /\ ch.buf \in Seq(SecBytes) BY <1>1, <1>14 DEF GoodBuf
    <3>. QED BY <1>11, <3>1
  <2>5. given' \in Seq(Seq(SecBytes)) /\ owed' \in Seq(Seq(SecBytes))
    <3>1. <<>> \in Seq(Seq(SecBytes)) OBVIOUS
    <3>2. tail \o new \in Seq(Seq(SecBytes)) BY <1>10, ConcatProperties
    <3>. QED BY <1>11, <1>14, <3>1, <3>2
  <2>6. intact' \in BOOLEAN /\ doubt' \in [before : BOOLEAN, after : BOOLEAN]
    <3>1. doubt.after \in BOOLEAN BY <1>1
    <3>2. (lost \/ sent' < 3) \in BOOLEAN /\ (~lost /\ sent' >= 3) \in BOOLEAN OBVIOUS
    <3>. QED BY <1>11, <3>1, <3>2
  <2>. QED BY <2>1, <2>2, <2>3, <2>4, <2>5, <2>6 DEF SectionAsmTypeOK
<1>18. (section \in Sections(begun) /\ sent >= 1)'
  BY <1>11, <1>13, <1>14, <1>16 DEF Sections
<1>19. GoodBuf(secBuf)' BY <1>1, <1>11, <1>14
<1>20. (intact = ~doubt.after)'
  <2>1. sent' >= 3 <=> ~(sent' < 3) BY <1>13, <1>14, <1>16
  <2>2. doubt'.after = (lost \/ sent' < 3) BY <1>11
  <2>. QED BY <1>11, <2>1, <2>2
<1>21. (intact => sent >= 3 /\ secBuf = Held(section, sent))'
  BY <1>11, <1>13, <1>14
<1>22. SectionsWhole'
  <2>1. CASE lost
    <3>1. given' = <<>> /\ owed' = <<>> BY <1>11, <2>1
    <3>2. PICK e \in Seq(Seq(SecBytes)) : e = <<>>
      <4>1. <<>> \in Seq(Seq(SecBytes)) OBVIOUS
      <4>. QED BY <4>1
    <3>3. IsSuffix(e, e) BY WholeWhen
    <3>. QED BY <3>1, <3>2, <3>3 DEF SectionsWhole
  <2>2. CASE ~lost /\ intact
    <3>1. given' = owed' BY <1>11, <1>15, <2>2
    <3>2. PICK e \in Seq(Seq(SecBytes)) : e = owed'
      <4>1. owed' \in Seq(Seq(SecBytes)) BY <1>10, <1>11, <2>2, ConcatProperties
      <4>. QED BY <4>1
    <3>3. IsSuffix(e, e) BY WholeWhen
    <3>. QED BY <3>1, <3>2, <3>3 DEF SectionsWhole
  <2>3. CASE ~lost /\ ~intact
    <3>1. tail = <<>> BY <1>8, <2>3
    <3>2. tail \o new = new BY <1>10, <3>1, ConcatEmptySeq
    <3>3. owed' = new /\ given' = g \o new BY <1>11, <1>15, <2>3, <3>2
    <3>4. doubt'.before BY <1>1, <1>11, <2>3
    <3>5. IsSuffix(new, g \o new) BY <1>10, WholeWhen
    <3>. QED BY <3>3, <3>4, <3>5 DEF SectionsWhole
  <2>. QED BY <2>1, <2>2, <2>3
<1>. QED BY <1>17, <1>18, <1>19, <1>20, <1>21, <1>22 DEF SecInv

(* The channel is used for another stream.                                 *)
LEMMA SecInvReused ==
  ASSUME SecInv, ChannelReused
  PROVE  SecInv'
<1>1. /\ begun \in Nat /\ gaps \in Nat /\ GoodBuf(secBuf)
  BY SecState
<1>2. /\ begun < MaxBegun /\ begun' = begun + 1 /\ gaps < MaxGaps /\ gaps' = gaps + 1
      /\ section' \in Sections(begun') /\ sent' \in 1 .. Len(section')
      /\ given' = <<>> /\ owed' = <<>> /\ intact' = FALSE
      /\ doubt' = [before |-> TRUE, after |-> TRUE] /\ secBuf' = secBuf
  BY DEF ChannelReused
<1>3. PICK len \in SecLengths : section' = Section(begun + 1, len) BY <1>2 DEF Sections
<1>4. PICK s : s = Section(begun + 1, len) OBVIOUS
<1>5. s \in Seq(SecBytes) /\ Len(s) \in Nat
  <2>1. begun + 1 \in Nat BY <1>1
  <2>2. s \in Seq(SecBytes) BY <1>4, <2>1, SectionIs
  <2>. QED BY <2>2
<1>6. section' \in Seq(SecBytes) /\ sent' \in 0 .. Len(section') /\ sent' >= 1
  BY <1>2, <1>3, <1>4, <1>5
<1>7. begun' \in 0 .. MaxBegun /\ gaps' \in 0 .. MaxGaps BY <1>1, <1>2, SectionAsmAssumption
<1>8. <<>> \in Seq(Seq(SecBytes)) OBVIOUS
<1>9. secBuf' \in Seq(SecBytes) BY <1>1, <1>2 DEF GoodBuf
<1>10. SectionAsmTypeOK' BY <1>2, <1>6, <1>7, <1>8, <1>9 DEF SectionAsmTypeOK
<1>11. SectionsWhole'
  <2>1. PICK e \in Seq(Seq(SecBytes)) : e = <<>> BY <1>8
  <2>2. IsSuffix(e, e) BY WholeWhen
  <2>. QED BY <1>2, <2>1, <2>2 DEF SectionsWhole
<1>12. GoodBuf(secBuf)' BY <1>1, <1>2
<1>. QED BY <1>2, <1>6, <1>10, <1>11, <1>12 DEF SecInv

(***************************************************************************)
(* What parse_sec and check_sec give to a filter: every section all of     *)
(* whose packets have arrived, once, whole and in the packet it ends in,   *)
(* whatever was lost before; and nothing else, once a packet in which a    *)
(* section begins has come after the loss.  For any lengths of sections    *)
(* and payloads and any losses.                                            *)
(***************************************************************************)
THEOREM SectionsAreWhole == SectionAsmSpec => [](SectionAsmTypeOK /\ SectionsWhole)
<1>1. SectionAsmInit => SecInv BY SecInvInit
<1>2. SecInv /\ [SectionAsmNext]_secVars => SecInv'
  <2>. SUFFICES ASSUME SecInv, [SectionAsmNext]_secVars PROVE SecInv' OBVIOUS
  <2>1. CASE \E n \in Payloads, list \in Beginnings, lost \in BOOLEAN : TsPacket(n, list, lost)
    <3>1. PICK n \in Payloads, list \in Beginnings, lost \in BOOLEAN : TsPacket(n, list, lost)
      BY <2>1
    <3>2. CASE list = <<>>
      <4>1. TsPacket(n, <<>>, lost) BY <3>1, <3>2
      <4>. QED BY <4>1, SecInvContinues
    <3>3. CASE list # <<>> BY <3>1, <3>3, SecInvBegins
    <3>. QED BY <3>2, <3>3
  <2>2. CASE ChannelReused BY <2>2, SecInvReused
  <2>3. CASE UNCHANGED secVars
    BY <2>3 DEF secVars, SecInv, SectionAsmTypeOK, SectionsWhole, GoodBuf, Held
  <2>. QED BY <2>1, <2>2, <2>3 DEF SectionAsmNext
<1>3. SecInv => SectionAsmTypeOK /\ SectionsWhole BY DEF SecInv
<1>. QED BY <1>1, <1>2, <1>3, PTL DEF SectionAsmSpec

-----------------------------------------------------------------------------
(* FlattenSeq, a recursive function of the library: its values for the     *)
(* prefixes of a sequence.                                                 *)
IsFlat(f, us, n) == f = [i \in 1 .. n |-> IF i = 1 THEN us[i] ELSE f[i - 1] \o us[i]]

LEMMA FlatExists ==
  ASSUME NEW us, NEW n \in Nat
  PROVE  \E f : IsFlat(f, us, n)
<1>1. PICK S \in SUBSET Nat : S = {k \in Nat : ~\E f : IsFlat(f, us, k)} OBVIOUS
<1>2. SUFFICES ASSUME S # {} PROVE FALSE BY <1>1
<1>3. PICK k \in S : \A m \in S : ~(m < k) BY <1>2, LeastNat
<1>4. k # 0
  <2>1. PICK f : f = [i \in 1 .. 0 |-> us] OBVIOUS
  <2>2. f = [i \in 1 .. 0 |-> IF i = 1 THEN us[i] ELSE f[i - 1] \o us[i]] BY <2>1
  <2>. QED BY <1>1, <2>2 DEF IsFlat
<1>5. PICK j \in Nat : k = j + 1
  <2>1. k - 1 \in Nat /\ k = (k - 1) + 1 BY <1>4
  <2>. QED BY <2>1
<1>6. j \notin S BY <1>3, <1>5
<1>7. PICK f : IsFlat(f, us, j) BY <1>1, <1>6
<1>8. f = [i \in 1 .. j |-> IF i = 1 THEN us[i] ELSE f[i - 1] \o us[i]] BY <1>7 DEF IsFlat
<1>9. PICK x : x = IF k = 1 THEN us[k] ELSE f[j] \o us[k] OBVIOUS
<1>10. PICK g : g = [i \in 1 .. k |-> IF i = k THEN x ELSE f[i]] OBVIOUS
<1>11. ASSUME NEW i \in 1 .. k PROVE g[i] = IF i = 1 THEN us[i] ELSE g[i - 1] \o us[i]
  <2>1. CASE i = k
    <3>1. g[i] = x BY <1>10, <2>1
    <3>2. CASE k = 1 BY <1>9, <2>1, <3>1, <3>2
    <3>3. CASE k # 1
      <4>1. j \in 1 .. k /\ j # k /\ i - 1 = j BY <1>5, <2>1, <3>3
      <4>2. g[j] = f[j] BY <1>10, <4>1
      <4>. QED BY <1>9, <2>1, <3>1, <3>3, <4>1, <4>2
    <3>. QED BY <3>2, <3>3
  <2>2. CASE i # k
    <3>1. i \in 1 .. j BY <1>5, <2>2
    <3>2. g[i] = f[i] BY <1>10, <2>2
    <3>3. f[i] = IF i = 1 THEN us[i] ELSE f[i - 1] \o us[i] BY <1>8, <3>1
    <3>4. CASE i = 1 BY <3>2, <3>3, <3>4
    <3>5. CASE i # 1
      <4>1. i - 1 \in 1 .. k /\ i - 1 # k BY <1>5, <2>2, <3>5
      <4>2. g[i - 1] = f[i - 1] BY <1>10, <4>1
      <4>. QED BY <3>2, <3>3, <3>5, <4>2
    <3>. QED BY <3>4, <3>5
  <2>. QED BY <2>1, <2>2
<1>12. g = [i \in 1 .. k |-> IF i = 1 THEN us[i] ELSE g[i - 1] \o us[i]] BY <1>10, <1>11
<1>. QED BY <1>1, <1>12 DEF IsFlat

LEMMA FlatAt ==
  ASSUME NEW f, NEW us, NEW n \in Nat, IsFlat(f, us, n), NEW i \in 1 .. n
  PROVE  f[i] = IF i = 1 THEN us[i] ELSE f[i - 1] \o us[i]
<1>1. f = [j \in 1 .. n |-> IF j = 1 THEN us[j] ELSE f[j - 1] \o us[j]] BY DEF IsFlat
<1>. QED BY <1>1

(* They are the same for all sequences that begin alike.                   *)
Alike(us, vs, l) == \A i \in 1 .. l : us[i] = vs[i]

LEMMA FlatUnique ==
  ASSUME NEW f, NEW us, NEW n \in Nat, IsFlat(f, us, n),
         NEW g, NEW vs, NEW m \in Nat, IsFlat(g, vs, m),
         NEW l \in Nat, l <= n, l <= m, Alike(us, vs, l)
  PROVE  Alike(f, g, l)
<1>0. {i \in 1 .. l : f[i] # g[i]} \subseteq Nat OBVIOUS
<1>1. PICK S \in SUBSET Nat : S = {i \in 1 .. l : f[i] # g[i]} BY <1>0
<1>2. SUFFICES ASSUME S # {} PROVE FALSE BY <1>1 DEF Alike
<1>3. PICK i \in S : \A j \in S : ~(j < i) BY <1>2, LeastNat
<1>4. i \in 1 .. l /\ f[i] # g[i] /\ us[i] = vs[i] BY <1>1, <1>3 DEF Alike
<1>5. i \in 1 .. n /\ i \in 1 .. m BY <1>4
<1>6. f[i] = IF i = 1 THEN us[i] ELSE f[i - 1] \o us[i] BY <1>5, FlatAt
<1>7. g[i] = IF i = 1 THEN vs[i] ELSE g[i - 1] \o vs[i] BY <1>5, FlatAt
<1>8. CASE i = 1 BY <1>4, <1>6, <1>7, <1>8
<1>9. CASE i # 1
  <2>1. i - 1 \in 1 .. l /\ i - 1 < i BY <1>4, <1>9
  <2>2. f[i - 1] = g[i - 1] BY <1>1, <1>3, <2>1
  <2>. QED BY <1>4, <1>6, <1>7, <1>9, <2>2
<1>. QED BY <1>8, <1>9

LEMMA FlattenIs ==
  ASSUME NEW us, NEW n \in Nat, n = Len(us), n # 0
  PROVE  \E f : IsFlat(f, us, n) /\ FlattenSeq(us) = f[n]
<1>1. PICK f : f = CHOOSE g : g = [i \in 1 .. Len(us) |-> IF i = 1 THEN us[i] ELSE g[i - 1] \o us[i]]
  OBVIOUS
<1>2. \E g : g = [i \in 1 .. Len(us) |-> IF i = 1 THEN us[i] ELSE g[i - 1] \o us[i]]
  <2>1. PICK g : IsFlat(g, us, Len(us)) BY FlatExists
  <2>. QED BY <2>1 DEF IsFlat
<1>3. f = [i \in 1 .. Len(us) |-> IF i = 1 THEN us[i] ELSE f[i - 1] \o us[i]] BY <1>1, <1>2
<1>4. FlattenSeq(us) = f[Len(us)] BY <1>1 DEF FlattenSeq
<1>. QED BY <1>3, <1>4 DEF IsFlat

(* The bytes of the first k units, for each k.                             *)
IsLayout(F, us, S) ==
  /\ F \in [0 .. Len(us) -> Seq(S)] /\ F[0] = <<>>
  /\ \A k \in 1 .. Len(us) : F[k] = F[k - 1] \o us[k]
  /\ \A k \in 0 .. Len(us) : FlattenSeq(SubSeq(us, 1, k)) = F[k]

LEMMA LayoutExists ==
  ASSUME NEW S, NEW us \in Seq(Seq(S))
  PROVE  \E F : IsLayout(F, us, S)
<1>1. PICK n \in Nat : n = Len(us) OBVIOUS
<1>2. PICK f : IsFlat(f, us, n) BY FlatExists
<1>3. PICK F : F = [k \in 0 .. n |-> IF k = 0 THEN <<>> ELSE f[k]] OBVIOUS
<1>4. PICK B \in SUBSET Nat : B = {k \in 1 .. n : f[k] \notin Seq(S)}
  <2>1. {k \in 1 .. n : f[k] \notin Seq(S)} \subseteq Nat OBVIOUS
  <2>. QED BY <2>1
<1>5. B = {}
  <2>. SUFFICES ASSUME B # {} PROVE FALSE OBVIOUS
  <2>1. PICK k \in B : \A j \in B : ~(j < k) BY LeastNat
  <2>2. k \in 1 .. n /\ f[k] \notin Seq(S) BY <1>4, <2>1
  <2>3. f[k] = IF k = 1 THEN us[k] ELSE f[k - 1] \o us[k] BY <1>2, <2>2, FlatAt
  <2>4. us[k] \in Seq(S) BY <1>1, <2>2, ElementOfSeq
  <2>5. CASE k = 1 BY <2>2, <2>3, <2>4, <2>5
  <2>6. CASE k # 1
    <3>1. k - 1 \in 1 .. n /\ k - 1 < k BY <2>2, <2>6
    <3>2. f[k - 1] \in Seq(S) BY <1>4, <2>1, <3>1
    <3>3. f[k - 1] \o us[k] \in Seq(S) BY <2>4, <3>2, ConcatProperties
    <3>. QED BY <2>2, <2>3, <2>6, <3>3
  <2>. QED BY <2>5, <2>6
<1>6. \A k \in 1 .. n : f[k] \in Seq(S) BY <1>4, <1>5
<1>7. F \in [0 .. n -> Seq(S)] /\ F[0] = <<>>
  <2>1. <<>> \in Seq(S) /\ 0 \in 0 .. n BY <1>1
  <2>2. ASSUME NEW k \in 0 .. n PROVE (IF k = 0 THEN <<>> ELSE f[k]) \in Seq(S)
    <3>1. CASE k = 0 BY <2>1, <3>1
    <3>2. CASE k # 0
      <4>1. k \in 1 .. n BY <3>2
      <4>. QED BY <1>6, <3>2, <4>1
    <3>. QED BY <3>1, <3>2
  <2>. QED BY <1>3, <2>1, <2>2
<1>8. ASSUME NEW k \in 1 .. n PROVE F[k] = F[k - 1] \o us[k]
  <2>1. k \in 0 .. n /\ k # 0 /\ k - 1 \in 0 .. n OBVIOUS
  <2>2. F[k] = f[k] /\ F[k - 1] = IF k - 1 = 0 THEN <<>> ELSE f[k - 1] BY <1>3, <2>1
  <2>3. f[k] = IF k = 1 THEN us[k] ELSE f[k - 1] \o us[k] BY <1>2, FlatAt
  <2>4. CASE k = 1
    <3>1. us[k] \in Seq(S) BY <1>1, ElementOfSeq
    <3>2. <<>> \o us[k] = us[k] BY <3>1, ConcatEmptySeq
    <3>3. k - 1 = 0 BY <2>4
    <3>. QED BY <2>2, <2>3, <2>4, <3>2, <3>3
  <2>5. CASE k # 1
    <3>1. k - 1 # 0 BY <2>5
    <3>. QED BY <2>2, <2>3, <2>5, <3>1
  <2>. QED BY <2>4, <2>5
<1>9. ASSUME NEW k \in 0 .. n PROVE FlattenSeq(SubSeq(us, 1, k)) = F[k]
  <2>1. PICK vs : vs = SubSeq(us, 1, k) OBVIOUS
  <2>2. Len(vs) = k /\ \A i \in 1 .. k : vs[i] = us[i] BY <1>1, <2>1
  <2>3. F[k] = IF k = 0 THEN <<>> ELSE f[k] BY <1>3
  <2>4. CASE k = 0
    <3>1. vs = <<>> BY <1>1, <2>1, <2>4
    <3>2. FlattenSeq(vs) = vs BY <2>2, <2>4 DEF FlattenSeq
    <3>. QED BY <2>1, <2>3, <2>4, <3>1, <3>2
  <2>5. CASE k # 0
    <3>1. k \in Nat /\ k <= n /\ k <= k /\ k \in 1 .. k BY <2>5
    <3>2. PICK g : IsFlat(g, vs, k) /\ FlattenSeq(vs) = g[k] BY <2>2, <2>5, <3>1, FlattenIs
    <3>3. Alike(vs, us, k) BY <2>2 DEF Alike
    <3>4. Alike(g, f, k) BY <1>2, <3>1, <3>2, <3>3, FlatUnique
    <3>5. g[k] = f[k] BY <3>1, <3>4 DEF Alike
    <3>. QED BY <2>1, <2>3, <2>5, <3>2, <3>5
  <2>. QED BY <2>4, <2>5
<1>. QED BY <1>1, <1>7, <1>8, <1>9 DEF IsLayout

LEMMA LayoutGives ==
  ASSUME NEW S, NEW us \in Seq(Seq(S)), NEW F, IsLayout(F, us, S)
  PROVE  /\ FlattenSeq(us) = F[Len(us)]
         /\ \A k \in 0 .. Len(us) : F[k] \in Seq(S)
         /\ \A k \in 1 .. Len(us) + 1 : UnitAt(us, k) = Len(F[k - 1])
<1>1. PICK n \in Nat : n = Len(us) OBVIOUS
<1>2. \A k \in 0 .. n : FlattenSeq(SubSeq(us, 1, k)) = F[k] BY <1>1 DEF IsLayout
<1>3. SubSeq(us, 1, n) = us BY <1>1, SubSeqFull
<1>4. FlattenSeq(us) = F[n]
  <2>1. n \in 0 .. n OBVIOUS
  <2>. QED BY <1>2, <1>3, <2>1
<1>5. ASSUME NEW k \in 1 .. n + 1 PROVE UnitAt(us, k) = Len(F[k - 1])
  <2>1. k - 1 \in 0 .. n OBVIOUS
  <2>. QED BY <1>2, <2>1 DEF UnitAt
<1>6. \A k \in 0 .. n : F[k] \in Seq(S) BY <1>1 DEF IsLayout
<1>. QED BY <1>1, <1>4, <1>5, <1>6

(* The units stand one after the other.                                    *)
LEMMA UnitsAdjoin ==
  ASSUME NEW S, NEW us \in Seq(Seq(S))
  PROVE  /\ FlattenSeq(us) \in Seq(S)
         /\ \A k \in 1 .. Len(us) + 1 : UnitAt(us, k) \in Nat
         /\ UnitAt(us, 1) = 0 /\ UnitAt(us, Len(us) + 1) = Len(FlattenSeq(us))
         /\ \A k \in 1 .. Len(us) : UnitAt(us, k + 1) = UnitAt(us, k) + Len(us[k])
<1>1. PICK n \in Nat : n = Len(us) OBVIOUS
<1>2. PICK F : IsLayout(F, us, S) BY LayoutExists
<1>3. /\ FlattenSeq(us) = F[n]
      /\ \A k \in 0 .. n : F[k] \in Seq(S)
      /\ \A k \in 1 .. n + 1 : UnitAt(us, k) = Len(F[k - 1])
  BY <1>1, <1>2, LayoutGives
<1>4. F[0] = <<>> /\ \A k \in 1 .. n : F[k] = F[k - 1] \o us[k] BY <1>1, <1>2 DEF IsLayout
<1>5. n \in 0 .. n /\ 0 \in 0 .. n /\ 1 \in 1 .. n + 1 /\ n + 1 \in 1 .. n + 1 BY <1>1
<1>6. FlattenSeq(us) \in Seq(S) BY <1>3, <1>5
<1>7. ASSUME NEW k \in 1 .. n + 1 PROVE UnitAt(us, k) \in Nat
  <2>1. k - 1 \in 0 .. n OBVIOUS
  <2>2. F[k - 1] \in Seq(S) BY <1>3, <2>1
  <2>. QED BY <1>3, <2>2
<1>8. UnitAt(us, 1) = 0
  <2>1. UnitAt(us, 1) = Len(F[1 - 1]) BY <1>3, <1>5
  <2>2. 1 - 1 = 0 OBVIOUS
  <2>. QED BY <1>4, <2>1, <2>2
<1>9. UnitAt(us, n + 1) = Len(FlattenSeq(us))
  <2>1. UnitAt(us, n + 1) = Len(F[(n + 1) - 1]) BY <1>3, <1>5
  <2>2. (n + 1) - 1 = n BY <1>1
  <2>. QED BY <1>3, <2>1, <2>2
<1>10. ASSUME NEW k \in 1 .. n PROVE UnitAt(us, k + 1) = UnitAt(us, k) + Len(us[k])
  <2>1. k - 1 \in 0 .. n /\ (k + 1) - 1 = k /\ k \in 1 .. n + 1 /\ k + 1 \in 1 .. n + 1 OBVIOUS
  <2>2. F[k - 1] \in Seq(S) BY <1>3, <2>1
  <2>3. us[k] \in Seq(S) BY <1>1, ElementOfSeq
  <2>4. F[k] = F[k - 1] \o us[k] BY <1>4
  <2>5. Len(F[k]) = Len(F[k - 1]) + Len(us[k]) BY <2>2, <2>3, <2>4, ConcatProperties
  <2>6. UnitAt(us, k) = Len(F[k - 1]) BY <1>3, <2>1
  <2>7. UnitAt(us, k + 1) = Len(F[(k + 1) - 1]) BY <1>3, <2>1
  <2>. QED BY <2>1, <2>5, <2>6, <2>7
<1>. QED BY <1>1, <1>6, <1>7, <1>8, <1>9, <1>10

LEMMA UnitsInOrder ==
  ASSUME NEW S, NEW us \in Seq(Seq(S)), NEW j \in 1 .. Len(us) + 1
  PROVE  \A k \in 1 .. Len(us) + 1 : j <= k => UnitAt(us, j) <= UnitAt(us, k)
<1>1. PICK n \in Nat : n = Len(us) OBVIOUS
<1>2. PICK B \in SUBSET Nat : B = {k \in 1 .. n + 1 : j <= k /\ ~(UnitAt(us, j) <= UnitAt(us, k))}
  <2>1. {k \in 1 .. n + 1 : j <= k /\ ~(UnitAt(us, j) <= UnitAt(us, k))} \subseteq Nat OBVIOUS
  <2>. QED BY <2>1
<1>3. SUFFICES ASSUME B # {} PROVE FALSE BY <1>1, <1>2
<1>4. PICK k \in B : \A i \in B : ~(i < k) BY <1>3, LeastNat
<1>5. k \in 1 .. n + 1 /\ j <= k /\ ~(UnitAt(us, j) <= UnitAt(us, k)) BY <1>2, <1>4
<1>6. j \in 1 .. n + 1 BY <1>1
<1>7. UnitAt(us, j) \in Nat /\ UnitAt(us, k) \in Nat BY <1>1, <1>5, <1>6, UnitsAdjoin
<1>8. j < k
  <2>1. CASE j = k BY <1>5, <1>7, <2>1
  <2>2. CASE j # k BY <1>5, <1>6, <2>2
  <2>. QED BY <2>1, <2>2
<1>9. PICK i \in Nat : i = k - 1
  <2>1. k - 1 \in Nat BY <1>5
  <2>. QED BY <2>1
<1>10. i \in 1 .. n /\ i \in 1 .. n + 1 /\ j <= i /\ i < k /\ i + 1 = k BY <1>5, <1>6, <1>8, <1>9
<1>11. UnitAt(us, j) <= UnitAt(us, i) BY <1>2, <1>4, <1>10
<1>12. UnitAt(us, i + 1) = UnitAt(us, i) + Len(us[i]) /\ UnitAt(us, i) \in Nat
  BY <1>1, <1>10, UnitsAdjoin
<1>13. Len(us[i]) \in Nat
  <2>1. us[i] \in Seq(S) BY <1>1, <1>10, ElementOfSeq
  <2>. QED BY <2>1
<1>. QED BY <1>5, <1>7, <1>10, <1>11, <1>12, <1>13

(* The bytes of a unit are those of the stream from where it begins.       *)
LEMMA UnitBytes ==
  ASSUME NEW S, NEW us \in Seq(Seq(S)), NEW k \in 1 .. Len(us), NEW i \in 1 .. Len(us[k])
  PROVE  /\ UnitAt(us, k) + i \in 1 .. Len(FlattenSeq(us))
         /\ FlattenSeq(us)[UnitAt(us, k) + i] = us[k][i]
<1>1. PICK n \in Nat : n = Len(us) OBVIOUS
<1>2. PICK F : IsLayout(F, us, S) BY LayoutExists
<1>3. /\ FlattenSeq(us) = F[n]
      /\ \A m \in 0 .. n : F[m] \in Seq(S)
      /\ \A m \in 1 .. n + 1 : UnitAt(us, m) = Len(F[m - 1])
  BY <1>1, <1>2, LayoutGives
<1>4. \A m \in 1 .. n : F[m] = F[m - 1] \o us[m] BY <1>1, <1>2 DEF IsLayout
<1>5. k \in 1 .. n BY <1>1
<1>6. \A m \in 1 .. n : us[m] \in Seq(S) BY <1>1, ElementOfSeq
<1>7. PICK a \in Nat : a = UnitAt(us, k)
  <2>1. k \in 1 .. n + 1 BY <1>5
  <2>2. UnitAt(us, k) \in Nat BY <1>1, <2>1, UnitsAdjoin
  <2>. QED BY <2>2
<1>8. a = Len(F[k - 1])
  <2>1. k \in 1 .. n + 1 BY <1>5
  <2>. QED BY <1>3, <1>7, <2>1
<1>9. i \in Nat /\ i >= 1 /\ Len(us[k]) \in Nat /\ i <= Len(us[k])
  <2>1. us[k] \in Seq(S) BY <1>5, <1>6
  <2>. QED BY <2>1
<1>10. ASSUME NEW m \in 1 .. n
       PROVE  /\ F[m] \in Seq(S) /\ F[m - 1] \in Seq(S) /\ Len(F[m]) = Len(F[m - 1]) + Len(us[m])
              /\ \A x \in 1 .. Len(F[m - 1]) + Len(us[m]) :
                   F[m][x] = IF x <= Len(F[m - 1]) THEN F[m - 1][x] ELSE us[m][x - Len(F[m - 1])]
  <2>1. m \in 0 .. n /\ m - 1 \in 0 .. n OBVIOUS
  <2>2. F[m] \in Seq(S) /\ F[m - 1] \in Seq(S) /\ us[m] \in Seq(S) BY <1>3, <1>6, <2>1
  <2>3. F[m] = F[m - 1] \o us[m] BY <1>4
  <2>4. PICK p, q, r : p = F[m - 1] /\ q = us[m] /\ r = F[m] OBVIOUS
  <2>5. /\ Len(p \o q) = Len(p) + Len(q)
        /\ \A x \in 1 .. Len(p) + Len(q) : (p \o q)[x] = IF x <= Len(p) THEN p[x] ELSE q[x - Len(p)]
    BY <2>2, <2>4, ConcatProperties
  <2>6. r = p \o q BY <2>3, <2>4
  <2>7. /\ Len(r) = Len(p) + Len(q)
        /\ \A x \in 1 .. Len(p) + Len(q) : r[x] = IF x <= Len(p) THEN p[x] ELSE q[x - Len(p)]
    BY <2>5, <2>6, Zenon
  <2>. QED BY <2>2, <2>4, <2>7
<1>11. PICK B \in SUBSET Nat : B = {m \in k .. n : ~(a + i <= Len(F[m]) /\ F[m][a + i] = us[k][i])}
  <2>1. {m \in k .. n : ~(a + i <= Len(F[m]) /\ F[m][a + i] = us[k][i])} \subseteq Nat BY <1>5
  <2>. QED BY <2>1
<1>12. B = {}
  <2>. SUFFICES ASSUME B # {} PROVE FALSE OBVIOUS
  <2>1. PICK m \in B : \A j \in B : ~(j < m) BY LeastNat
  <2>2. m \in k .. n /\ ~(a + i <= Len(F[m]) /\ F[m][a + i] = us[k][i]) BY <1>11, <2>1
  <2>3. m \in 1 .. n BY <1>5, <2>2
  <2>4. PICK l \in Nat : l = Len(F[m - 1])
    <3>1. F[m - 1] \in Seq(S) BY <1>10, <2>3
    <3>. QED BY <3>1
  <2>5. PICK c \in Nat : c = Len(us[m])
    <3>1. us[m] \in Seq(S) BY <1>6, <2>3
    <3>. QED BY <3>1
  <2>6. /\ Len(F[m]) = l + c
        /\ \A x \in 1 .. l + c : F[m][x] = IF x <= l THEN F[m - 1][x] ELSE us[m][x - l]
    BY <1>10, <2>3, <2>4, <2>5
  <2>7. CASE m = k
    <3>1. l = a /\ i <= c BY <1>8, <1>9, <2>4, <2>5, <2>7
    <3>2. a + i \in 1 .. l + c /\ ~(a + i <= l) /\ (a + i) - l = i BY <1>9, <3>1
    <3>3. F[m][a + i] = us[m][(a + i) - l] BY <2>6, <3>2
    <3>. QED BY <2>2, <2>6, <2>7, <3>2, <3>3
  <2>8. CASE m # k
    <3>1. m - 1 \in k .. n /\ m - 1 < m BY <1>5, <2>2, <2>8
    <3>2. a + i <= l /\ F[m - 1][a + i] = us[k][i] BY <1>11, <2>1, <2>4, <3>1
    <3>3. a + i \in 1 .. l + c BY <1>9, <3>2
    <3>4. F[m][a + i] = F[m - 1][a + i] BY <2>6, <3>2, <3>3
    <3>. QED BY <2>2, <2>6, <3>2, <3>3, <3>4
  <2>. QED BY <2>7, <2>8
<1>13. n \in k .. n BY <1>5
<1>14. a + i <= Len(F[n]) /\ F[n][a + i] = us[k][i] BY <1>11, <1>12, <1>13
<1>15. a + i >= 1 BY <1>9
<1>16. Len(F[n]) \in Nat
  <2>1. n \in 0 .. n BY <1>1
  <2>2. F[n] \in Seq(S) BY <1>3, <2>1
  <2>. QED BY <2>2
<1>. QED BY <1>3, <1>7, <1>9, <1>14, <1>15, <1>16

(* The least of a set of numbers.                                          *)
LEMMA MinIs ==
  ASSUME NEW B \in SUBSET Nat, B # {}
  PROVE  Min(B) \in B /\ \A b \in B : Min(B) <= b
<1>1. PICK n \in B : \A m \in B : ~(m < n) BY LeastNat
<1>2. \A m \in B : n <= m BY <1>1
<1>3. \E x \in B : \A y \in B : x <= y BY <1>2
<1>. QED BY <1>3 DEF Min

LEMMA MinOf ==
  ASSUME NEW B \in SUBSET Nat, NEW n \in B, \A b \in B : n <= b
  PROVE  Min(B) = n
<1>1. Min(B) \in B /\ \A b \in B : Min(B) <= b BY MinIs
<1>2. Min(B) <= n /\ n <= Min(B) /\ n \in Nat /\ Min(B) \in Nat BY <1>1
<1>. QED BY <1>2

(* Packet q is the next one after unit m.                                  *)
NextPacket(us, m, q) ==
  q \in PacketsOf(us) /\ m < q /\ \A k \in PacketsOf(us) : m < k => q <= k

NoneAfter(us, m) == \A k \in PacketsOf(us) : k <= m

LEMMA NextIs ==
  ASSUME NEW us, NEW n \in Nat, n = Len(us), DOMAIN us = 1 .. n, NEW m \in 0 .. n
  PROVE  \/ NoneAfter(us, m) /\ NextAt(us, m) = Len(FlattenSeq(us))
         \/ \E q \in 1 .. n : NextPacket(us, m, q) /\ NextAt(us, m) = UnitAt(us, q)
<1>1. PICK B \in SUBSET Nat : B = {j \in PacketsOf(us) : j > m}
  <2>1. {j \in PacketsOf(us) : j > m} \subseteq Nat BY DEF PacketsOf
  <2>. QED BY <2>1
<1>2. NextAt(us, m) = IF B = {} THEN Len(FlattenSeq(us)) ELSE UnitAt(us, Min(B))
  BY <1>1 DEF NextAt
<1>3. PacketsOf(us) \subseteq 1 .. n BY DEF PacketsOf
<1>4. CASE B = {}
  <2>1. NoneAfter(us, m) BY <1>1, <1>3, <1>4 DEF NoneAfter
  <2>. QED BY <1>2, <1>4, <2>1
<1>5. CASE B # {}
  <2>1. PICK q : q = Min(B) OBVIOUS
  <2>2. q \in B /\ \A b \in B : q <= b BY <1>5, <2>1, MinIs
  <2>3. q \in 1 .. n /\ q \in PacketsOf(us) /\ m < q BY <1>1, <1>3, <2>2
  <2>4. \A k \in PacketsOf(us) : m < k => q <= k BY <1>1, <1>3, <2>2
  <2>5. NextPacket(us, m, q) BY <2>3, <2>4 DEF NextPacket
  <2>. QED BY <1>2, <1>5, <2>1, <2>3, <2>5
<1>. QED BY <1>4, <1>5

-----------------------------------------------------------------------------
(* How many packets there are up to a unit.                                *)
Rank(us, k) == Cardinality({j \in PacketsOf(us) : j <= k})

LEMMA RankType ==
  ASSUME NEW us, NEW n \in Nat, DOMAIN us = 1 .. n, NEW k
  PROVE  IsFiniteSet({j \in PacketsOf(us) : j <= k}) /\ Rank(us, k) \in Nat
<1>1. IsFiniteSet(1 .. n) BY FS_Interval
<1>2. {j \in PacketsOf(us) : j <= k} \subseteq 1 .. n BY DEF PacketsOf
<1>3. IsFiniteSet({j \in PacketsOf(us) : j <= k}) BY <1>1, <1>2, FS_Subset
<1>. QED BY <1>3, FS_CardinalityType DEF Rank

LEMMA RankNone ==
  ASSUME NEW us, NEW n \in Nat, DOMAIN us = 1 .. n
  PROVE  Rank(us, 0) = 0
<1>1. {j \in PacketsOf(us) : j <= 0} = {} BY DEF PacketsOf
<1>. QED BY <1>1, FS_EmptySet DEF Rank

LEMMA RankNext ==
  ASSUME NEW us, NEW n \in Nat, DOMAIN us = 1 .. n, NEW m \in 0 .. n, NEW q, NextPacket(us, m, q)
  PROVE  Rank(us, q) = Rank(us, m) + 1
<1>1. PacketsOf(us) \subseteq 1 .. n BY DEF PacketsOf
<1>2. q \in PacketsOf(us) /\ q \in 1 .. n /\ m < q BY <1>1 DEF NextPacket
<1>3. PICK B : B = {j \in PacketsOf(us) : j <= m} OBVIOUS
<1>4. PICK C : C = {j \in PacketsOf(us) : j <= q} OBVIOUS
<1>5. \A k \in PacketsOf(us) : k <= q <=> k <= m \/ k = q
  <2>. SUFFICES ASSUME NEW k \in PacketsOf(us) PROVE k <= q <=> k <= m \/ k = q OBVIOUS
  <2>1. k \in 1 .. n BY <1>1
  <2>2. m < k => q <= k BY DEF NextPacket
  <2>. QED BY <1>2, <2>1, <2>2
<1>6. C = B \cup {q} BY <1>2, <1>3, <1>4, <1>5
<1>7. q \notin B BY <1>2, <1>3
<1>8. IsFiniteSet(B) BY <1>3, RankType
<1>9. Cardinality(B \cup {q}) = Cardinality(B) + 1 BY <1>7, <1>8, FS_AddElement
<1>. QED BY <1>3, <1>4, <1>6, <1>9 DEF Rank

LEMMA RankStep ==
  ASSUME NEW us, NEW n \in Nat, DOMAIN us = 1 .. n, NEW k \in 1 .. n
  PROVE  Rank(us, k) = IF k \in PacketsOf(us) THEN Rank(us, k - 1) + 1 ELSE Rank(us, k - 1)
<1>1. PacketsOf(us) \subseteq 1 .. n BY DEF PacketsOf
<1>2. CASE k \in PacketsOf(us)
  <2>1. k - 1 \in 0 .. n /\ k - 1 < k OBVIOUS
  <2>2. \A j \in PacketsOf(us) : k - 1 < j => k <= j BY <1>1
  <2>3. NextPacket(us, k - 1, k) BY <1>2, <2>1, <2>2 DEF NextPacket
  <2>. QED BY <1>2, <2>1, <2>3, RankNext
<1>3. CASE k \notin PacketsOf(us)
  <2>1. \A j \in PacketsOf(us) : j <= k <=> j <= k - 1 BY <1>1, <1>3
  <2>2. {j \in PacketsOf(us) : j <= k} = {j \in PacketsOf(us) : j <= k - 1} BY <2>1
  <2>. QED BY <1>3, <2>2 DEF Rank
<1>. QED BY <1>2, <1>3

(* Packets are numbered from 1 on, each number once.                       *)
LEMMA RankGrows ==
  ASSUME NEW us, NEW n \in Nat, DOMAIN us = 1 .. n, NEW j \in 0 .. n, NEW k \in PacketsOf(us), j < k
  PROVE  Rank(us, j) < Rank(us, k)
<1>1. PacketsOf(us) \subseteq 1 .. n BY DEF PacketsOf
<1>2. PICK B : B = {i \in PacketsOf(us) : i <= j} OBVIOUS
<1>3. PICK C : C = {i \in PacketsOf(us) : i <= k} OBVIOUS
<1>4. k \in 1 .. n BY <1>1
<1>5. B \in SUBSET C /\ k \in C /\ k \notin B BY <1>1, <1>2, <1>3, <1>4
<1>6. IsFiniteSet(C) BY <1>3, RankType
<1>7. Cardinality(B) <= Cardinality(C) /\ (Cardinality(C) = Cardinality(B) => C = B)
  BY <1>5, <1>6, FS_Subset
<1>8. Rank(us, j) \in Nat /\ Rank(us, k) \in Nat BY RankType
<1>9. Rank(us, j) = Cardinality(B) /\ Rank(us, k) = Cardinality(C) BY <1>2, <1>3 DEF Rank
<1>. QED BY <1>5, <1>7, <1>8, <1>9

LEMMA RankOnce ==
  ASSUME NEW us, NEW n \in Nat, DOMAIN us = 1 .. n,
         NEW j \in PacketsOf(us), NEW k \in PacketsOf(us), Rank(us, j) = Rank(us, k)
  PROVE  j = k
<1>1. PacketsOf(us) \subseteq 1 .. n BY DEF PacketsOf
<1>2. j \in 0 .. n /\ k \in 0 .. n BY <1>1
<1>3. Rank(us, j) \in Nat /\ Rank(us, k) \in Nat BY RankType
<1>4. ~(j < k)
  <2>. SUFFICES ASSUME j < k PROVE FALSE OBVIOUS
  <2>1. Rank(us, j) < Rank(us, k) BY <1>2, RankGrows
  <2>. QED BY <1>3, <2>1
<1>5. ~(k < j)
  <2>. SUFFICES ASSUME k < j PROVE FALSE OBVIOUS
  <2>1. Rank(us, k) < Rank(us, j) BY <1>2, RankGrows
  <2>. QED BY <1>3, <2>1
<1>. QED BY <1>2, <1>4, <1>5

LEMMA RankReached ==
  ASSUME NEW us, NEW n \in Nat, DOMAIN us = 1 .. n, NEW m \in 0 .. n, NEW x \in 1 .. Rank(us, m)
  PROVE  \E k \in PacketsOf(us) : k <= m /\ Rank(us, k) = x
<1>1. Rank(us, m) \in Nat /\ x \in Nat
  <2>1. Rank(us, m) \in Nat BY RankType
  <2>. QED BY <2>1
<1>2. PICK B \in SUBSET Nat : B = {k \in 0 .. m : x <= Rank(us, k)}
  <2>1. {k \in 0 .. m : x <= Rank(us, k)} \subseteq Nat OBVIOUS
  <2>. QED BY <2>1
<1>3. m \in B
  <2>1. m \in 0 .. m /\ x <= Rank(us, m) BY <1>1
  <2>. QED BY <1>2, <2>1
<1>4. PICK k \in B : \A j \in B : ~(j < k) BY <1>3, LeastNat
<1>5. k \in 0 .. m /\ x <= Rank(us, k) BY <1>2, <1>4
<1>6. k # 0
  <2>1. Rank(us, 0) = 0 BY RankNone
  <2>2. x >= 1 OBVIOUS
  <2>. QED BY <1>1, <1>5, <2>1, <2>2
<1>7. k \in 1 .. n /\ k - 1 \in 0 .. m /\ k - 1 < k BY <1>5, <1>6
<1>8. ~(x <= Rank(us, k - 1)) BY <1>2, <1>4, <1>7
<1>9. Rank(us, k) = IF k \in PacketsOf(us) THEN Rank(us, k - 1) + 1 ELSE Rank(us, k - 1)
  BY <1>7, RankStep
<1>10. Rank(us, k - 1) \in Nat BY RankType
<1>11. k \in PacketsOf(us) BY <1>5, <1>8, <1>9
<1>12. Rank(us, k) = x BY <1>1, <1>5, <1>8, <1>9, <1>10, <1>11
<1>. QED BY <1>5, <1>11, <1>12

-----------------------------------------------------------------------------
GoodStream(us, only) == us \in Seq(PesUnits) /\ only \in BOOLEAN /\ Decodable(us, only)

LEMMA StreamType ==
  ASSUME NEW us \in Seq(PesUnits)
  PROVE  /\ us \in Seq(Seq(0 .. 255)) /\ DOMAIN us = 1 .. Len(us) /\ Len(us) \in Nat
         /\ PacketsOf(us) \subseteq 1 .. Len(us)
         /\ \A k \in 1 .. Len(us) : us[k] \in PesUnits /\ Len(us[k]) \in Nat
<1>1. us \in Seq(Seq(0 .. 255)) BY PesAssumption, SeqMonotonic
<1>2. DOMAIN us = 1 .. Len(us) /\ Len(us) \in Nat OBVIOUS
<1>3. PacketsOf(us) \subseteq 1 .. Len(us) BY <1>2 DEF PacketsOf
<1>4. ASSUME NEW k \in 1 .. Len(us) PROVE us[k] \in PesUnits /\ Len(us[k]) \in Nat
  <2>1. us[k] \in PesUnits BY ElementOfSeq
  <2>2. us[k] \in Seq(0 .. 255) BY <2>1, PesAssumption
  <2>. QED BY <2>1, <2>2
<1>. QED BY <1>1, <1>2, <1>3, <1>4

LEMMA UnitHead ==
  ASSUME NEW u \in PesUnits, IsPacket(u)
  PROVE  /\ Len(u) \in Nat /\ Len(u) >= 9 /\ StartsPes(u, 0) /\ PesLength(u, 0) \in Nat
         /\ Bounded(u) => Len(u) = PesLength(u, 0) + 6 /\ Extent(u) = Len(u)
         /\ Extent(u) \in 6 .. Len(u)
<1>1. u \in Seq(0 .. 255) BY PesAssumption
<1>2. Len(u) \in Nat /\ Len(u) >= 9 /\ StartsPes(u, 0) BY <1>1 DEF IsPacket
<1>3. u[5] \in 0 .. 255 /\ u[6] \in 0 .. 255
  <2>1. 5 \in 1 .. Len(u) /\ 6 \in 1 .. Len(u) BY <1>2
  <2>. QED BY <1>1, <2>1, ElementOfSeq
<1>4. PesLength(u, 0) \in Nat
  <2>1. 0 + 5 = 5 /\ 0 + 6 = 6 OBVIOUS
  <2>2. PesLength(u, 0) = u[5] * 256 + u[6] BY <2>1, Zenon DEF PesLength
  <2>3. PICK x \in 0 .. 255 : x = u[5] BY <1>3
  <2>4. PICK y \in 0 .. 255 : y = u[6] BY <1>3
  <2>5. x * 256 + y \in Nat OBVIOUS
  <2>. QED BY <2>2, <2>3, <2>4, <2>5, Zenon
<1>5. Bounded(u) => Len(u) = PesLength(u, 0) + 6 BY PesAssumption
<1>6. CASE Bounded(u)
  <2>1. Extent(u) = Len(u) BY <1>6 DEF Extent
  <2>. QED BY <1>2, <1>4, <1>5, <2>1
<1>7. CASE ~Bounded(u)
  <2>1. Extent(u) = 6 BY <1>7 DEF Extent
  <2>. QED BY <1>2, <1>4, <1>7, <2>1
<1>. QED BY <1>6, <1>7

(* A packet in the stream.                                                 *)
LEMMA PacketIs ==
  ASSUME NEW us \in Seq(PesUnits), NEW k \in PacketsOf(us), NEW s, s = FlattenSeq(us),
         NEW a, a = UnitAt(us, k), NEW u, u = us[k]
  PROVE  /\ k \in 1 .. Len(us) /\ u \in PesUnits /\ IsPacket(u)
         /\ a \in Nat /\ a + Len(u) <= Len(s) /\ a + Len(u) = UnitAt(us, k + 1)
         /\ StartsPes(s, a) /\ PesLength(s, a) = PesLength(u, 0)
         /\ s[a + 9] \in 0 .. 255
<1>1. PICK n \in Nat : n = Len(us) BY StreamType
<1>2. us \in Seq(Seq(0 .. 255)) /\ k \in 1 .. n /\ u \in PesUnits BY <1>1, StreamType
<1>3. IsPacket(u) BY DEF PacketsOf
<1>4. Len(u) \in Nat /\ Len(u) >= 9 /\ StartsPes(u, 0) BY <1>2, <1>3, UnitHead
<1>5. a \in Nat /\ UnitAt(us, k + 1) = a + Len(u)
  <2>1. k \in 1 .. n + 1 BY <1>2
  <2>. QED BY <1>1, <1>2, <2>1, UnitsAdjoin
<1>6. a + Len(u) <= Len(s)
  <2>1. n + 1 \in 1 .. n + 1 /\ k + 1 \in 1 .. n + 1 /\ k + 1 <= n + 1 BY <1>1, <1>2
  <2>2. UnitAt(us, k + 1) <= UnitAt(us, n + 1) BY <1>1, <1>2, <2>1, UnitsInOrder
  <2>3. UnitAt(us, n + 1) = Len(s) BY <1>1, <1>2, UnitsAdjoin
  <2>. QED BY <1>5, <2>2, <2>3
<1>7. \A i \in 1 .. Len(u) : s[a + i] = u[i] BY <1>1, <1>2, UnitBytes
<1>8. \A i \in 1 .. 9 : s[a + i] = u[i] BY <1>4, <1>7
<1>9. /\ s[a + 1] = u[1] /\ s[a + 2] = u[2] /\ s[a + 3] = u[3]
      /\ s[a + 5] = u[5] /\ s[a + 6] = u[6] /\ s[a + 9] = u[9]
  BY <1>8
<1>10. /\ 0 + 1 = 1 /\ 0 + 2 = 2 /\ 0 + 3 = 3 /\ 0 + 5 = 5 /\ 0 + 6 = 6 OBVIOUS
<1>11. StartsPes(s, a) BY <1>4, <1>9, <1>10 DEF StartsPes
<1>12. PesLength(s, a) = PesLength(u, 0) BY <1>9, <1>10 DEF PesLength
<1>13. u[9] \in 0 .. 255
  <2>1. u \in Seq(0 .. 255) /\ 9 \in 1 .. Len(u) BY <1>2, <1>4, PesAssumption
  <2>. QED BY <2>1, ElementOfSeq
<1>. QED BY <1>1, <1>2, <1>3, <1>5, <1>6, <1>9, <1>11, <1>12, <1>13

LEMMA BeforeNext ==
  ASSUME NEW us \in Seq(PesUnits), NEW m \in 0 .. Len(us)
  PROVE  /\ NextAt(us, m) \in 0 .. Len(FlattenSeq(us))
         /\ \A k \in PacketsOf(us) : k <= m => UnitAt(us, k) + Len(us[k]) <= NextAt(us, m)
         /\ \A k \in PacketsOf(us) : m < k => NextAt(us, m) <= UnitAt(us, k)
<1>1. PICK n \in Nat : n = Len(us) BY StreamType
<1>2. us \in Seq(Seq(0 .. 255)) /\ DOMAIN us = 1 .. n /\ PacketsOf(us) \subseteq 1 .. n
  BY <1>1, StreamType
<1>3. PICK s : s = FlattenSeq(us) OBVIOUS
<1>4. Len(s) \in Nat
  <2>1. s \in Seq(0 .. 255) BY <1>2, <1>3, UnitsAdjoin
  <2>. QED BY <2>1
<1>5. m \in 0 .. n BY <1>1
<1>6. CASE NoneAfter(us, m) /\ NextAt(us, m) = Len(FlattenSeq(us))
  <2>1. ASSUME NEW k \in PacketsOf(us) PROVE UnitAt(us, k) + Len(us[k]) <= NextAt(us, m)
    BY <1>6, PacketIs
  <2>2. ASSUME NEW k \in PacketsOf(us) PROVE ~(m < k)
    <3>1. k \in 1 .. n /\ k <= m BY <1>2, <1>6 DEF NoneAfter
    <3>. QED BY <1>5, <3>1
  <2>. QED BY <1>3, <1>4, <1>6, <2>1, <2>2
<1>7. CASE \E q \in 1 .. n : NextPacket(us, m, q) /\ NextAt(us, m) = UnitAt(us, q)
  <2>1. PICK q \in 1 .. n : NextPacket(us, m, q) /\ NextAt(us, m) = UnitAt(us, q) BY <1>7
  <2>2. q \in PacketsOf(us) /\ m < q /\ q \in 1 .. n + 1 BY <2>1 DEF NextPacket
  <2>3. PICK a : a = UnitAt(us, q) OBVIOUS
  <2>4. a \in Nat /\ a + Len(us[q]) <= Len(s) BY <1>3, <2>2, <2>3, PacketIs
  <2>5. Len(us[q]) \in Nat BY <1>1, StreamType
  <2>6. ASSUME NEW k \in PacketsOf(us), k <= m PROVE UnitAt(us, k) + Len(us[k]) <= a
    <3>1. k \in 1 .. n BY <1>2
    <3>2. k + 1 \in 1 .. n + 1 /\ k + 1 <= q BY <1>5, <2>2, <2>6, <3>1
    <3>3. UnitAt(us, k + 1) <= UnitAt(us, q) BY <1>1, <1>2, <2>2, <3>2, UnitsInOrder
    <3>4. UnitAt(us, k) + Len(us[k]) = UnitAt(us, k + 1) BY PacketIs
    <3>. QED BY <2>3, <3>3, <3>4
  <2>7. ASSUME NEW k \in PacketsOf(us), m < k PROVE a <= UnitAt(us, k)
    <3>1. k \in 1 .. n + 1 /\ q <= k BY <1>2, <2>1, <2>7 DEF NextPacket
    <3>. QED BY <1>1, <1>2, <2>2, <2>3, <3>1, UnitsInOrder
  <2>8. a \in 0 .. Len(s) BY <1>4, <2>4, <2>5
  <2>. QED BY <1>3, <2>1, <2>3, <2>6, <2>7, <2>8
<1>8. \/ NoneAfter(us, m) /\ NextAt(us, m) = Len(FlattenSeq(us))
      \/ \E q \in 1 .. n : NextPacket(us, m, q) /\ NextAt(us, m) = UnitAt(us, q)
  BY <1>1, <1>2, <1>5, NextIs
<1>. QED BY <1>6, <1>7, <1>8

(* No start code stands between a and b.                                   *)
Clear(s, a, b) == \A j \in a .. b - 1 : j + 3 <= Len(s) => ~StartsPes(s, j)

LEMMA ClearBetween ==
  ASSUME NEW us, NEW only, GoodStream(us, only), NEW m \in 0 .. Len(us), NEW a \in Nat,
         \A k \in PacketsOf(us) : k <= m => UnitAt(us, k) + Extent(us[k]) <= a
  PROVE  Clear(FlattenSeq(us), a, NextAt(us, m))
<1>1. us \in Seq(PesUnits) /\ Decodable(us, only) BY DEF GoodStream
<1>2. PICK s, b : s = FlattenSeq(us) /\ b = NextAt(us, m) OBVIOUS
<1>3. b \in Nat /\ Len(s) \in Nat
  <2>1. b \in 0 .. Len(s) BY <1>1, <1>2, BeforeNext
  <2>2. us \in Seq(Seq(0 .. 255)) BY <1>1, StreamType
  <2>3. s \in Seq(0 .. 255) BY <1>2, <2>2, UnitsAdjoin
  <2>. QED BY <2>1, <2>3
<1>4. SUFFICES ASSUME NEW j \in a .. b - 1, j + 3 <= Len(s), StartsPes(s, j) PROVE FALSE
  BY <1>2 DEF Clear
<1>5. j \in 0 .. Len(s) - 3 BY <1>3, <1>4
<1>6. PICK k \in PacketsOf(us) : j - UnitAt(us, k) \in 0 .. Extent(us[k]) - 1
  BY <1>1, <1>2, <1>4, <1>5 DEF Decodable, CodesWithin
<1>7. PICK at, ext : at = UnitAt(us, k) /\ ext = Extent(us[k]) OBVIOUS
<1>8. at \in Nat /\ ext \in Nat /\ k \in Nat /\ m \in Nat
  <2>1. at \in Nat /\ us[k] \in PesUnits /\ IsPacket(us[k]) /\ k \in 1 .. Len(us)
    BY <1>1, <1>7, PacketIs
  <2>2. ext \in 6 .. Len(us[k]) BY <1>7, <2>1, UnitHead
  <2>. QED BY <2>1, <2>2
<1>9. j - at \in 0 .. ext - 1 BY <1>6, <1>7
<1>10. j >= at /\ j < at + ext /\ j >= a /\ j < b BY <1>3, <1>4, <1>8, <1>9
<1>11. CASE k <= m
  <2>1. at + ext <= a BY <1>7, <1>11
  <2>. QED BY <1>8, <1>10, <2>1
<1>12. CASE ~(k <= m)
  <2>1. m < k BY <1>8, <1>12
  <2>2. b <= at BY <1>1, <1>2, <1>7, <2>1, BeforeNext
  <2>. QED BY <1>3, <1>8, <1>10, <2>2
<1>. QED BY <1>11, <1>12

(* The parser goes on behind a packet, and finds nothing before the next.  *)
LEMMA ClearBehind ==
  ASSUME NEW us, NEW only, GoodStream(us, only), NEW k \in PacketsOf(us),
         NEW a, a = UnitAt(us, k) + Extent(us[k])
  PROVE  a \in 0 .. NextAt(us, k) /\ Clear(FlattenSeq(us), a, NextAt(us, k))
<1>1. us \in Seq(PesUnits) BY DEF GoodStream
<1>2. k \in 1 .. Len(us) /\ us[k] \in PesUnits /\ IsPacket(us[k]) /\ UnitAt(us, k) \in Nat
  BY <1>1, PacketIs
<1>3. Extent(us[k]) \in 6 .. Len(us[k]) /\ Len(us[k]) \in Nat BY <1>2, UnitHead
<1>4. k \in 0 .. Len(us) /\ k <= k BY <1>2
<1>5. UnitAt(us, k) + Len(us[k]) <= NextAt(us, k) /\ NextAt(us, k) \in Nat
  <2>1. NextAt(us, k) \in 0 .. Len(FlattenSeq(us)) BY <1>1, <1>4, BeforeNext
  <2>. QED BY <1>1, <1>4, <2>1, BeforeNext
<1>6. a \in 0 .. NextAt(us, k) /\ a \in Nat BY <1>2, <1>3, <1>5
<1>7. ASSUME NEW j \in PacketsOf(us), j <= k PROVE UnitAt(us, j) + Extent(us[j]) <= a
  <2>1. /\ j \in 1 .. Len(us) /\ us[j] \in PesUnits /\ IsPacket(us[j]) /\ UnitAt(us, j) \in Nat
        /\ UnitAt(us, j) + Len(us[j]) = UnitAt(us, j + 1)
    BY <1>1, PacketIs
  <2>2. Extent(us[j]) \in 6 .. Len(us[j]) /\ Len(us[j]) \in Nat BY <2>1, UnitHead
  <2>3. CASE j = k BY <1>2, <1>3, <2>3
  <2>4. CASE j # k
    <3>1. j + 1 \in 1 .. Len(us) + 1 /\ k \in 1 .. Len(us) + 1 /\ j + 1 <= k
      BY <1>2, <1>7, <2>1, <2>4
    <3>2. us \in Seq(Seq(0 .. 255)) BY <1>1, StreamType
    <3>3. UnitAt(us, j + 1) <= UnitAt(us, k) BY <3>1, <3>2, UnitsInOrder
    <3>. QED BY <1>2, <1>3, <2>1, <2>2, <3>3
  <2>. QED BY <2>3, <2>4
<1>8. Clear(FlattenSeq(us), a, NextAt(us, k)) BY <1>4, <1>6, <1>7, ClearBetween
<1>. QED BY <1>6, <1>8

-----------------------------------------------------------------------------
(* Packets end in order, and those that have ended stay so.                *)
LEMMA EndedFar ==
  ASSUME NEW us \in Seq(PesUnits), NEW only \in BOOLEAN, NEW k \in PacketsOf(us),
         NEW e \in Nat, Ended(us, only, k, e)
  PROVE  UnitAt(us, k) + 6 <= e
<1>1. k \in 1 .. Len(us) /\ us[k] \in PesUnits /\ IsPacket(us[k]) /\ UnitAt(us, k) \in Nat
  BY PacketIs
<1>2. Extent(us[k]) \in 6 .. Len(us[k]) /\ Len(us[k]) \in Nat /\ Len(us[k]) >= 9 BY <1>1, UnitHead
<1>3. CASE only /\ ~Bounded(us[k])
  <2>1. k \in 0 .. Len(us) /\ k <= k BY <1>1
  <2>2. UnitAt(us, k) + Len(us[k]) <= NextAt(us, k) BY <2>1, BeforeNext
  <2>3. NextAt(us, k) \in 0 .. Len(FlattenSeq(us)) BY <2>1, BeforeNext
  <2>4. e >= NextAt(us, k) + 5 BY <1>3 DEF Ended
  <2>. QED BY <1>1, <1>2, <2>2, <2>3, <2>4
<1>4. CASE ~(only /\ ~Bounded(us[k]))
  <2>1. e >= UnitAt(us, k) + Extent(us[k]) BY <1>4 DEF Ended
  <2>. QED BY <1>1, <1>2, <2>1
<1>. QED BY <1>3, <1>4

LEMMA EndedBefore ==
  ASSUME NEW us \in Seq(PesUnits), NEW only \in BOOLEAN, NEW j \in PacketsOf(us),
         NEW k \in PacketsOf(us), j < k, NEW e \in Nat, Ended(us, only, k, e)
  PROVE  Ended(us, only, j, e)
<1>1. /\ j \in 1 .. Len(us) /\ us[j] \in PesUnits /\ IsPacket(us[j]) /\ UnitAt(us, j) \in Nat
  BY PacketIs
<1>2. /\ k \in 1 .. Len(us) /\ us[k] \in PesUnits /\ IsPacket(us[k]) /\ UnitAt(us, k) \in Nat
  BY PacketIs
<1>3. UnitAt(us, k) + Len(us[k]) <= Len(FlattenSeq(us)) BY PacketIs
<1>4. Extent(us[j]) \in 6 .. Len(us[j]) /\ Len(us[j]) \in Nat BY <1>1, UnitHead
<1>5. Len(us[k]) \in Nat /\ Len(us[k]) >= 9 BY <1>2, UnitHead
<1>6. UnitAt(us, k) + 6 <= e BY EndedFar
<1>7. j \in 0 .. Len(us) /\ j <= j BY <1>1
<1>8. NextAt(us, j) \in 0 .. Len(FlattenSeq(us)) /\ NextAt(us, j) <= UnitAt(us, k)
  BY <1>7, BeforeNext
<1>9. UnitAt(us, j) + Len(us[j]) <= NextAt(us, j) BY <1>7, BeforeNext
<1>10. CASE only /\ ~Bounded(us[j])
  <2>1. Len(FlattenSeq(us)) \in Nat
    <3>1. us \in Seq(Seq(0 .. 255)) BY StreamType
    <3>2. FlattenSeq(us) \in Seq(0 .. 255) BY <3>1, UnitsAdjoin
    <3>. QED BY <3>2
  <2>2. NextAt(us, j) < Len(FlattenSeq(us)) BY <1>2, <1>3, <1>5, <1>8, <2>1
  <2>3. e >= NextAt(us, j) + 5 BY <1>2, <1>6, <1>8
  <2>. QED BY <1>10, <2>2, <2>3 DEF Ended
<1>11. CASE ~(only /\ ~Bounded(us[j]))
  <2>1. e >= UnitAt(us, j) + Extent(us[j]) BY <1>1, <1>2, <1>4, <1>6, <1>8, <1>9
  <2>. QED BY <1>11, <2>1 DEF Ended
<1>. QED BY <1>10, <1>11

LEMMA EndedLater ==
  ASSUME NEW us \in Seq(PesUnits), NEW only \in BOOLEAN, NEW k \in PacketsOf(us),
         NEW e \in Nat, NEW d \in Nat, e <= d, Ended(us, only, k, e)
  PROVE  Ended(us, only, k, d)
<1>1. k \in 1 .. Len(us) /\ us[k] \in PesUnits /\ IsPacket(us[k]) /\ UnitAt(us, k) \in Nat
  BY PacketIs
<1>2. Extent(us[k]) \in 6 .. Len(us[k]) BY <1>1, UnitHead
<1>3. CASE only /\ ~Bounded(us[k])
  <2>1. k \in 0 .. Len(us) BY <1>1
  <2>2. NextAt(us, k) \in 0 .. Len(FlattenSeq(us)) BY <2>1, BeforeNext
  <2>3. NextAt(us, k) < Len(FlattenSeq(us)) /\ e >= NextAt(us, k) + 5 BY <1>3 DEF Ended
  <2>4. d >= NextAt(us, k) + 5 BY <2>2, <2>3
  <2>. QED BY <1>3, <2>3, <2>4 DEF Ended
<1>4. CASE ~(only /\ ~Bounded(us[k]))
  <2>1. e >= UnitAt(us, k) + Extent(us[k]) BY <1>4 DEF Ended
  <2>2. d >= UnitAt(us, k) + Extent(us[k]) BY <1>1, <1>2, <2>1
  <2>. QED BY <1>4, <2>2 DEF Ended
<1>. QED BY <1>3, <1>4

(* No packet after unit m has ended.                                       *)
NoneEnded(us, only, m, e) == \A k \in PacketsOf(us) : m < k => ~Ended(us, only, k, e)

LEMMA NoneEndedNext ==
  ASSUME NEW us \in Seq(PesUnits), NEW only \in BOOLEAN, NEW m \in 0 .. Len(us), NEW e \in Nat,
         NEW q, NextPacket(us, m, q), ~Ended(us, only, q, e)
  PROVE  NoneEnded(us, only, m, e)
<1>1. q \in PacketsOf(us) BY DEF NextPacket
<1>2. SUFFICES ASSUME NEW k \in PacketsOf(us), m < k, Ended(us, only, k, e) PROVE FALSE
  BY DEF NoneEnded
<1>3. q <= k BY <1>2 DEF NextPacket
<1>4. CASE q = k BY <1>2, <1>4
<1>5. CASE q # k
  <2>1. q \in 1 .. Len(us) /\ k \in 1 .. Len(us) BY <1>1, StreamType
  <2>2. q < k BY <1>3, <1>5, <2>1
  <2>. QED BY <1>1, <1>2, <2>2, EndedBefore
<1>. QED BY <1>4, <1>5

LEMMA NoneEndedLast ==
  ASSUME NEW us \in Seq(PesUnits), NEW only, NEW m \in 0 .. Len(us), NEW e, NoneAfter(us, m)
  PROVE  NoneEnded(us, only, m, e)
<1>1. SUFFICES ASSUME NEW k \in PacketsOf(us), m < k PROVE FALSE BY DEF NoneEnded
<1>2. k \in 1 .. Len(us) /\ k <= m BY StreamType DEF NoneAfter
<1>. QED BY <1>1, <1>2

(* What has not come has not ended.                                        *)
LEMMA NoneEndedYet ==
  ASSUME NEW us \in Seq(PesUnits), NEW only \in BOOLEAN, NEW m \in 0 .. Len(us), NEW e \in Nat,
         e < NextAt(us, m) + 6
  PROVE  NoneEnded(us, only, m, e)
<1>1. SUFFICES ASSUME NEW k \in PacketsOf(us), m < k, Ended(us, only, k, e) PROVE FALSE
  BY DEF NoneEnded
<1>2. NextAt(us, m) \in 0 .. Len(FlattenSeq(us)) /\ NextAt(us, m) <= UnitAt(us, k)
  BY <1>1, BeforeNext
<1>3. UnitAt(us, k) \in Nat BY PacketIs
<1>4. UnitAt(us, k) + 6 <= e BY <1>1, EndedFar
<1>. QED BY <1>2, <1>3, <1>4

-----------------------------------------------------------------------------
(* What is due of a packet is an offset and a length.                      *)
Given == [at : Nat, len : Nat]

LEMMA Mpeg1HeaderType ==
  ASSUME NEW s, NEW i, NEW plen \in Nat
  PROVE  Mpeg1Header(s, i, plen) \in Nat
<1>1. PICK past \in SUBSET Nat : past = {k \in 6 .. plen - 1 : s[i + k + 1] # 255}
  <2>1. {k \in 6 .. plen - 1 : s[i + k + 1] # 255} \subseteq Nat OBVIOUS
  <2>. QED BY <2>1
<1>2. PICK stuffed : stuffed = IF past = {} THEN (IF plen > 6 THEN plen ELSE 6) ELSE Min(past)
  OBVIOUS
<1>3. stuffed \in Nat
  <2>1. CASE past = {} BY <1>2, <2>1
  <2>2. CASE past # {}
    <3>1. Min(past) \in past BY <2>2, MinIs
    <3>. QED BY <1>2, <2>2, <3>1
  <2>. QED BY <2>1, <2>2
<1>4. PICK sized : sized = IF s[i + stuffed + 1] \div 64 = 1 THEN stuffed + 2 ELSE stuffed OBVIOUS
<1>5. sized \in Nat BY <1>3, <1>4
<1>6. PICK more : more = CASE s[i + sized + 1] \div 16 = 2 -> 5
                           [] s[i + sized + 1] \div 16 = 3 -> 10
                           [] OTHER -> 1
  OBVIOUS
<1>7. more \in Nat BY <1>6
<1>8. Mpeg1Header(s, i, plen) = IF stuffed >= plen THEN stuffed ELSE sized + more
  <2>1. Mpeg1Header(s, i, plen) =
          LET stuff == IF past = {} THEN (IF plen > 6 THEN plen ELSE 6) ELSE Min(past)
              size == IF s[i + stuff + 1] \div 64 = 1 THEN stuff + 2 ELSE stuff
          IN IF stuff >= plen THEN stuff
             ELSE size + (CASE s[i + size + 1] \div 16 = 2 -> 5
                            [] s[i + size + 1] \div 16 = 3 -> 10
                            [] OTHER -> 1)
    BY <1>1 DEF Mpeg1Header
  <2>2. Mpeg1Header(s, i, plen) =
          IF stuffed >= plen THEN stuffed
          ELSE sized + (CASE s[i + sized + 1] \div 16 = 2 -> 5
                          [] s[i + sized + 1] \div 16 = 3 -> 10
                          [] OTHER -> 1)
    BY <1>2, <1>4, <2>1
  <2>. QED BY <1>6, <2>2
<1>. QED BY <1>3, <1>5, <1>7, <1>8

LEMMA DueType ==
  ASSUME NEW us, NEW only, GoodStream(us, only), NEW k \in PacketsOf(us)
  PROVE  Due(us, only, k) \in Given
<1>1. us \in Seq(PesUnits) /\ only \in BOOLEAN /\ Decodable(us, only) BY DEF GoodStream
<1>2. PICK s, i, u : s = FlattenSeq(us) /\ i = UnitAt(us, k) /\ u = us[k] OBVIOUS
<1>3. k \in 1 .. Len(us) /\ u \in PesUnits /\ IsPacket(u) /\ i \in Nat /\ s[i + 9] \in 0 .. 255
  BY <1>1, <1>2, PacketIs
<1>4. PesLength(u, 0) \in Nat BY <1>3, UnitHead
<1>5. CASE ~only
  <2>1. Due(us, only, k) = [at |-> i, len |-> PesLength(u, 0) + 6] BY <1>2, <1>5 DEF Due
  <2>. QED BY <1>3, <1>4, <2>1 DEF Given
<1>6. CASE only /\ Bounded(u)
  <2>1. Due(us, only, k) = Payload(s, i, PesLength(u, 0)) BY <1>2, <1>6 DEF Due
  <2>2. PICK hlen : hlen = IF s[i + 7] \div 64 = 2 THEN 9 + s[i + 9]
                           ELSE Mpeg1Header(s, i, PesLength(u, 0))
    OBVIOUS
  <2>3. hlen \in Nat
    <3>1. Mpeg1Header(s, i, PesLength(u, 0)) \in Nat BY <1>4, Mpeg1HeaderType
    <3>2. 9 + s[i + 9] \in Nat
      <4>1. PICK b \in 0 .. 255 : b = s[i + 9] BY <1>3
      <4>2. 9 + b \in Nat OBVIOUS
      <4>. QED BY <4>1, <4>2, Zenon
    <3>. QED BY <2>2, <3>1, <3>2, Zenon
  <2>4. Payload(s, i, PesLength(u, 0)) = [at |-> i + hlen, len |-> PesLength(u, 0) + 6 - hlen]
    BY <2>2 DEF Payload
  <2>5. Due(us, only, k).len >= 0
    <3>1. Fits(us, only, k) BY <1>1 DEF Decodable
    <3>. QED BY <1>2, <1>6, <3>1 DEF Fits
  <2>6. PesLength(u, 0) + 6 - hlen >= 0 BY <2>1, <2>4, <2>5
  <2>7. PesLength(u, 0) + 6 - hlen \in Nat /\ i + hlen \in Nat BY <1>3, <1>4, <2>3, <2>6
  <2>. QED BY <2>1, <2>4, <2>7 DEF Given
<1>7. CASE only /\ ~Bounded(u)
  <2>1. PICK j : j = NextAt(us, k) OBVIOUS
  <2>2. j \in Nat
    <3>1. k \in 0 .. Len(us) BY <1>3
    <3>2. j \in 0 .. Len(FlattenSeq(us)) BY <1>1, <2>1, <3>1, BeforeNext
    <3>. QED BY <3>2
  <2>3. Due(us, only, k) = PayloadUpTo(s, i, j) BY <1>2, <1>7, <2>1 DEF Due
  <2>4. PICK hlen \in Nat : hlen = 9 + s[i + 9]
    <3>1. PICK b \in 0 .. 255 : b = s[i + 9] BY <1>3
    <3>2. 9 + b \in Nat OBVIOUS
    <3>. QED BY <3>1, <3>2, Zenon
  <2>5. PayloadUpTo(s, i, j) = IF j - i < hlen THEN [at |-> j, len |-> 0]
                               ELSE [at |-> i + hlen, len |-> j - i - hlen]
    BY <2>4 DEF PayloadUpTo
  <2>6. CASE j - i < hlen BY <2>2, <2>3, <2>5, <2>6 DEF Given
  <2>7. CASE ~(j - i < hlen)
    <3>1. i + hlen \in Nat /\ j - i - hlen \in Nat BY <1>3, <2>2, <2>4, <2>7
    <3>. QED BY <2>3, <2>5, <2>7, <3>1 DEF Given
  <2>. QED BY <2>6, <2>7
<1>. QED BY <1>1, <1>5, <1>6, <1>7


-----------------------------------------------------------------------------
(* What the search for a start code finds.                                 *)
LEMMA FoundFirst ==
  ASSUME NEW s, NEW a \in Nat, NEW b \in Nat, NEW end \in Nat, a <= b, b <= end - 5,
         Len(s) \in Nat, end <= Len(s), Clear(s, a, b), StartsPes(s, b)
  PROVE  Found(s, a, end) # {} /\ Min(Found(s, a, end)) = b
<1>1. PICK B \in SUBSET Nat : B = Found(s, a, end)
  <2>1. Found(s, a, end) \subseteq Nat BY DEF Found
  <2>. QED BY <2>1
<1>2. B = {j \in a .. end - 5 : StartsPes(s, j)} BY <1>1 DEF Found
<1>3. b \in B BY <1>2
<1>4. ASSUME NEW j \in B PROVE b <= j
  <2>1. j \in a .. end - 5 /\ StartsPes(s, j) BY <1>2
  <2>2. ~(j \in a .. b - 1)
    <3>1. j + 3 <= Len(s) BY <2>1
    <3>. QED BY <2>1, <3>1 DEF Clear
  <2>. QED BY <2>1, <2>2
<1>5. Min(B) = b BY <1>3, <1>4, MinOf
<1>. QED BY <1>1, <1>3, <1>5

LEMMA FoundNone ==
  ASSUME NEW s, NEW a \in Nat, NEW b \in Nat, NEW end \in Nat, ~(b <= end - 5),
         Len(s) \in Nat, end <= Len(s), Clear(s, a, b)
  PROVE  Found(s, a, end) = {}
<1>1. SUFFICES ASSUME NEW j \in a .. end - 5, StartsPes(s, j) PROVE FALSE BY DEF Found
<1>2. j \in a .. b - 1 /\ j + 3 <= Len(s) BY <1>1
<1>. QED BY <1>1, <1>2 DEF Clear

-----------------------------------------------------------------------------
(* The first m units have been passed: their packets have ended and were   *)
(* given, and the parser stands before the next one, or at it.             *)
PassedBy(us, only, m, pos, out, end) ==
  /\ m \in 0 .. Len(us) /\ out \in Seq(Given) /\ Len(out) = Rank(us, m)
  /\ \A k \in PacketsOf(us) :
       k <= m => out[Rank(us, k)] = Due(us, only, k) /\ Ended(us, only, k, end)
  /\ pos \in 0 .. NextAt(us, m) /\ Clear(FlattenSeq(us), pos, NextAt(us, m))

LEMMA PassedOne ==
  ASSUME NEW us, NEW only, GoodStream(us, only), NEW end, NEW m, NEW pos, NEW out,
         PassedBy(us, only, m, pos, out, end),
         NEW q, NextPacket(us, m, q), Ended(us, only, q, end),
         NEW to \in 0 .. NextAt(us, q), Clear(FlattenSeq(us), to, NextAt(us, q))
  PROVE  PassedBy(us, only, q, to, Append(out, Due(us, only, q)), end)
<1>1. us \in Seq(PesUnits) BY DEF GoodStream
<1>2. PICK n \in Nat : n = Len(us) BY <1>1, StreamType
<1>3. DOMAIN us = 1 .. n /\ PacketsOf(us) \subseteq 1 .. n BY <1>1, <1>2, StreamType
<1>4. m \in 0 .. n /\ out \in Seq(Given) /\ Len(out) = Rank(us, m) BY <1>2 DEF PassedBy
<1>5. q \in PacketsOf(us) /\ m < q BY DEF NextPacket
<1>6. q \in 1 .. n BY <1>3, <1>5
<1>7. PICK d : d = Due(us, only, q) OBVIOUS
<1>8. d \in Given BY <1>5, <1>7, DueType
<1>9. PICK new : new = Append(out, d) OBVIOUS
<1>10. /\ new \in Seq(Given) /\ Len(new) = Len(out) + 1 /\ new[Len(out) + 1] = d
       /\ \A i \in 1 .. Len(out) : new[i] = out[i]
  BY <1>4, <1>8, <1>9, AppendProperties
<1>11. Rank(us, q) = Rank(us, m) + 1 BY <1>3, <1>4, RankNext
<1>12. ASSUME NEW k \in PacketsOf(us), k <= q
       PROVE  new[Rank(us, k)] = Due(us, only, k) /\ Ended(us, only, k, end)
  <2>1. k \in 1 .. n BY <1>3
  <2>2. CASE k <= m
    <3>1. out[Rank(us, k)] = Due(us, only, k) /\ Ended(us, only, k, end) BY <2>2 DEF PassedBy
    <3>2. Rank(us, k) < Rank(us, q)
      <4>1. k \in 0 .. n /\ k < q BY <1>4, <1>5, <1>6, <2>1, <2>2
      <4>. QED BY <1>3, <1>5, <4>1, RankGrows
    <3>3. Rank(us, 0) = 0 /\ Rank(us, 0) < Rank(us, k)
      <4>1. 0 \in 0 .. n /\ 0 < k BY <2>1
      <4>. QED BY <1>3, <4>1, RankGrows, RankNone
    <3>4. Rank(us, k) \in Nat /\ Rank(us, m) \in Nat BY <1>3, RankType
    <3>5. Rank(us, k) \in 1 .. Len(out) BY <1>4, <1>11, <3>2, <3>3, <3>4
    <3>. QED BY <1>10, <3>1, <3>5
  <2>3. CASE ~(k <= m)
    <3>1. m < k BY <1>4, <2>1, <2>3
    <3>2. q <= k BY <3>1 DEF NextPacket
    <3>3. k = q BY <1>6, <1>12, <2>1, <3>2
    <3>. QED BY <1>4, <1>7, <1>10, <1>11, <3>3
  <2>. QED BY <2>2, <2>3
<1>13. q \in 0 .. n /\ Len(new) = Rank(us, q) BY <1>4, <1>6, <1>10, <1>11
<1>. QED BY <1>2, <1>7, <1>9, <1>10, <1>12, <1>13 DEF PassedBy

(* It has gone on to the next packet, or to its start code.                *)
LEMMA PassedAt ==
  ASSUME NEW us, NEW only, NEW end, NEW m, NEW pos, NEW out,
         PassedBy(us, only, m, pos, out, end), NextAt(us, m) \in Nat
  PROVE  PassedBy(us, only, m, NextAt(us, m), out, end)
<1>1. PICK b \in Nat : b = NextAt(us, m) OBVIOUS
<1>2. b \in 0 .. b /\ Clear(FlattenSeq(us), b, b) BY DEF Clear
<1>. QED BY <1>1, <1>2 DEF PassedBy

-----------------------------------------------------------------------------
(* A parser that has been given the first end bytes, and given the packets *)
(* old before: it is between two packets, and ends when none has ended     *)
(* that it has not given.                                                  *)
PesParsed(us, only, end, old, p) ==
  /\ p.out \in Seq(Given) /\ p.pos <= end /\ p.over \in BOOLEAN
  /\ \E m : PassedBy(us, only, m, p.pos, old \o p.out, end)
            /\ (p.over => NoneEnded(us, only, m, end))

Halted(p, to) == [pos |-> to, out |-> p.out, over |-> TRUE]
Gave(p, packet, to, end) == [pos |-> to, out |-> Append(p.out, packet), over |-> to >= end]

LEMMA HaltedParsed ==
  ASSUME NEW us, NEW only, NEW end, NEW old, NEW p, p.out \in Seq(Given), NEW m, NEW to, to <= end,
         PassedBy(us, only, m, to, old \o p.out, end), NoneEnded(us, only, m, end)
  PROVE  PesParsed(us, only, end, old, Halted(p, to))
<1>1. PICK h : h = Halted(p, to) OBVIOUS
<1>2. h.out = p.out /\ h.pos = to /\ h.over = TRUE BY <1>1 DEF Halted
<1>. QED BY <1>1, <1>2 DEF PesParsed

LEMMA AppendLater ==
  ASSUME NEW S, NEW a \in Seq(S), NEW b \in Seq(S), NEW x \in S
  PROVE  a \o Append(b, x) = Append(a \o b, x)
OBVIOUS

LEMMA GaveParsed ==
  ASSUME NEW us, NEW only, GoodStream(us, only), NEW end \in Nat, NEW old \in Seq(Given),
         NEW p, p.out \in Seq(Given), NEW m, NEW pos, PassedBy(us, only, m, pos, old \o p.out, end),
         NEW q, NextPacket(us, m, q), Ended(us, only, q, end), NEW packet, packet = Due(us, only, q),
         NEW to \in Nat, to <= NextAt(us, q), NextAt(us, q) \in Nat,
         Clear(FlattenSeq(us), to, NextAt(us, q)), to <= end
  PROVE  PesParsed(us, only, end, old, Gave(p, packet, to, end))
<1>1. us \in Seq(PesUnits) /\ only \in BOOLEAN BY DEF GoodStream
<1>2. q \in PacketsOf(us) BY DEF NextPacket
<1>3. packet \in Given BY <1>2, DueType
<1>4. PICK g : g = Gave(p, packet, to, end) OBVIOUS
<1>5. g.out = Append(p.out, packet) /\ g.pos = to /\ g.over = (to >= end) BY <1>4 DEF Gave
<1>6. g.out \in Seq(Given) BY <1>3, <1>5, AppendProperties
<1>7. old \o g.out = Append(old \o p.out, packet) BY <1>3, <1>5, AppendLater
<1>8. to \in 0 .. NextAt(us, q) OBVIOUS
<1>9. PassedBy(us, only, q, g.pos, old \o g.out, end) BY <1>5, <1>7, <1>8, PassedOne
<1>10. ASSUME g.over PROVE NoneEnded(us, only, q, end)
  <2>1. to >= end BY <1>5, <1>10
  <2>2. end < NextAt(us, q) + 6 BY <2>1
  <2>3. q \in 0 .. Len(us) BY <1>1, <1>2, StreamType
  <2>. QED BY <1>1, <2>2, <2>3, NoneEndedYet
<1>11. g.over \in BOOLEAN BY <1>5
<1>. QED BY <1>4, <1>5, <1>6, <1>9, <1>10, <1>11 DEF PesParsed

-----------------------------------------------------------------------------
(* One turn of the loop.                                                   *)
LEMMA PesTurned ==
  ASSUME NEW us, NEW only, GoodStream(us, only), NEW end \in 0 .. Len(FlattenSeq(us)),
         NEW old \in Seq(Given), NEW p, PesParsed(us, only, end, old, p), ~p.over
  PROVE  /\ PesParsed(us, only, end, old, PesTurn(FlattenSeq(us), only, p, end))
         /\ \/ PesTurn(FlattenSeq(us), only, p, end).over
            \/ PesTurn(FlattenSeq(us), only, p, end).pos > p.pos
<1>1. us \in Seq(PesUnits) /\ only \in BOOLEAN BY DEF GoodStream
<1>2. PICK n \in Nat : n = Len(us) BY <1>1, StreamType
<1>3. /\ us \in Seq(Seq(0 .. 255)) /\ DOMAIN us = 1 .. n /\ PacketsOf(us) \subseteq 1 .. n
  BY <1>1, <1>2, StreamType
<1>4. PICK s : s = FlattenSeq(us) OBVIOUS
<1>5. Len(s) \in Nat /\ end \in Nat /\ end <= Len(s)
  <2>1. s \in Seq(0 .. 255) BY <1>3, <1>4, UnitsAdjoin
  <2>. QED BY <1>4, <2>1
<1>6. PICK m : PassedBy(us, only, m, p.pos, old \o p.out, end) BY DEF PesParsed
<1>7. PICK pos : pos = p.pos OBVIOUS
<1>8. PICK b : b = NextAt(us, m) OBVIOUS
<1>9. m \in 0 .. n /\ pos \in 0 .. b /\ Clear(s, pos, b) BY <1>2, <1>4, <1>6, <1>7, <1>8 DEF PassedBy
<1>10. b \in 0 .. Len(s) /\ b \in Nat /\ pos \in Nat /\ pos <= b /\ pos <= end
  <2>1. b \in 0 .. Len(s) BY <1>1, <1>2, <1>4, <1>8, <1>9, BeforeNext
  <2>2. pos <= end BY <1>7 DEF PesParsed
  <2>. QED BY <1>5, <1>9, <2>1, <2>2
<1>11. p.out \in Seq(Given) BY DEF PesParsed
<1>12. PICK i : i = Min(Found(s, pos, end)) OBVIOUS
<1>13. PICK plen : plen = PesLength(s, i) OBVIOUS
<1>14. PICK nexts : nexts = Found(s, i + 6, end) OBVIOUS
<1>15. PICK t : t = PesTurn(s, only, p, end) OBVIOUS
<1>16. t = IF Found(s, pos, end) = {} THEN Halted(p, pos)
           ELSE IF end - i < 6 THEN Halted(p, i)
           ELSE IF ~NoLength(plen)
           THEN IF end - i < plen + 6 THEN Halted(p, i)
                ELSE Gave(p, IF only THEN Payload(s, i, plen) ELSE [at |-> i, len |-> plen + 6],
                          i + plen + 6, end)
           ELSE IF ~only THEN Gave(p, [at |-> i, len |-> plen + 6], i + plen + 6, end)
           ELSE IF nexts = {} THEN Halted(p, i)
           ELSE Gave(p, PayloadUpTo(s, i, Min(nexts)), Min(nexts), end)
  <2>1. i = Min(Found(s, p.pos, end)) BY <1>7, <1>12
  <2>2. t = IF Found(s, p.pos, end) = {} THEN Halted(p, p.pos)
             ELSE IF end - i < 6 THEN Halted(p, i)
             ELSE IF ~NoLength(plen)
             THEN IF end - i < plen + 6 THEN Halted(p, i)
                  ELSE Gave(p, IF only THEN Payload(s, i, plen) ELSE [at |-> i, len |-> plen + 6],
                            i + plen + 6, end)
             ELSE IF ~only THEN Gave(p, [at |-> i, len |-> plen + 6], i + plen + 6, end)
             ELSE IF nexts = {} THEN Halted(p, i)
             ELSE Gave(p, PayloadUpTo(s, i, Min(nexts)), Min(nexts), end)
    BY <1>13, <1>14, <1>15, <2>1, Zenon DEF PesTurn, Halted, Gave
  <2>. QED BY ONLY <1>7, <2>2
<1>17. SUFFICES PesParsed(us, only, end, old, t) /\ (t.over \/ t.pos > pos) BY <1>4, <1>7, <1>15
<1>18. PassedBy(us, only, m, pos, old \o p.out, end) BY <1>6, <1>7
<1>19. PassedBy(us, only, m, b, old \o p.out, end) BY <1>6, <1>8, <1>10, PassedAt
<1>20. ASSUME NEW to, to \in {pos, b}, to <= end, t = Halted(p, to), NoneEnded(us, only, m, end)
       PROVE  PesParsed(us, only, end, old, t) /\ t.over
  <2>1. PesParsed(us, only, end, old, t) BY <1>11, <1>18, <1>19, <1>20, HaltedParsed
  <2>2. t.over BY <1>20 DEF Halted
  <2>. QED BY <2>1, <2>2
<1>21. CASE ~(b <= end - 5)
  <2>1. Found(s, pos, end) = {} BY <1>5, <1>9, <1>10, <1>21, FoundNone
  <2>2. t = Halted(p, pos) BY <1>16, <2>1
  <2>3. end < NextAt(us, m) + 6 BY <1>5, <1>8, <1>10, <1>21
  <2>4. NoneEnded(us, only, m, end) BY <1>1, <1>2, <1>5, <1>9, <2>3, NoneEndedYet
  <2>. QED BY <1>10, <1>20, <2>2, <2>4
<1>22. CASE b <= end - 5
  <2>1. PICK q \in 1 .. n : NextPacket(us, m, q) /\ b = UnitAt(us, q)
    <3>1. b # Len(FlattenSeq(us)) BY <1>4, <1>5, <1>10, <1>22
    <3>. QED BY <1>2, <1>3, <1>8, <1>9, <3>1, NextIs
  <2>2. q \in PacketsOf(us) BY <2>1 DEF NextPacket
  <2>3. PICK u : u = us[q] OBVIOUS
  <2>4. /\ u \in PesUnits /\ IsPacket(u) /\ b + Len(u) <= Len(s)
        /\ StartsPes(s, b) /\ PesLength(s, b) = PesLength(u, 0)
    BY <1>1, <1>4, <2>1, <2>2, <2>3, PacketIs
  <2>5. /\ PesLength(u, 0) \in Nat /\ Extent(u) \in 6 .. Len(u) /\ Len(u) \in Nat
        /\ Bounded(u) => Len(u) = PesLength(u, 0) + 6 /\ Extent(u) = Len(u)
    BY <2>4, UnitHead
  <2>6. Found(s, pos, end) # {} /\ i = b BY <1>5, <1>9, <1>10, <1>12, <1>22, <2>4, FoundFirst
  <2>7. plen = PesLength(u, 0) /\ plen \in Nat /\ (Bounded(u) <=> ~NoLength(plen))
    BY <1>13, <2>4, <2>5, <2>6 DEF Bounded
  <2>8. PICK c : c = NextAt(us, q) OBVIOUS
  <2>9. c \in Nat /\ c <= Len(s) /\ b + Extent(u) <= c /\ Clear(s, b + Extent(u), c)
    <3>1. PICK a : a = UnitAt(us, q) + Extent(us[q]) OBVIOUS
    <3>2. a \in 0 .. NextAt(us, q) /\ Clear(FlattenSeq(us), a, NextAt(us, q)) BY <2>2, <3>1, ClearBehind
    <3>3. a = b + Extent(u) BY <2>1, <2>3, <3>1
    <3>4. c \in 0 .. Len(s)
      <4>1. q \in 0 .. Len(us) BY <1>2
      <4>. QED BY <1>1, <1>4, <2>8, <4>1, BeforeNext
    <3>. QED BY <1>4, <1>5, <2>8, <3>2, <3>3, <3>4
  <2>10. Decodable(us, only) /\ Fits(us, only, q) BY <2>2 DEF GoodStream, Decodable
  (* A packet is not given.                                                *)
  <2>11. ASSUME t = Halted(p, b), ~Ended(us, only, q, end)
         PROVE  PesParsed(us, only, end, old, t) /\ (t.over \/ t.pos > pos)
    <3>1. NoneEnded(us, only, m, end) BY <1>1, <1>2, <1>5, <1>9, <2>1, <2>11, NoneEndedNext
    <3>2. b <= end BY <1>5, <1>10, <1>22
    <3>. QED BY <1>20, <2>11, <3>1, <3>2
  (* The packet is given.                                                  *)
  <2>12. ASSUME NEW packet, NEW to \in Nat, t = Gave(p, packet, to, end), Ended(us, only, q, end),
                packet = Due(us, only, q), b < to, to <= c, to <= end, Clear(s, to, c)
         PROVE  PesParsed(us, only, end, old, t) /\ (t.over \/ t.pos > pos)
    <3>1. PesParsed(us, only, end, old, t)
      BY <1>4, <1>5, <1>11, <1>18, <2>1, <2>8, <2>9, <2>12, GaveParsed
    <3>2. t.pos = to BY <2>12 DEF Gave
    <3>. QED BY <1>10, <2>12, <3>1, <3>2
  <2>13. CASE end - b < 6
    <3>1. t = Halted(p, b) BY <1>16, <2>6, <2>13
    <3>2. ~Ended(us, only, q, end)
      <4>1. SUFFICES ASSUME Ended(us, only, q, end) PROVE FALSE OBVIOUS
      <4>2. UnitAt(us, q) + 6 <= end BY <1>1, <1>5, <2>2, <4>1, EndedFar
      <4>. QED BY <1>5, <1>10, <2>1, <2>13, <4>2
    <3>. QED BY <2>11, <3>1, <3>2
  <2>14. CASE ~(end - b < 6) /\ Bounded(u)
    <3>1. Ended(us, only, q, end) <=> end >= b + Extent(u) BY <2>1, <2>3, <2>14 DEF Ended
    <3>2. Extent(u) = plen + 6 BY <2>5, <2>7, <2>14
    <3>3. CASE end - b < plen + 6
      <4>1. t = Halted(p, b) BY <1>16, <2>6, <2>7, <2>14, <3>3
      <4>2. ~(end >= b + Extent(u)) BY <1>5, <1>10, <2>7, <3>2, <3>3
      <4>. QED BY <2>11, <3>1, <4>1, <4>2
    <3>4. CASE ~(end - b < plen + 6)
      <4>1. PICK packet : packet = IF only THEN Payload(s, b, plen) ELSE [at |-> b, len |-> plen + 6]
        OBVIOUS
      <4>2. t = Gave(p, packet, b + plen + 6, end) BY <1>16, <2>6, <2>7, <2>14, <3>4, <4>1
      <4>3. packet = Due(us, only, q) BY <1>4, <2>1, <2>3, <2>7, <2>14, <4>1 DEF Due
      <4>4. PICK to \in Nat : to = b + plen + 6
        <5>1. b + plen + 6 \in Nat BY <1>10, <2>7
        <5>. QED BY <5>1
      <4>5. to = b + Extent(u) /\ b < to /\ to <= end BY <1>5, <1>10, <2>7, <3>2, <3>4, <4>4
      <4>6. Ended(us, only, q, end) BY <1>5, <3>1, <4>5
      <4>. QED BY <2>9, <2>12, <4>2, <4>3, <4>4, <4>5, <4>6
    <3>. QED BY <3>3, <3>4
  <2>15. CASE ~(end - b < 6) /\ ~Bounded(u) /\ ~only
    <3>1. Ended(us, only, q, end) <=> end >= b + Extent(u) BY <2>1, <2>3, <2>15 DEF Ended
    <3>2. Extent(u) = 6 BY <2>15 DEF Extent
    <3>3. plen = 0
      <4>1. PesLength(us[q], 0) # AllOnes BY <2>10, <2>15 DEF Fits
      <4>. QED BY <2>3, <2>7, <2>15, <4>1 DEF NoLength
    <3>4. PICK packet : packet = [at |-> b, len |-> plen + 6] OBVIOUS
    <3>5. t = Gave(p, packet, b + plen + 6, end) BY <1>16, <2>6, <2>7, <2>15, <3>4
    <3>6. packet = Due(us, only, q) BY <2>1, <2>3, <2>7, <2>15, <3>4 DEF Due
    <3>7. PICK to \in Nat : to = b + plen + 6
      <4>1. b + plen + 6 \in Nat BY <1>10, <2>7
      <4>. QED BY <4>1
    <3>8. to = b + Extent(u) /\ b < to /\ to <= end BY <1>5, <1>10, <2>15, <3>2, <3>3, <3>7
    <3>9. Ended(us, only, q, end) BY <1>5, <3>1, <3>8
    <3>. QED BY <2>9, <2>12, <3>5, <3>6, <3>7, <3>8, <3>9
  <2>16. CASE ~(end - b < 6) /\ ~Bounded(u) /\ only
    <3>1. Ended(us, only, q, end) <=> c < Len(s) /\ end >= c + 5
      BY <1>4, <2>3, <2>8, <2>16 DEF Ended
    <3>2. Extent(u) = 6 BY <2>16 DEF Extent
    <3>3. b + 6 \in Nat /\ b + 6 <= c /\ Clear(s, b + 6, c) BY <1>10, <2>9, <3>2
    <3>4. nexts = Found(s, b + 6, end) BY <1>14, <2>6
    <3>5. CASE ~(c <= end - 5)
      <4>1. nexts = {} BY <1>5, <2>9, <3>3, <3>4, <3>5, FoundNone
      <4>2. t = Halted(p, b) BY <1>16, <2>6, <2>7, <2>16, <4>1
      <4>3. ~Ended(us, only, q, end) BY <1>5, <2>9, <3>1, <3>5
      <4>. QED BY <2>11, <4>2, <4>3
    <3>6. CASE c <= end - 5
      <4>1. c < Len(s) /\ c <= end /\ b < c BY <1>5, <1>10, <2>9, <3>3, <3>6
      <4>2. PICK r \in 1 .. n : NextPacket(us, q, r) /\ c = UnitAt(us, r)
        <5>1. c # Len(FlattenSeq(us)) BY <1>4, <1>5, <2>9, <4>1
        <5>2. q \in 0 .. n OBVIOUS
        <5>. QED BY <1>2, <1>3, <2>8, <5>1, <5>2, NextIs
      <4>3. StartsPes(s, c)
        <5>1. r \in PacketsOf(us) BY <4>2 DEF NextPacket
        <5>. QED BY <1>1, <1>4, <4>2, <5>1, PacketIs
      <4>4. nexts # {} /\ Min(nexts) = c BY <1>5, <2>9, <3>3, <3>4, <3>6, <4>3, FoundFirst
      <4>5. PICK packet : packet = PayloadUpTo(s, b, c) OBVIOUS
      <4>6. t = Gave(p, packet, c, end) BY <1>16, <2>6, <2>7, <2>16, <4>4, <4>5
      <4>7. packet = Due(us, only, q) BY <1>4, <2>1, <2>3, <2>8, <2>16, <4>5 DEF Due
      <4>8. Ended(us, only, q, end) BY <1>5, <2>9, <3>1, <3>6, <4>1
      <4>9. Clear(s, c, c) BY <2>9 DEF Clear
      <4>. QED BY <2>9, <2>12, <4>1, <4>6, <4>7, <4>8, <4>9
    <3>. QED BY <3>5, <3>6
  <2>. QED BY <1>1, <2>13, <2>14, <2>15, <2>16
<1>. QED BY <1>21, <1>22

-----------------------------------------------------------------------------
(* The loop has a trace.                                                   *)
LoopBegin(base) == [pos |-> base, out |-> <<>>, over |-> FALSE]
LoopTurn(s, only, p, end) == IF p.over THEN p ELSE PesTurn(s, only, p, end)
IsLoop(f, s, only, base, end, n) ==
  f = [k \in 0 .. n |-> IF k = 0 THEN LoopBegin(base) ELSE LoopTurn(s, only, f[k - 1], end)]

LEMMA LoopAt ==
  ASSUME NEW f, NEW s, NEW only, NEW base, NEW end, NEW n \in Nat, IsLoop(f, s, only, base, end, n)
  PROVE  /\ f[0] = LoopBegin(base)
         /\ \A k \in 1 .. n : f[k] = LoopTurn(s, only, f[k - 1], end)
<1>1. f = [k \in 0 .. n |-> IF k = 0 THEN LoopBegin(base) ELSE LoopTurn(s, only, f[k - 1], end)]
  BY DEF IsLoop
<1>2. ASSUME NEW k \in 0 .. n
      PROVE  f[k] = IF k = 0 THEN LoopBegin(base) ELSE LoopTurn(s, only, f[k - 1], end)
  BY <1>1
<1>3. 0 \in 0 .. n /\ \A k \in 1 .. n : k \in 0 .. n /\ k # 0 OBVIOUS
<1>. QED BY <1>2, <1>3

LEMMA LoopExists ==
  ASSUME NEW s, NEW only, NEW base, NEW end, NEW n \in Nat
  PROVE  \E f : IsLoop(f, s, only, base, end, n)
<1>1. PICK S \in SUBSET Nat : S = {k \in Nat : ~\E f : IsLoop(f, s, only, base, end, k)} OBVIOUS
<1>2. SUFFICES ASSUME S # {} PROVE FALSE BY <1>1
<1>3. PICK k \in S : \A m \in S : ~(m < k) BY <1>2, LeastNat
<1>4. k # 0
  <2>1. PICK f : f = [m \in 0 .. 0 |-> LoopBegin(base)] OBVIOUS
  <2>2. f = [m \in 0 .. 0 |-> IF m = 0 THEN LoopBegin(base) ELSE LoopTurn(s, only, f[m - 1], end)]
    BY <2>1
  <2>. QED BY <1>1, <2>2 DEF IsLoop
<1>5. PICK j \in Nat : k = j + 1
  <2>1. k - 1 \in Nat /\ k = (k - 1) + 1 BY <1>4
  <2>. QED BY <2>1
<1>6. j \notin S BY <1>3, <1>5
<1>7. PICK f : IsLoop(f, s, only, base, end, j) BY <1>1, <1>6
<1>8. f[0] = LoopBegin(base) /\ \A m \in 1 .. j : f[m] = LoopTurn(s, only, f[m - 1], end)
  BY <1>7, LoopAt
<1>9. PICK x : x = LoopTurn(s, only, f[j], end) OBVIOUS
<1>10. PICK g : g = [m \in 0 .. k |-> IF m = k THEN x ELSE f[m]] OBVIOUS
<1>11. ASSUME NEW m \in 0 .. k
       PROVE  g[m] = IF m = 0 THEN LoopBegin(base) ELSE LoopTurn(s, only, g[m - 1], end)
  <2>1. CASE m = 0 BY <1>4, <1>8, <1>10, <2>1
  <2>2. CASE m = k
    <3>1. j \in 0 .. k /\ j # k /\ m - 1 = j BY <1>5, <2>2
    <3>2. g[j] = f[j] BY <1>10, <3>1
    <3>. QED BY <1>4, <1>9, <1>10, <2>2, <3>1, <3>2
  <2>3. CASE m # 0 /\ m # k
    <3>1. m \in 1 .. j /\ m - 1 \in 0 .. k /\ m - 1 # k BY <1>5, <2>3
    <3>2. g[m] = f[m] /\ g[m - 1] = f[m - 1] BY <1>10, <2>3, <3>1
    <3>. QED BY <1>8, <2>3, <3>1, <3>2
  <2>. QED BY <2>1, <2>2, <2>3
<1>12. g = [m \in 0 .. k |-> IF m = 0 THEN LoopBegin(base) ELSE LoopTurn(s, only, g[m - 1], end)]
  BY <1>10, <1>11
<1>. QED BY <1>1, <1>12 DEF IsLoop

LEMMA DecodedIsLooped ==
  ASSUME NEW s, NEW only, NEW base, NEW end, NEW n \in Nat, n = end + 1
  PROVE  \E f : IsLoop(f, s, only, base, end, n) /\ Decoded(s, only, base, end) = f[n]
<1>1. PICK f :
        f = CHOOSE g : g = [k \in 0 .. end + 1 |->
                               IF k = 0 THEN [pos |-> base, out |-> <<>>, over |-> FALSE]
                               ELSE IF g[k - 1].over THEN g[k - 1] ELSE PesTurn(s, only, g[k - 1], end)]
  OBVIOUS
<1>2. \E g : g = [k \in 0 .. end + 1 |->
                     IF k = 0 THEN [pos |-> base, out |-> <<>>, over |-> FALSE]
                     ELSE IF g[k - 1].over THEN g[k - 1] ELSE PesTurn(s, only, g[k - 1], end)]
  <2>1. PICK g : IsLoop(g, s, only, base, end, end + 1) BY LoopExists
  <2>. QED BY <2>1 DEF IsLoop, LoopBegin, LoopTurn
<1>3. f = [k \in 0 .. end + 1 |->
              IF k = 0 THEN [pos |-> base, out |-> <<>>, over |-> FALSE]
              ELSE IF f[k - 1].over THEN f[k - 1] ELSE PesTurn(s, only, f[k - 1], end)]
  BY <1>1, <1>2
<1>4. Decoded(s, only, base, end) = f[end + 1] BY <1>1 DEF Decoded
<1>5. IsLoop(f, s, only, base, end, end + 1) BY <1>3 DEF IsLoop, LoopBegin, LoopTurn
<1>. QED BY <1>4, <1>5

(* The loop ends: every turn that does not end it goes on in the stream.   *)
LEMMA LoopParsed ==
  ASSUME NEW us, NEW only, GoodStream(us, only), NEW end \in 0 .. Len(FlattenSeq(us)),
         NEW old \in Seq(Given), NEW base, PesParsed(us, only, end, old, LoopBegin(base)),
         NEW s, s = FlattenSeq(us)
  PROVE  /\ PesParsed(us, only, end, old, Decoded(s, only, base, end))
         /\ Decoded(s, only, base, end).over
<1>1. end \in Nat OBVIOUS
<1>2. PICK n \in Nat : n = end + 1
  <2>1. end + 1 \in Nat BY <1>1
  <2>. QED BY <2>1
<1>3. PICK f : IsLoop(f, s, only, base, end, n) /\ Decoded(s, only, base, end) = f[n]
  BY <1>2, DecodedIsLooped
<1>4. f[0] = LoopBegin(base) /\ \A k \in 1 .. n : f[k] = LoopTurn(s, only, f[k - 1], end)
  BY <1>3, LoopAt
<1>5. ASSUME NEW p, PesParsed(us, only, end, old, p)
      PROVE  p.pos \in Nat /\ p.pos <= end /\ p.over \in BOOLEAN
  <2>1. PICK m : PassedBy(us, only, m, p.pos, old \o p.out, end) BY <1>5 DEF PesParsed
  <2>2. PICK b : b = NextAt(us, m) OBVIOUS
  <2>3. p.pos \in 0 .. b BY <2>1, <2>2 DEF PassedBy
  <2>. QED BY <1>5, <2>3 DEF PesParsed
<1>6. PICK B \in SUBSET Nat :
        B = {k \in 0 .. n : ~(PesParsed(us, only, end, old, f[k]) /\ (f[k].over \/ f[k].pos >= k))}
  <2>1. {k \in 0 .. n : ~(PesParsed(us, only, end, old, f[k]) /\ (f[k].over \/ f[k].pos >= k))}
          \subseteq Nat
    OBVIOUS
  <2>. QED BY <2>1
<1>7. B = {}
  <2>. SUFFICES ASSUME B # {} PROVE FALSE OBVIOUS
  <2>1. PICK k \in B : \A j \in B : ~(j < k) BY LeastNat
  <2>2. k \in 0 .. n /\ ~(PesParsed(us, only, end, old, f[k]) /\ (f[k].over \/ f[k].pos >= k))
    BY <1>6, <2>1
  <2>3. CASE k = 0
    <3>1. PesParsed(us, only, end, old, f[k]) BY <1>4, <2>3
    <3>2. f[k].pos \in Nat BY <1>5, <3>1
    <3>. QED BY <2>2, <2>3, <3>1, <3>2
  <2>4. CASE k # 0
    <3>1. k \in 1 .. n /\ k - 1 \in 0 .. n /\ k - 1 < k BY <2>2, <2>4
    <3>2. PICK p : p = f[k - 1] OBVIOUS
    <3>3. PesParsed(us, only, end, old, p) /\ (p.over \/ p.pos >= k - 1) BY <1>6, <2>1, <3>1, <3>2
    <3>4. f[k] = LoopTurn(s, only, p, end) BY <1>4, <3>1, <3>2
    <3>5. CASE p.over
      <4>1. f[k] = p BY <3>4, <3>5 DEF LoopTurn
      <4>. QED BY <2>2, <3>3, <3>5, <4>1
    <3>6. CASE ~p.over
      <4>1. PICK t : t = PesTurn(s, only, p, end) OBVIOUS
      <4>2. f[k] = t BY <3>4, <3>6, <4>1 DEF LoopTurn
      <4>3. PesParsed(us, only, end, old, t) /\ (t.over \/ t.pos > p.pos)
        BY <3>3, <3>6, <4>1, PesTurned
      <4>4. t.pos \in Nat /\ p.pos \in Nat BY <1>5, <3>3, <4>3
      <4>5. t.over \/ t.pos >= k BY <3>1, <3>3, <3>6, <4>3, <4>4
      <4>. QED BY <2>2, <4>2, <4>3, <4>5
    <3>. QED BY <3>5, <3>6
  <2>. QED BY <2>3, <2>4
<1>8. n \in 0 .. n OBVIOUS
<1>9. PesParsed(us, only, end, old, f[n]) /\ (f[n].over \/ f[n].pos >= n) BY <1>6, <1>7, <1>8
<1>10. f[n].pos \in Nat /\ f[n].pos <= end BY <1>5, <1>9
<1>11. f[n].over BY <1>1, <1>2, <1>9, <1>10
<1>. QED BY <1>3, <1>9, <1>11

-----------------------------------------------------------------------------
(* What PesDecode keeps: the packets given are those of the units passed,  *)
(* and none of the others has ended.                                       *)
PesInv ==
  /\ PesTypeOK /\ GoodStream(units, payloadOnly) /\ packets \in Seq(Given)
  /\ \E m : PassedBy(units, payloadOnly, m, pesBase, packets, pesFed)
            /\ NoneEnded(units, payloadOnly, m, pesFed)

LEMMA PesInvInit == PesInit => PesInv
<1>. SUFFICES ASSUME PesInit PROVE PesInv OBVIOUS
<1>1. PICK us, only : us = units /\ only = payloadOnly OBVIOUS
<1>2. /\ us \in BoundedSeq(PesUnits, MaxUnits) /\ only \in BOOLEAN /\ Decodable(us, only)
      /\ pesFed = 0 /\ pesBase = 0 /\ packets = <<>>
  BY <1>1 DEF PesInit
<1>3. us \in Seq(PesUnits)
  <2>1. PICK l \in 0 .. MaxUnits : us \in [1 .. l -> PesUnits]
    <3>1. us \in UNION {[1 .. l -> PesUnits] : l \in 0 .. MaxUnits} BY <1>2 DEF BoundedSeq, SeqOf
    <3>. QED BY <3>1
  <2>2. l \in Nat BY PesAssumption
  <2>. QED BY <2>1, <2>2
<1>4. GoodStream(us, only) BY <1>2, <1>3 DEF GoodStream
<1>5. PICK n \in Nat : n = Len(us) BY <1>3, StreamType
<1>6. us \in Seq(Seq(0 .. 255)) /\ DOMAIN us = 1 .. n /\ PacketsOf(us) \subseteq 1 .. n
  BY <1>3, <1>5, StreamType
<1>7. Len(FlattenSeq(us)) \in Nat
  <2>1. FlattenSeq(us) \in Seq(0 .. 255) BY <1>6, UnitsAdjoin
  <2>. QED BY <2>1
<1>8. 0 \in 0 .. n /\ 0 \in Nat OBVIOUS
<1>9. NextAt(us, 0) \in Nat
  <2>1. NextAt(us, 0) \in 0 .. Len(FlattenSeq(us)) BY <1>3, <1>5, <1>8, BeforeNext
  <2>. QED BY <2>1
<1>10. \A k \in PacketsOf(us) : ~(k <= 0) BY <1>6
<1>11. Clear(FlattenSeq(us), 0, NextAt(us, 0)) BY <1>4, <1>5, <1>8, <1>10, ClearBetween
<1>12. Rank(us, 0) = 0 BY <1>6, RankNone
<1>13. PassedBy(us, only, 0, 0, <<>>, 0)
  <2>1. <<>> \in Seq(Given) /\ Len(<<>>) = Rank(us, 0) BY <1>12
  <2>2. 0 \in 0 .. NextAt(us, 0) BY <1>9
  <2>. QED BY <1>5, <1>8, <1>10, <1>11, <2>1, <2>2 DEF PassedBy
<1>14. NoneEnded(us, only, 0, 0)
  <2>1. 0 < NextAt(us, 0) + 6 BY <1>9
  <2>. QED BY <1>2, <1>3, <1>5, <1>8, <2>1, NoneEndedYet
<1>15. PesTypeOK BY <1>1, <1>2, <1>3, <1>7 DEF PesTypeOK, Stream
<1>16. packets \in Seq(Given) BY <1>2
<1>. QED BY <1>1, <1>2, <1>4, <1>13, <1>14, <1>15, <1>16 DEF PesInv

LEMMA PesInvDecode ==
  ASSUME PesInv, PesDecode
  PROVE  PesInv'
<1>1. PICK us, only, old : us = units /\ only = payloadOnly /\ old = packets OBVIOUS
<1>2. PICK fed, end : fed = pesFed /\ end = pesFed' OBVIOUS
<1>3. units' = us /\ payloadOnly' = only BY <1>1 DEF PesDecode
<1>4. GoodStream(us, only) /\ old \in Seq(Given) BY <1>1 DEF PesInv
<1>5. us \in Seq(PesUnits) /\ only \in BOOLEAN BY <1>4 DEF GoodStream
<1>6. PICK s : s = FlattenSeq(us) OBVIOUS
<1>7. Len(s) \in Nat
  <2>1. us \in Seq(Seq(0 .. 255)) BY <1>5, StreamType
  <2>2. s \in Seq(0 .. 255) BY <1>6, <2>1, UnitsAdjoin
  <2>. QED BY <2>2
<1>8. fed \in 0 .. Len(s) /\ pesBase \in 0 .. fed
  BY <1>1, <1>2, <1>6 DEF PesInv, PesTypeOK, Stream
<1>9. end \in 0 .. Len(s) /\ fed <= end
  <2>1. PICK n \in 1 .. MaxChunk : fed + n <= Len(s) /\ end = fed + n
    BY <1>1, <1>2, <1>6 DEF PesDecode, Stream
  <2>2. MaxChunk \in Nat BY PesAssumption
  <2>. QED BY <1>7, <1>8, <2>1, <2>2
<1>10. fed \in Nat /\ end \in Nat /\ pesBase \in Nat /\ pesBase <= end BY <1>7, <1>8, <1>9
<1>11. PICK m : PassedBy(us, only, m, pesBase, old, fed) BY <1>1, <1>2 DEF PesInv
<1>12. PassedBy(us, only, m, pesBase, old, end)
  <2>1. ASSUME NEW k \in PacketsOf(us), k <= m
        PROVE  old[Rank(us, k)] = Due(us, only, k) /\ Ended(us, only, k, end)
    <3>1. old[Rank(us, k)] = Due(us, only, k) /\ Ended(us, only, k, fed)
      BY <1>11, <2>1 DEF PassedBy
    <3>. QED BY <1>5, <1>9, <1>10, <3>1, EndedLater
  <2>. QED BY <1>11, <2>1 DEF PassedBy
<1>13. PesParsed(us, only, end, old, LoopBegin(pesBase))
  <2>1. PICK p : p = LoopBegin(pesBase) OBVIOUS
  <2>2. p.out = <<>> /\ p.pos = pesBase /\ p.over = FALSE BY <2>1 DEF LoopBegin
  <2>3. old \o p.out = old BY <1>4, <2>2, ConcatEmptySeq
  <2>4. p.out \in Seq(Given) BY <2>2
  <2>. QED BY <1>10, <1>12, <2>1, <2>2, <2>3, <2>4 DEF PesParsed
<1>14. PICK p : p = Decoded(s, only, pesBase, end) OBVIOUS
<1>15. PesParsed(us, only, end, old, p) /\ p.over
  BY <1>4, <1>6, <1>9, <1>13, <1>14, LoopParsed
<1>16. pesBase' = p.pos /\ packets' = old \o p.out
  BY <1>1, <1>2, <1>6, <1>14 DEF PesDecode, Stream
<1>17. PICK q : PassedBy(us, only, q, p.pos, old \o p.out, end) /\ NoneEnded(us, only, q, end)
  BY <1>15 DEF PesParsed
<1>18. packets' \in Seq(Given) BY <1>16, <1>17 DEF PassedBy
<1>19. pesBase' \in 0 .. end
  <2>1. p.pos <= end BY <1>15 DEF PesParsed
  <2>2. PICK b : b = NextAt(us, q) OBVIOUS
  <2>3. p.pos \in 0 .. b BY <1>17, <2>2 DEF PassedBy
  <2>. QED BY <1>10, <1>16, <2>1, <2>3
<1>20. \A k \in DOMAIN packets' : packets'[k] \in [at : Nat, len : Nat]
  <2>1. PICK new : new = packets' OBVIOUS
  <2>2. new \in Seq(Given) BY <1>18, <2>1
  <2>3. \A k \in DOMAIN new : new[k] \in Given BY <2>2
  <2>. QED BY <2>1, <2>3 DEF Given
<1>21. PesTypeOK' BY <1>2, <1>3, <1>5, <1>6, <1>9, <1>19, <1>20 DEF PesTypeOK, Stream
<1>22. \E k : PassedBy(us, only, k, pesBase', packets', end) /\ NoneEnded(us, only, k, end)
  BY <1>16, <1>17
<1>23. \E k : PassedBy(units', payloadOnly', k, pesBase', packets', pesFed')
              /\ NoneEnded(units', payloadOnly', k, pesFed')
  BY ONLY <1>2, <1>3, <1>22
<1>24. GoodStream(units', payloadOnly') BY <1>3, <1>4
<1>. QED BY <1>18, <1>21, <1>23, <1>24 DEF PesInv

(* What was given is then what is asked of it.                             *)
LEMMA WholeWhenPassed ==
  ASSUME NEW us, NEW only, GoodStream(us, only), NEW m, NEW pos, NEW out, NEW end,
         PassedBy(us, only, m, pos, out, end), NoneEnded(us, only, m, end)
  PROVE  out = [x \in 1 .. Cardinality({k \in PacketsOf(us) : Ended(us, only, k, end)}) |->
                  Due(us, only,
                      CHOOSE k \in PacketsOf(us) : x = Cardinality({j \in PacketsOf(us) : j <= k}))]
<1>1. us \in Seq(PesUnits) BY DEF GoodStream
<1>2. PICK n \in Nat : n = Len(us) BY <1>1, StreamType
<1>3. DOMAIN us = 1 .. n /\ PacketsOf(us) \subseteq 1 .. n BY <1>1, <1>2, StreamType
<1>4. m \in 0 .. n /\ out \in Seq(Given) /\ Len(out) = Rank(us, m) BY <1>2 DEF PassedBy
<1>5. ASSUME NEW k \in PacketsOf(us) PROVE Ended(us, only, k, end) <=> k <= m
  <2>1. CASE k <= m BY <2>1 DEF PassedBy
  <2>2. CASE ~(k <= m)
    <3>1. m < k BY <1>3, <1>4, <2>2
    <3>. QED BY <2>2, <3>1 DEF NoneEnded
  <2>. QED BY <2>1, <2>2
<1>6. {k \in PacketsOf(us) : Ended(us, only, k, end)} = {k \in PacketsOf(us) : k <= m} BY <1>5
<1>7. PICK r \in Nat : r = Rank(us, m)
  <2>1. Rank(us, m) \in Nat BY <1>3, RankType
  <2>. QED BY <2>1
<1>8. Cardinality({k \in PacketsOf(us) : Ended(us, only, k, end)}) = r BY <1>6, <1>7 DEF Rank
<1>9. ASSUME NEW x \in 1 .. r
      PROVE  out[x] = Due(us, only, CHOOSE k \in PacketsOf(us) : x = Cardinality({j \in PacketsOf(us) : j <= k}))
  <2>1. PICK k \in PacketsOf(us) : k <= m /\ Rank(us, k) = x BY <1>3, <1>4, <1>7, RankReached
  <2>2. PICK c : c = CHOOSE i \in PacketsOf(us) : x = Rank(us, i) OBVIOUS
  <2>3. c \in PacketsOf(us) /\ x = Rank(us, c) BY <2>1, <2>2
  <2>4. c = k BY <1>3, <2>1, <2>3, RankOnce
  <2>5. out[x] = Due(us, only, k) BY <2>1 DEF PassedBy
  <2>6. c = CHOOSE i \in PacketsOf(us) : x = Cardinality({j \in PacketsOf(us) : j <= i})
    BY <2>2 DEF Rank
  <2>. QED BY <2>4, <2>5, <2>6
<1>10. out = [x \in 1 .. r |-> out[x]] BY <1>4, <1>7
<1>11. out = [x \in 1 .. r |->
                Due(us, only,
                    CHOOSE k \in PacketsOf(us) : x = Cardinality({j \in PacketsOf(us) : j <= k}))]
  BY <1>9, <1>10
<1>. QED BY <1>8, <1>11

(***************************************************************************)
(* What AM_PES_Decode gives to its callback: every packet whose end has    *)
(* come, in order, once, and nothing else, wherever the stream is cut into *)
(* calls.  For any units, any packets' lengths and any lengths of calls.   *)
(***************************************************************************)
THEOREM PacketsAreWhole == PesSpec => [](PesTypeOK /\ PacketsWhole)
<1>1. PesInit => PesInv BY PesInvInit
<1>2. PesInv /\ [PesNext]_pesVars => PesInv'
  <2>. SUFFICES ASSUME PesInv, [PesNext]_pesVars PROVE PesInv' OBVIOUS
  <2>1. CASE PesDecode BY <2>1, PesInvDecode
  <2>2. CASE UNCHANGED pesVars
    BY <2>2 DEF pesVars, PesInv, PesTypeOK, Stream
  <2>. QED BY <2>1, <2>2 DEF PesNext
<1>3. PesInv => PesTypeOK /\ PacketsWhole
  <2>. SUFFICES ASSUME PesInv PROVE PesTypeOK /\ PacketsWhole OBVIOUS
  <2>1. PacketsWhole BY WholeWhenPassed DEF PesInv, PacketsWhole
  <2>. QED BY <2>1 DEF PesInv
<1>. QED BY <1>1, <1>2, <1>3, PTL DEF PesSpec

(***************************************************************************)
(* The two parsers together.                                               *)
(***************************************************************************)
THEOREM BothAreWhole == SectionAsmSpec /\ PesSpec => []AssembledWhole
<1>1. SectionsWhole /\ PacketsWhole => AssembledWhole BY DEF AssembledWhole
<1>. QED BY <1>1, SectionsAreWhole, PacketsAreWhole, PTL
=============================================================================
