--------------------------- MODULE ReassemblyProofs ---------------------------
(***************************************************************************)
(* Code taken apart and put together again is what it was, for every file, *)
(* every --limits, every way to dump data and whatever a look-up beyond a  *)
(* table reads: what Reassembly checks for every entry of the tables with  *)
(* a few operands, proved for every word and for files of any length.      *)
(*                                                                         *)
(* The first half is about Codec: immediates lie where they are taken      *)
(* from, no operation writes a field that is used to find it, and so what  *)
(* an encoded word is decoded to is the operation it was encoded from.     *)
(* The second half is about the script and the file assembled onto.        *)
(***************************************************************************)
EXTENDS Reassembly, SequenceLemmas, FiniteSetTheorems

Byte == 0 .. 255

Words == [opcode : 0 .. 63, rs : 0 .. 31, rt : 0 .. 31, rd : 0 .. 31,
          sa : 0 .. 31, funct : 0 .. 63]

(* Four bytes of a file make a word.                                       *)
LEMMA WordOfFile ==
  ASSUME NEW b \in Seq(Byte), NEW p \in Nat, p + 4 <= Len(b)
  PROVE  WordAt(b, p) \in Words
<1> DEFINE b1 == b[p + 1]
           b2 == b[p + 2]
           b3 == b[p + 3]
           b4 == b[p + 4]
<1>1. p + 1 \in 1 .. Len(b) /\ p + 2 \in 1 .. Len(b) /\ p + 3 \in 1 .. Len(b)
      /\ p + 4 \in 1 .. Len(b)
  OBVIOUS
<1>2. b1 \in Byte /\ b2 \in Byte /\ b3 \in Byte /\ b4 \in Byte
  BY <1>1
<1>3. WordAt(b, p) =
        [funct |-> b1 % 64, sa |-> b1 \div 64 + 4 * (b2 % 8), rd |-> b2 \div 8,
         rt |-> b3 % 32, rs |-> b3 \div 32 + 8 * (b4 % 4), opcode |-> b4 \div 4]
  BY DEF WordAt
<1> HIDE DEF b1, b2, b3, b4
<1>4. /\ b1 % 64 \in 0 .. 63 /\ b1 \div 64 + 4 * (b2 % 8) \in 0 .. 31
      /\ b2 \div 8 \in 0 .. 31 /\ b3 % 32 \in 0 .. 31
      /\ b3 \div 32 + 8 * (b4 % 4) \in 0 .. 31 /\ b4 \div 4 \in 0 .. 63
  BY <1>2 DEF Byte
<1>5. QED
  BY <1>3, <1>4 DEF Words

(* A word is its four bytes.                                               *)
LEMMA WordOfItsBytes ==
  ASSUME NEW w \in Words
  PROVE  /\ BytesOf(w) \in Seq(Byte)
         /\ Len(BytesOf(w)) = 4
         /\ \A f, p : (\A k \in 1 .. 4 : f[p + k] = BytesOf(w)[k]) => WordAt(f, p) = w
<1> DEFINE b1 == w.funct + 64 * (w.sa % 4)
           b2 == w.sa \div 4 + 8 * w.rd
           b3 == w.rt + 32 * (w.rs % 8)
           b4 == w.rs \div 8 + 4 * w.opcode
<1>1. /\ w.funct \in 0 .. 63 /\ w.sa \in 0 .. 31 /\ w.rd \in 0 .. 31
      /\ w.rt \in 0 .. 31 /\ w.rs \in 0 .. 31 /\ w.opcode \in 0 .. 63
      /\ w = [funct |-> w.funct, sa |-> w.sa, rd |-> w.rd, rt |-> w.rt,
              rs |-> w.rs, opcode |-> w.opcode]
  BY DEF Words
<1>2. b1 \in Byte /\ b2 \in Byte /\ b3 \in Byte /\ b4 \in Byte
  BY <1>1 DEF Byte
<1>3. /\ b1 % 64 = w.funct /\ b1 \div 64 + 4 * (b2 % 8) = w.sa /\ b2 \div 8 = w.rd
      /\ b3 % 32 = w.rt /\ b3 \div 32 + 8 * (b4 % 4) = w.rs /\ b4 \div 4 = w.opcode
  BY <1>1
<1>4. BytesOf(w) = <<b1, b2, b3, b4>>
  BY DEF BytesOf
<1> HIDE DEF b1, b2, b3, b4
<1>5. BytesOf(w) \in Seq(Byte) /\ Len(BytesOf(w)) = 4
  BY <1>2, <1>4
<1>6. ASSUME NEW f, NEW p, \A k \in 1 .. 4 : f[p + k] = BytesOf(w)[k]
      PROVE  WordAt(f, p) = w
  <2>1. f[p + 1] = b1 /\ f[p + 2] = b2 /\ f[p + 3] = b3 /\ f[p + 4] = b4
    BY <1>4, <1>6
  <2>2. WordAt(f, p) =
          [funct |-> b1 % 64, sa |-> b1 \div 64 + 4 * (b2 % 8), rd |-> b2 \div 8,
           rt |-> b3 % 32, rs |-> b3 \div 32 + 8 * (b4 % 4), opcode |-> b4 \div 4]
    BY <2>1 DEF WordAt
  <2>3. QED
    BY <1>1, <1>3, <2>2
<1>7. QED
  BY <1>5, <1>6
-----------------------------------------------------------------------------
(* A line of the script fills the place from a to b of the file.           *)
Fits(l, a, b) ==
  /\ l.at \in Nat /\ dasm_sta <= l.at /\ l.at + 4 <= Len(file)
  /\ l.at <= a /\ a < b /\ b <= l.at + 4
  /\ l.kind \in {"insn", "invalid", "data"}
  /\ l.kind # "data" => a = l.at /\ b = l.at + 4
  /\ l.kind = "data" =>
       /\ l.bytes \in Seq(Byte) /\ b = a + Len(l.bytes)
       /\ \A i \in 1 .. Len(l.bytes) : l.bytes[i] = file[a + i]
  /\ l.kind = "insn" =>
       \E ins \in DecodeInstruction(WordAt(file, l.at)) :
         ins.opcode # "none" /\ l.asm = Disas(ins, l.at)

(* The first word lies at dasm_sta, and the script t is what the words from *)
(* there to e were taken apart to, its lines being for the places p.       *)
Laid(t, e, p) ==
  /\ p \in Seq(Nat) /\ Len(t) \in Nat /\ Len(p) = Len(t) + 1
  /\ p[1] = dasm_sta /\ p[Len(t) + 1] = e
  /\ \A n \in 1 .. Len(t) : Fits(t[n], p[n], p[n + 1]) /\ t[n].at + 4 <= e
  /\ \A m, n \in 1 .. Len(t) + 1 : m < n => p[m] < p[n]
  /\ \A b \in dasm_sta + 1 .. e : \E m \in 1 .. Len(t) : p[m] < b /\ b <= p[m + 1]
  /\ \A m, n \in 1 .. Len(t) :
       \/ t[m].at = t[n].at /\ t[m].kind = t[n].kind
       \/ t[m].at + 4 <= t[n].at
       \/ t[n].at + 4 <= t[m].at

(* One more word's lines leave it so.                                      *)
LEMMA LaidGrows ==
  ASSUME NEW S, NEW t \in Seq(S), NEW e \in Nat, NEW p, Laid(t, e, p),
         e + 4 <= Len(file), Len(file) \in Nat,
         NEW k \in {1, 2, 4}, NEW size \in {1, 2, 4}, k * size = 4,
         NEW new \in Seq(S), Len(new) = k,
         \A j \in 1 .. k : /\ new[j].at = e /\ new[j].kind = new[1].kind
                           /\ Fits(new[j], e + (j - 1) * size, e + j * size)
  PROVE  \E q : Laid(t \o new, e + 4, q)
<1> DEFINE ends == [j \in 1 .. k |-> e + j * size]
           q == p \o ends
           u == t \o new
           L == Len(t)
<1>1. /\ L \in Nat /\ p \in Seq(Nat) /\ Len(p) = L + 1
      /\ p[1] = dasm_sta /\ p[L + 1] = e
      /\ \A n \in 1 .. L : Fits(t[n], p[n], p[n + 1]) /\ t[n].at + 4 <= e
  BY DEF Laid
<1>2. \A m, n \in 1 .. L + 1 : m < n => p[m] < p[n]
  BY DEF Laid
<1>3. \A b \in dasm_sta + 1 .. e : \E m \in 1 .. L : p[m] < b /\ b <= p[m + 1]
  BY DEF Laid
<1>4. \A m, n \in 1 .. L :
       \/ t[m].at = t[n].at /\ t[m].kind = t[n].kind
       \/ t[m].at + 4 <= t[n].at
       \/ t[n].at + 4 <= t[m].at
  BY DEF Laid
<1>5. k \in Nat \ {0} /\ size \in Nat \ {0}
  OBVIOUS
<1>0. \A j \in 0 .. k : j * size \in 0 .. 4 /\ (j > 0 => j * size > 0)
  OBVIOUS
<1> HIDE DEF L
<1>t. L \in Nat /\ p \in Seq(Nat) /\ Len(p) = L + 1
  BY ONLY <1>1
<1>p. \A i \in 1 .. L + 1 : p[i] \in Nat
  BY ONLY <1>t
<1>6. ends \in Seq(Nat) /\ Len(ends) = k /\ \A j \in 1 .. k : ends[j] = e + j * size
  <2>1. \A j \in 1 .. k : e + j * size \in Nat
    BY <1>0, <1>5
  <2>2. QED
    BY <1>5, <2>1
<1> HIDE DEF ends
<1>7. /\ q \in Seq(Nat) /\ Len(q) = L + 1 + k
      /\ \A n \in 1 .. L + 1 : q[n] = p[n]
      /\ \A j \in 0 .. k : q[L + 1 + j] = e + j * size
  <2>1. /\ q \in Seq(Nat) /\ Len(q) = L + 1 + k
        /\ \A n \in 1 .. L + 1 + k :
             q[n] = IF n <= L + 1 THEN p[n] ELSE ends[n - (L + 1)]
    <3>1. k = Len(ends) /\ L + 1 = Len(p)
      BY <1>1, <1>6
    <3> HIDE DEF q
    <3>2. q = p \o ends
      BY DEF q
    <3>3. /\ q \in Seq(Nat) /\ Len(q) = Len(p) + Len(ends)
          /\ \A n \in 1 .. Len(p) + Len(ends) :
               q[n] = IF n <= Len(p) THEN p[n] ELSE ends[n - Len(p)]
      <4>1. p \in Seq(Nat) /\ ends \in Seq(Nat)
        BY <1>1, <1>6
      <4>2. QED
        BY ONLY <4>1, <3>2, ConcatProperties
    <3>4. QED
      BY <3>1, <3>3
  <2>2. ASSUME NEW j \in 0 .. k PROVE q[L + 1 + j] = e + j * size
    <3> DEFINE n == L + 1 + j
    <3>1. n \in 1 .. L + 1 + k /\ n - (L + 1) = j /\ (j = 0 => n = L + 1)
          /\ (j # 0 => ~ n <= L + 1 /\ j \in 1 .. k)
      BY <1>1, <1>5
    <3> HIDE DEF n, q
    <3>2. CASE j = 0
      <4>1. q[n] = p[L + 1]
        BY <2>1, <3>1, <3>2, <1>1
      <4>2. e + 0 * size = e
        BY <1>0, <1>5
      <4>3. QED
        BY <4>1, <4>2, <3>2, <1>1 DEF n
    <3>3. CASE j # 0
      <4>1. q[n] = ends[j]
        BY <2>1, <3>1, <3>3
      <4>2. QED
        BY <4>1, <3>1, <3>3, <1>6 DEF n
    <3>4. QED
      BY <3>2, <3>3
  <2> HIDE DEF q
  <2>3. ASSUME NEW n \in 1 .. L + 1 PROVE q[n] = p[n]
    BY <2>1, <1>1, <1>5
  <2>4. QED
    BY <2>1, <2>2, <2>3
<1>8. /\ u \in Seq(S) /\ Len(u) = L + k
      /\ \A n \in 1 .. L : u[n] = t[n]
      /\ \A j \in 1 .. k : u[L + j] = new[j]
  <2>1. /\ u \in Seq(S) /\ Len(u) = L + k
        /\ \A n \in 1 .. L + k : u[n] = IF n <= L THEN t[n] ELSE new[n - L]
    BY ConcatProperties DEF L
  <2> HIDE DEF u
  <2>2. ASSUME NEW j \in 1 .. k PROVE u[L + j] = new[j]
    <3> DEFINE n == L + j
    <3>1. n \in 1 .. L + k /\ n - L = j /\ ~ n <= L
      BY <1>1, <1>5
    <3> HIDE DEF n
    <3>2. u[n] = new[j]
      BY <2>1, <3>1
    <3>3. QED
      BY <3>2 DEF n
  <2>3. ASSUME NEW n \in 1 .. L PROVE u[n] = t[n]
    <3>1. n \in 1 .. L + k /\ n <= L
      BY <1>1, <1>5
    <3>2. QED
      BY <2>1, <3>1
  <2>4. QED
    BY <2>1, <2>2, <2>3
<1> HIDE DEF q, u
<1>9. q[1] = dasm_sta /\ q[L + k + 1] = e + 4
  <2>1. q[1] = p[1] /\ q[L + 1 + k] = e + k * size
    BY <1>7, <1>1, <1>5
  <2>2. L + 1 + k = L + k + 1
    BY <1>1, <1>5
  <2>3. QED
    BY <2>1, <2>2, <1>1
<1>10. ASSUME NEW n \in 1 .. L + k
       PROVE  \/ n \in 1 .. L
              \/ \E j \in 1 .. k : n = L + j /\ n + 1 = L + 1 + j /\ n = L + 1 + (j - 1)
  <2>1. CASE ~ n <= L
    <3>1. n - L \in 1 .. k /\ n = L + (n - L) /\ n + 1 = L + 1 + (n - L)
          /\ n = L + 1 + ((n - L) - 1)
      BY <1>1, <1>5, <2>1
    <3>2. QED
      BY <3>1
  <2>2. QED
    BY <2>1, <1>1, <1>5
<1>11. ASSUME NEW n \in 1 .. L + k
       PROVE  Fits(u[n], q[n], q[n + 1]) /\ u[n].at + 4 <= e + 4
  <2>1. CASE n \in 1 .. L
    <3>0. n + 1 \in 1 .. L + 1 /\ n \in 1 .. L + 1
      BY <1>1, <2>1
    <3>1. q[n] = p[n] /\ q[n + 1] = p[n + 1] /\ u[n] = t[n] /\ t[n].at + 4 <= e
          /\ t[n].at \in Nat
      BY <3>0, <1>1, <1>7, <1>8, <2>1 DEF Fits
    <3>2. Fits(t[n], p[n], p[n + 1])
      BY <1>1, <2>1
    <3>3. t[n].at + 4 <= e + 4
      BY <3>1
    <3>4. QED
      BY <3>1, <3>2, <3>3
  <2>2. ASSUME NEW j \in 1 .. k, n = L + j, n + 1 = L + 1 + j, n = L + 1 + (j - 1)
        PROVE  Fits(u[n], q[n], q[n + 1]) /\ u[n].at + 4 <= e + 4
    <3>1. j - 1 \in 0 .. k /\ j \in 0 .. k
      BY <1>5
    <3>2. q[n] = e + (j - 1) * size /\ q[n + 1] = e + j * size /\ u[n] = new[j]
      BY <1>7, <1>8, <2>2, <3>1
    <3>3. QED
      BY <3>2
  <2>3. QED
    BY <1>10, <2>1, <2>2
<1>12. ASSUME NEW m \in 1 .. L + k + 1, NEW n \in 1 .. L + k + 1, m < n
       PROVE  q[m] < q[n]
  <2>0. \A i \in 1 .. L + 1 : q[i] = p[i] /\ p[i] \in Nat /\ p[i] <= e
    <3>1. ASSUME NEW i \in 1 .. L + 1 PROVE p[i] \in Nat /\ p[i] <= e
      <4>1. p[i] \in Nat /\ L + 1 \in 1 .. L + 1
        BY ONLY <1>t, <1>p, <3>1
      <4>2. i = L + 1 \/ p[i] < p[L + 1]
        BY <4>1, <1>1, <1>2
      <4>3. QED
        BY <4>1, <4>2, <1>1
    <3>2. QED
      BY <3>1, <1>7
  <2>1. ASSUME NEW i \in 1 .. L + k + 1, ~ i <= L + 1
        PROVE  \E j \in 1 .. k : i = L + 1 + j /\ q[i] = e + j * size
    <3>1. i - (L + 1) \in 1 .. k /\ i = L + 1 + (i - (L + 1))
      BY <2>1, <1>1, <1>5
    <3>2. i - (L + 1) \in 0 .. k
      BY <3>1, <1>5
    <3>3. QED
      BY <3>1, <3>2, <1>7
  <2>2. CASE n <= L + 1
    <3>1. m \in 1 .. L + 1 /\ n \in 1 .. L + 1
      BY <2>2, <1>1, <1>5, <1>12
    <3>2. QED
      BY <3>1, <2>0, <1>2, <1>12
  <2>3. CASE m <= L + 1 /\ ~ n <= L + 1
    <3>1. m \in 1 .. L + 1
      BY <2>3, <1>1, <1>5
    <3>2. PICK j \in 1 .. k : n = L + 1 + j /\ q[n] = e + j * size
      BY <2>1, <2>3
    <3>3. j * size \in 0 .. 4 /\ j * size > 0
      BY <1>0, <1>5
    <3>4. q[m] \in Nat /\ q[m] <= e
      BY <3>1, <2>0
    <3> DEFINE d == j * size
    <3> HIDE DEF d
    <3>5. d \in Nat /\ d > 0 /\ q[n] = e + d
      BY <3>2, <3>3 DEF d
    <3>6. QED
      BY <3>4, <3>5
  <2>4. CASE ~ m <= L + 1
    <3>0. ~ n <= L + 1
      BY <2>4, <1>1, <1>5, <1>12
    <3>1. PICK i \in 1 .. k : m = L + 1 + i /\ q[m] = e + i * size
      BY <2>1, <2>4
    <3>2. PICK j \in 1 .. k : n = L + 1 + j /\ q[n] = e + j * size
      BY <2>1, <3>0
    <3>3. i < j
      BY <3>1, <3>2, <1>1, <1>12
    <3>4. i * size < j * size
      BY <3>3
    <3>5. i * size \in 0 .. 4 /\ j * size \in 0 .. 4
      BY <1>0, <1>5
    <3> DEFINE d == i * size
               f == j * size
    <3>6. d < f /\ d \in Nat /\ f \in Nat /\ q[m] = e + d /\ q[n] = e + f
      BY <3>1, <3>2, <3>4, <3>5
    <3> HIDE DEF d, f
    <3>7. QED
      BY <3>6
  <2>5. QED
    BY <2>2, <2>3, <2>4
<1>13. ASSUME NEW b \in dasm_sta + 1 .. e + 4
       PROVE  \E m \in 1 .. L + k : q[m] < b /\ b <= q[m + 1]
  <2>0. dasm_sta \in Nat /\ b \in Nat
    <3>1. p[1] \in Nat
      BY <1>1
    <3>2. QED
      BY <3>1, <1>1
  <2>1. CASE b <= e
    <3>0. b \in dasm_sta + 1 .. e
      BY <2>0, <2>1, <1>13
    <3>1. PICK m \in 1 .. L : p[m] < b /\ b <= p[m + 1]
      BY <3>0, <1>3
    <3>2. m \in 1 .. L + 1 /\ m + 1 \in 1 .. L + 1 /\ m \in 1 .. L + k
      BY ONLY <1>t, <1>5, <3>1
    <3>4. q[m] = p[m] /\ q[m + 1] = p[m + 1]
      BY <3>2, <1>7
    <3>3. QED
      BY <3>1, <3>2, <3>4
  <2>2. CASE b > e
    <3>1. \E j \in 1 .. k : e + (j - 1) * size < b /\ b <= e + j * size
      <4>1. b - e \in 1 .. 4
        BY <2>0, <2>2
      <4>2. CASE size = 4
        BY <4>1, <4>2, <2>0, 1 \in 1 .. k
      <4>3. CASE size = 2
        <5>1. k = 2
          BY <4>3
        <5>2. (e + 0 * 2 < b /\ b <= e + 1 * 2) \/ (e + 1 * 2 < b /\ b <= e + 2 * 2)
          BY <4>1, <2>0
        <5>3. QED
          BY <5>1, <5>2, <4>3
      <4>4. CASE size = 1
        <5>1. k = 4
          BY <4>4
        <5>2. \E j \in 1 .. 4 : b - e = j
          BY <4>1
        <5>3. QED
          BY <5>1, <5>2, <4>4, <2>0
      <4>5. QED
        BY <4>2, <4>3, <4>4
    <3>2. PICK j \in 1 .. k : e + (j - 1) * size < b /\ b <= e + j * size
      BY <3>1
    <3>3. q[L + 1 + (j - 1)] = e + (j - 1) * size /\ q[L + 1 + j] = e + j * size
      BY <1>5, <1>7, j - 1 \in 0 .. k, j \in 0 .. k
    <3>4. L + 1 + (j - 1) = L + j /\ L + 1 + j = L + j + 1 /\ L + j \in 1 .. L + k
      BY <1>1, <1>5
    <3>5. QED
      BY <3>2, <3>3, <3>4
  <2>3. QED
    BY <2>0, <2>1, <2>2
<1>14. ASSUME NEW m \in 1 .. L + k, NEW n \in 1 .. L + k
       PROVE  \/ u[m].at = u[n].at /\ u[m].kind = u[n].kind
              \/ u[m].at + 4 <= u[n].at
              \/ u[n].at + 4 <= u[m].at
  <2>1. ASSUME NEW i \in 1 .. L + k
        PROVE  \/ i \in 1 .. L /\ u[i] = t[i] /\ t[i].at + 4 <= e
               \/ u[i].at = e /\ u[i].kind = new[1].kind
    <3>1. CASE i \in 1 .. L
      BY <3>1, <1>1, <1>8
    <3>2. ASSUME NEW j \in 1 .. k, i = L + j
          PROVE  u[i].at = e /\ u[i].kind = new[1].kind
      BY <3>2, <1>8
    <3>3. QED
      BY <1>10, <3>1, <3>2
  <2>2. CASE m \in 1 .. L /\ n \in 1 .. L
    BY <2>2, <1>4, <1>8
  <2>3. ASSUME NEW i \in 1 .. L + k
        PROVE  u[i].at + 4 <= e \/ (u[i].at = e /\ u[i].kind = new[1].kind)
    BY <2>1
  <2>4. u[m].at \in Nat /\ u[n].at \in Nat
    BY <1>11 DEF Fits
  <2>5. CASE ~ (m \in 1 .. L /\ n \in 1 .. L)
    BY <2>1, <2>3, <2>4, <2>5
  <2>6. QED
    BY <2>2, <2>5
<1>15. Laid(u, e + 4, q)
  <2>1. Len(q) = Len(u) + 1 /\ Len(u) \in Nat /\ Len(u) = L + k
    BY <1>1, <1>5, <1>7, <1>8
  <2>2. Len(u) + 1 = L + k + 1
    BY <2>1
  <2>3. \A n \in 1 .. L + k : Fits(u[n], q[n], q[n + 1]) /\ u[n].at + 4 <= e + 4
    BY <1>11
  <2>4. \A m, n \in 1 .. L + k + 1 : m < n => q[m] < q[n]
    BY <1>12
  <2>5. \A b \in dasm_sta + 1 .. e + 4 : \E m \in 1 .. L + k : q[m] < b /\ b <= q[m + 1]
    BY <1>13
  <2>6. \A m, n \in 1 .. L + k :
           \/ u[m].at = u[n].at /\ u[m].kind = u[n].kind
           \/ u[m].at + 4 <= u[n].at
           \/ u[n].at + 4 <= u[m].at
    BY <1>14
  <2>7. QED
    BY <2>1, <2>2, <2>3, <2>4, <2>5, <2>6, <1>7, <1>9, Zenon DEF Laid
<1>16. QED
  BY <1>15 DEF u
-----------------------------------------------------------------------------
(* What the patterns of instructions[] may hold.                           *)
Registers == {"rs", "rt", "rd", "sa"}

Types == {"imm", "immu", "imma", "code", "jump", "reg", "regf", "nop"}

(* What a pattern may hold goes by the type of its operation.              *)
LEMMA Patterns ==
  ASSUME NEW op
  PROVE  LET F == Form(op)
         IN  /\ F.type \in Types
             /\ F.type = "reg" =>
                  F.para \subseteq {"$rs", "$rt", "$rd", "@rd", "^rd", "%sa", "!sa"}
             /\ F.type = "regf" => F.para \subseteq {"@fd", "@fs", "@ft"}
             /\ F.type = "imm" =>
                  "#im" \in F.para /\ F.para \subseteq {"$rs", "$rt", "@rt", "#im"}
             /\ F.type = "immu" =>
                  "%im" \in F.para /\ F.para \subseteq {"$rs", "$rt", "%im"}
             /\ F.type = "imma" =>
                  /\ F.para \subseteq {"$rs", "$rt", "&im", "%im"}
                  /\ "&im" \in F.para \/ "%im" \in F.para
                  /\ "%im" \in F.para => op \in {"BC0F", "BC0FL", "BC0T", "BC0TL", "CACHE"}
             /\ F.type = "code" => F.para = {"!im"}
             /\ F.type = "jump" => F.para = {"*im"}
             /\ F.type = "nop" => F.para = {} /\ op = "NOP"
<1> DEFINE F == Form(op)
<1>1. F.type \in Types
  BY DEF Form, Types
<1>2. ASSUME F.type = "reg"
      PROVE  F.para \subseteq {"$rs", "$rt", "$rd", "@rd", "^rd", "%sa", "!sa"}
  BY <1>2 DEF Form
<1>3. ASSUME F.type = "regf" PROVE F.para \subseteq {"@fd", "@fs", "@ft"}
  BY <1>3 DEF Form
<1>4. ASSUME F.type = "imm"
      PROVE  "#im" \in F.para /\ F.para \subseteq {"$rs", "$rt", "@rt", "#im"}
  <2>1. "#im" \in F.para
    BY <1>4 DEF Form
  <2>2. F.para \subseteq {"$rs", "$rt", "@rt", "#im"}
    BY <1>4 DEF Form
  <2>3. QED
    BY <2>1, <2>2
<1>5. ASSUME F.type = "immu"
      PROVE  "%im" \in F.para /\ F.para \subseteq {"$rs", "$rt", "%im"}
  <2>1. "%im" \in F.para
    BY <1>5 DEF Form
  <2>2. F.para \subseteq {"$rs", "$rt", "%im"}
    BY <1>5 DEF Form
  <2>3. QED
    BY <2>1, <2>2
<1>6. ASSUME F.type = "imma"
      PROVE  /\ F.para \subseteq {"$rs", "$rt", "&im", "%im"}
             /\ "&im" \in F.para \/ "%im" \in F.para
             /\ "%im" \in F.para => op \in {"BC0F", "BC0FL", "BC0T", "BC0TL", "CACHE"}
  <2>1. F.para \subseteq {"$rs", "$rt", "&im", "%im"}
    BY <1>6 DEF Form
  <2>2. "&im" \in F.para \/ "%im" \in F.para
    BY <1>6 DEF Form
  <2>3. ASSUME "%im" \in F.para
        PROVE  op \in {"BC0F", "BC0FL", "BC0T", "BC0TL", "CACHE"}
    BY <1>6, <2>3 DEF Form
  <2>4. QED
    BY <2>1, <2>2, <2>3
<1>7. ASSUME F.type = "code" PROVE F.para = {"!im"}
  BY <1>7 DEF Form
<1>8. ASSUME F.type = "jump" PROVE F.para = {"*im"}
  BY <1>8 DEF Form
<1>9. ASSUME F.type = "nop" PROVE F.para = {} /\ op = "NOP"
  <2>1. F.para = {}
    BY <1>9 DEF Form
  <2>2. op = "NOP"
    BY <1>9 DEF Form
  <2>3. QED
    BY <2>1, <2>2
<1> HIDE DEF F
<1>10. QED
  BY <1>1, <1>2, <1>3, <1>4, <1>5, <1>6, <1>7, <1>8, <1>9 DEF F

(* Where as() puts an operand, for every mark a pattern uses.              *)
LEMMA TargetOf ==
  /\ Target("$rs") = "rs" /\ Target("$rt") = "rt" /\ Target("@rt") = "rt"
  /\ Target("@ft") = "rt" /\ Target("$rd") = "rd" /\ Target("@rd") = "rd"
  /\ Target("^rd") = "rd" /\ Target("@fs") = "rd" /\ Target("%sa") = "sa"
  /\ Target("!sa") = "sa" /\ Target("@fd") = "sa" /\ Target("#im") = "imm"
  /\ Target("%im") = "imm" /\ Target("&im") = "imm" /\ Target("*im") = "imm"
  /\ Target("!im") = "imm"
  BY DEF Target

(* The fields that the operands of an operation are kept in.               *)
LEMMA OperandsByType ==
  ASSUME NEW op \in Opcodes
  PROVE  /\ Type(op) \in Types
         /\ Type(op) = "reg" => Operands(op) \subseteq Registers
         /\ Type(op) = "regf" => Operands(op) \subseteq {"rt", "rd", "sa"}
         /\ Type(op) \in {"imm", "immu", "imma"} =>
              "imm" \in Operands(op) /\ Operands(op) \subseteq {"rs", "rt", "imm"}
         /\ Type(op) \in {"code", "jump"} => Operands(op) = {"imm"}
         /\ Type(op) = "nop" => Operands(op) = {} /\ op = "NOP"
<1> DEFINE F == Form(op)
<1>0. Type(op) = F.type /\ Operands(op) = {Target(o) : o \in F.para}
  BY DEF Type, Operands, instructions
<1>p. /\ F.type \in Types
      /\ F.type = "reg" =>
           F.para \subseteq {"$rs", "$rt", "$rd", "@rd", "^rd", "%sa", "!sa"}
      /\ F.type = "regf" => F.para \subseteq {"@fd", "@fs", "@ft"}
      /\ F.type = "imm" =>
           "#im" \in F.para /\ F.para \subseteq {"$rs", "$rt", "@rt", "#im"}
      /\ F.type = "immu" =>
           "%im" \in F.para /\ F.para \subseteq {"$rs", "$rt", "%im"}
      /\ F.type = "imma" =>
           /\ F.para \subseteq {"$rs", "$rt", "&im", "%im"}
           /\ "&im" \in F.para \/ "%im" \in F.para
      /\ F.type = "code" => F.para = {"!im"}
      /\ F.type = "jump" => F.para = {"*im"}
      /\ F.type = "nop" => F.para = {} /\ op = "NOP"
  BY Patterns
<1> HIDE DEF F
<1>1. F.type = "reg" => Operands(op) \subseteq Registers
  BY <1>0, <1>p, TargetOf, SMTT(30) DEF Registers
<1>2. F.type = "regf" => Operands(op) \subseteq {"rt", "rd", "sa"}
  BY <1>0, <1>p, TargetOf
<1>3. F.type \in {"imm", "immu", "imma"} =>
        "imm" \in Operands(op) /\ Operands(op) \subseteq {"rs", "rt", "imm"}
  BY <1>0, <1>p, TargetOf
<1>4. F.type \in {"code", "jump"} => Operands(op) = {"imm"}
  BY <1>0, <1>p, TargetOf
<1>5. F.type = "nop" => Operands(op) = {} /\ op = "NOP"
  BY <1>0, <1>p
<1>6. QED
  BY <1>0, <1>p, <1>1, <1>2, <1>3, <1>4, <1>5

(* The operands that must not be negative, likewise.                       *)
LEMMA UnsignedByType ==
  ASSUME NEW op \in Opcodes, NEW f \in Unsigned(op)
  PROVE  /\ f \in Operands(op)
         /\ \/ f = "sa" /\ Type(op) = "reg"
            \/ f = "imm" /\ Type(op) \in {"immu", "jump"}
            \/ /\ f = "imm" /\ Type(op) = "imma"
               /\ op \in {"BC0F", "BC0FL", "BC0T", "BC0TL", "CACHE"}
<1> DEFINE F == Form(op)
<1>0. /\ Type(op) = F.type /\ Operands(op) = {Target(o) : o \in F.para}
      /\ Unsigned(op) = {Target(o) : o \in F.para \cap {"%im", "%sa", "*im"}}
  BY DEF Type, Operands, Unsigned, instructions
<1>p. /\ F.type \in Types
      /\ F.type = "reg" =>
           F.para \subseteq {"$rs", "$rt", "$rd", "@rd", "^rd", "%sa", "!sa"}
      /\ F.type = "regf" => F.para \subseteq {"@fd", "@fs", "@ft"}
      /\ F.type = "imm" => F.para \subseteq {"$rs", "$rt", "@rt", "#im"}
      /\ F.type = "immu" => F.para \subseteq {"$rs", "$rt", "%im"}
      /\ F.type = "imma" =>
           /\ F.para \subseteq {"$rs", "$rt", "&im", "%im"}
           /\ "%im" \in F.para => op \in {"BC0F", "BC0FL", "BC0T", "BC0TL", "CACHE"}
      /\ F.type = "code" => F.para = {"!im"}
      /\ F.type = "jump" => F.para = {"*im"}
      /\ F.type = "nop" => F.para = {}
  BY Patterns
<1> HIDE DEF F
<1>1. PICK o \in F.para : o \in {"%im", "%sa", "*im"} /\ f = Target(o)
  BY <1>0
<1>2. CASE o = "%sa"
  <2>1. F.type = "reg"
    BY <1>1, <1>2, <1>p DEF Types
  <2>2. QED
    BY <1>0, <1>1, <1>2, <2>1, TargetOf
<1>3. CASE o = "%im"
  <2>1. F.type \in {"immu", "imma"}
    BY <1>1, <1>3, <1>p DEF Types
  <2>2. QED
    BY <1>0, <1>1, <1>3, <1>p, <2>1, TargetOf
<1>4. CASE o = "*im"
  <2>1. F.type = "jump"
    BY <1>1, <1>4, <1>p DEF Types
  <2>2. QED
    BY <1>0, <1>1, <1>4, <2>1, TargetOf
<1>5. QED
  BY <1>1, <1>2, <1>3, <1>4
-----------------------------------------------------------------------------
(* What a table written out in full holds, and what one of a few entries.  *)
LEMMA SparseHolds ==
  ASSUME NEW n \in Nat, NEW entries
  PROVE  /\ DOMAIN Sparse(n, entries) = 0 .. n - 1
         /\ \A i \in 0 .. n - 1 :
              Sparse(n, entries)[i] \in {R} \cup {e[2] : e \in entries}
<1>1. ASSUME NEW i \in 0 .. n - 1
      PROVE  Sparse(n, entries)[i] \in {R} \cup {e[2] : e \in entries}
  <2>1. CASE \E e \in entries : e[1] = i
    <3> DEFINE c == CHOOSE e \in entries : e[1] = i
    <3>1. c \in entries
      BY <2>1
    <3>2. Sparse(n, entries)[i] = c[2]
      BY <2>1 DEF Sparse
    <3> HIDE DEF c
    <3>3. QED
      BY <3>1, <3>2
  <2>2. CASE ~ \E e \in entries : e[1] = i
    BY <2>2 DEF Sparse
  <2>3. QED
    BY <2>1, <2>2
<1>2. QED
  BY <1>1 DEF Sparse

Tables == {"SPECIAL", "REGIMM", "MMI", "PMFHL", "MMI0", "MMI1", "MMI2", "MMI3",
           "COP0", "MF0", "MT0", "BC0", "C0", "COP1", "BC1", "S", "D", "W", "L"}

(* Which table is looked into after which name.                            *)
LEMMA TablesOfInner ==
  /\ DOMAIN Inner = Tables
  /\ Inner["SPECIAL"] = SpecialOpcodeLookUpTable
  /\ Inner["REGIMM"] = RegImmOpcodeLookUpTable
  /\ Inner["MMI"] = MMIOpcodeLookUpTable
  /\ Inner["PMFHL"] = PMFHLOpcodeLookUpTable
  /\ Inner["MMI0"] = MMI0OpcodeLookUpTable
  /\ Inner["MMI1"] = MMI1OpcodeLookUpTable
  /\ Inner["MMI2"] = MMI2OpcodeLookUpTable
  /\ Inner["MMI3"] = MMI3OpcodeLookUpTable
  /\ Inner["COP0"] = COP0OpcodeLookUpTable
  /\ Inner["MF0"] = MF0OpcodeLookUpTable
  /\ Inner["MT0"] = MT0OpcodeLookUpTable
  /\ Inner["BC0"] = BC0OpcodeLookUpTable
  /\ Inner["C0"] = C0OpcodeLookUpTable
  /\ Inner["COP1"] = COP1OpcodeLookUpTable
  /\ Inner["BC1"] = BC1OpcodeLookUpTable
  /\ Inner["S"] = SOpcodeLookUpTable
  /\ Inner["D"] = DOpcodeLookUpTable
  /\ Inner["W"] = WOpcodeLookUpTable
  /\ Inner["L"] = LOpcodeLookUpTable
<1>1. DOMAIN Inner = Tables
  BY DEF Inner, Tables
<1>2. /\ Inner["SPECIAL"] = SpecialOpcodeLookUpTable
      /\ Inner["REGIMM"] = RegImmOpcodeLookUpTable
      /\ Inner["MMI"] = MMIOpcodeLookUpTable
      /\ Inner["PMFHL"] = PMFHLOpcodeLookUpTable
  BY DEF Inner
<1>3. /\ Inner["MMI0"] = MMI0OpcodeLookUpTable
      /\ Inner["MMI1"] = MMI1OpcodeLookUpTable
      /\ Inner["MMI2"] = MMI2OpcodeLookUpTable
      /\ Inner["MMI3"] = MMI3OpcodeLookUpTable
  BY DEF Inner
<1>4. /\ Inner["COP0"] = COP0OpcodeLookUpTable
      /\ Inner["MF0"] = MF0OpcodeLookUpTable
      /\ Inner["MT0"] = MT0OpcodeLookUpTable
      /\ Inner["BC0"] = BC0OpcodeLookUpTable
      /\ Inner["C0"] = C0OpcodeLookUpTable
  BY DEF Inner
<1>5. /\ Inner["COP1"] = COP1OpcodeLookUpTable
      /\ Inner["BC1"] = BC1OpcodeLookUpTable
      /\ Inner["S"] = SOpcodeLookUpTable
      /\ Inner["D"] = DOpcodeLookUpTable
  BY DEF Inner
<1>6. /\ Inner["W"] = WOpcodeLookUpTable
      /\ Inner["L"] = LOpcodeLookUpTable
  BY DEF Inner
<1>7. QED
  BY <1>1, <1>2, <1>3, <1>4, <1>5, <1>6

(* Which field of a word indexes which table.                              *)
LEMMA IndexFields ==
  /\ \A table \in {"REGIMM", "BC0", "BC1"} : IndexField(table) = "rt"
  /\ \A table \in {"COP0", "COP1"} : IndexField(table) = "rs"
  /\ \A table \in {"MF0", "MT0"} : IndexField(table) = "rd"
  /\ \A table \in {"PMFHL", "MMI0", "MMI1", "MMI2", "MMI3"} : IndexField(table) = "sa"
  /\ \A table \in {"SPECIAL", "MMI", "C0", "S", "D", "W", "L"} :
       IndexField(table) = "funct"
<1>1. \A table \in {"REGIMM", "BC0", "BC1"} : IndexField(table) = "rt"
  BY DEF IndexField
<1>2. \A table \in {"COP0", "COP1"} : IndexField(table) = "rs"
  BY DEF IndexField
<1>3. \A table \in {"MF0", "MT0"} : IndexField(table) = "rd"
  BY DEF IndexField
<1>4. \A table \in {"PMFHL", "MMI0", "MMI1", "MMI2", "MMI3"} : IndexField(table) = "sa"
  BY DEF IndexField
<1>5. ASSUME NEW table \in {"SPECIAL", "MMI", "C0", "S", "D", "W", "L"}
      PROVE  IndexField(table) = "funct"
  <2>1. /\ table \notin {"REGIMM", "BC0", "BC1"} /\ table \notin {"COP0", "COP1"}
        /\ table \notin {"MF0", "MT0"}
        /\ table \notin {"PMFHL", "MMI0", "MMI1", "MMI2", "MMI3"}
    OBVIOUS
  <2>2. QED
    BY <2>1 DEF IndexField
<1>6. QED
  BY <1>1, <1>2, <1>3, <1>4, <1>5

(* How long the tables are.                                                *)
LEMMA Domains ==
  /\ DOMAIN PrimaryOpcodeLookUpTable = 0 .. 63
  /\ DOMAIN SpecialOpcodeLookUpTable = 0 .. 63
  /\ DOMAIN RegImmOpcodeLookUpTable = 0 .. 31
  /\ DOMAIN MMIOpcodeLookUpTable = 0 .. 63
  /\ DOMAIN PMFHLOpcodeLookUpTable = 0 .. 4
  /\ DOMAIN MMI0OpcodeLookUpTable = 0 .. 31
  /\ DOMAIN MMI1OpcodeLookUpTable = 0 .. 31
  /\ DOMAIN MMI2OpcodeLookUpTable = 0 .. 31
  /\ DOMAIN MMI3OpcodeLookUpTable = 0 .. 31
  /\ DOMAIN COP0OpcodeLookUpTable = 0 .. 31
  /\ DOMAIN MF0OpcodeLookUpTable = 0 .. 31
  /\ DOMAIN MT0OpcodeLookUpTable = 0 .. 31
  /\ DOMAIN MF0DebugOpcodeLookUpTable = 0 .. 7
  /\ DOMAIN MT0DebugOpcodeLookUpTable = 0 .. 7
  /\ DOMAIN MF0PrefOpcodeLookUpTable = 0 .. 1
  /\ DOMAIN MT0PrefOpcodeLookUpTable = 0 .. 1
  /\ DOMAIN BC0OpcodeLookUpTable = 0 .. 3
  /\ DOMAIN C0OpcodeLookUpTable = 0 .. 63
  /\ DOMAIN COP1OpcodeLookUpTable = 0 .. 31
  /\ DOMAIN BC1OpcodeLookUpTable = 0 .. 1
  /\ DOMAIN SOpcodeLookUpTable = 0 .. 63
  /\ DOMAIN DOpcodeLookUpTable = 0 .. 63
  /\ DOMAIN WOpcodeLookUpTable = 0 .. 63
  /\ DOMAIN LOpcodeLookUpTable = 0 .. 63
<1>1. DOMAIN PrimaryOpcodeLookUpTable = 0 .. 63
  BY DEF PrimaryOpcodeLookUpTable, Dense
<1>2. DOMAIN SpecialOpcodeLookUpTable = 0 .. 63
  BY DEF SpecialOpcodeLookUpTable, Dense
<1>3. DOMAIN RegImmOpcodeLookUpTable = 0 .. 31
  BY DEF RegImmOpcodeLookUpTable, Dense
<1>4. DOMAIN MMIOpcodeLookUpTable = 0 .. 63
  BY DEF MMIOpcodeLookUpTable, Sparse
<1>5. DOMAIN PMFHLOpcodeLookUpTable = 0 .. 4
  BY DEF PMFHLOpcodeLookUpTable, Dense
<1>6. DOMAIN MMI0OpcodeLookUpTable = 0 .. 31
  BY DEF MMI0OpcodeLookUpTable, Dense
<1>7. DOMAIN MMI1OpcodeLookUpTable = 0 .. 31
  BY DEF MMI1OpcodeLookUpTable, Dense
<1>8. DOMAIN MMI2OpcodeLookUpTable = 0 .. 31
  BY DEF MMI2OpcodeLookUpTable, Dense
<1>9. DOMAIN MMI3OpcodeLookUpTable = 0 .. 31
  BY DEF MMI3OpcodeLookUpTable, Sparse
<1>10. DOMAIN COP0OpcodeLookUpTable = 0 .. 31
  BY DEF COP0OpcodeLookUpTable, Sparse
<1>11. DOMAIN MF0OpcodeLookUpTable = 0 .. 31 /\ DOMAIN MT0OpcodeLookUpTable = 0 .. 31
  BY DEF MF0OpcodeLookUpTable, MT0OpcodeLookUpTable
<1>12. /\ DOMAIN MF0DebugOpcodeLookUpTable = 0 .. 7
       /\ DOMAIN MT0DebugOpcodeLookUpTable = 0 .. 7
  BY DEF MF0DebugOpcodeLookUpTable, MT0DebugOpcodeLookUpTable, Dense
<1>13. /\ DOMAIN MF0PrefOpcodeLookUpTable = 0 .. 1
       /\ DOMAIN MT0PrefOpcodeLookUpTable = 0 .. 1
  BY DEF MF0PrefOpcodeLookUpTable, MT0PrefOpcodeLookUpTable, Dense
<1>14. DOMAIN BC0OpcodeLookUpTable = 0 .. 3 /\ DOMAIN BC1OpcodeLookUpTable = 0 .. 1
  BY DEF BC0OpcodeLookUpTable, BC1OpcodeLookUpTable, Dense
<1>15. DOMAIN C0OpcodeLookUpTable = 0 .. 63
  BY DEF C0OpcodeLookUpTable, Sparse
<1>16. DOMAIN COP1OpcodeLookUpTable = 0 .. 31
  BY DEF COP1OpcodeLookUpTable, Sparse
<1>17. DOMAIN SOpcodeLookUpTable = 0 .. 63
  BY DEF SOpcodeLookUpTable, Dense
<1>18. DOMAIN DOpcodeLookUpTable = 0 .. 63
  BY DEF DOpcodeLookUpTable, Dense
<1>19. DOMAIN WOpcodeLookUpTable = 0 .. 63 /\ DOMAIN LOpcodeLookUpTable = 0 .. 63
  BY DEF WOpcodeLookUpTable, LOpcodeLookUpTable, Sparse
<1>20. QED
  BY <1>1, <1>2, <1>3, <1>4, <1>5, <1>6, <1>7, <1>8, <1>9, <1>10, <1>11, <1>12,
     <1>13, <1>14, <1>15, <1>16, <1>17, <1>18, <1>19

(* A table has no more entries than the field that indexes it has values.  *)
LEMMA IndexFits ==
  ASSUME NEW name \in Tables
  PROVE  LET f == IndexField(name)
         IN  \/ f \in Registers /\ DOMAIN Inner[name] \subseteq 0 .. 31
             \/ f = "funct" /\ DOMAIN Inner[name] \subseteq 0 .. 63
<1> USE TablesOfInner, Domains, IndexFields DEF Registers
<1>1. CASE name \in {"REGIMM", "BC0", "BC1"}
  BY <1>1
<1>2. CASE name \in {"COP0", "COP1"}
  BY <1>2
<1>3. CASE name \in {"MF0", "MT0"}
  BY <1>3
<1>4. CASE name \in {"PMFHL", "MMI0", "MMI1", "MMI2", "MMI3"}
  BY <1>4
<1>5. CASE name \in {"SPECIAL", "MMI", "C0", "S", "D", "W", "L"}
  BY <1>5
<1>6. QED
  BY ONLY <1>1, <1>2, <1>3, <1>4, <1>5, name \in Tables DEF Tables

(* A field given a value it can hold leaves a word.                        *)
LEMMA WordExcept ==
  ASSUME NEW w \in Words, NEW f, NEW i,
         (f \in Registers /\ i \in 0 .. 31) \/ (f \in {"funct", "opcode"} /\ i \in 0 .. 63)
  PROVE  LET v == [w EXCEPT ![f] = i]
         IN  /\ v \in Words
             /\ v[f] = i
             /\ \A g \in DOMAIN w : g # f => v[g] = w[g]
  BY DEF Words, Registers

(* The places a name leads to: itself, an entry of its table, or a move.   *)
LEMMA PlacesAre ==
  ASSUME NEW name, NEW w \in Words, NEW q \in Places(name, w)
  PROVE  /\ q[2] \in Words
         /\ \/ name \notin Tables /\ q[1] = name /\ q[2] = w
            \/ /\ name \in Tables \ {"MF0", "MT0"}
               /\ \E i \in DOMAIN Inner[name] :
                    q[1] = Inner[name][i] /\ q[2] = [w EXCEPT ![IndexField(name)] = i]
            \/ name = "MF0" /\ q[1] = "MFC0" /\ q[2] = w
            \/ name = "MT0" /\ q[1] = "MTC0" /\ q[2] = w
            \/ q[1] \in DebugMoves
<1>1. CASE name \notin Tables
  <2>1. name # "MF0" /\ name # "MT0"
    BY <1>1 DEF Tables
  <2>2. Places(name, w) = {<<name, w>>}
    BY <1>1, <2>1, TablesOfInner DEF Places
  <2>3. QED
    BY <1>1, <2>2
<1>2. CASE name \in Tables \ {"MF0", "MT0"}
  <2>1. Places(name, w) = Entries(Inner[name], IndexField(name), w)
    BY <1>2, TablesOfInner DEF Places
  <2>2. PICK i \in DOMAIN Inner[name] :
          q = <<Inner[name][i], [w EXCEPT ![IndexField(name)] = i]>>
    BY <2>1 DEF Entries
  <2>3. [w EXCEPT ![IndexField(name)] = i] \in Words
    <3> DEFINE f == IndexField(name)
    <3>1. (f \in Registers /\ i \in 0 .. 31) \/ (f = "funct" /\ i \in 0 .. 63)
      BY <1>2, IndexFits
    <3> HIDE DEF f
    <3>2. [w EXCEPT ![f] = i] \in Words
      BY <3>1, WordExcept
    <3>3. QED
      BY <3>2 DEF f
  <2>4. QED
    BY <1>2, <2>2, <2>3
<1>3. ASSUME NEW plain, NEW debug, NEW pref,
             q \in MovePlaces(plain, debug, pref, w),
             DOMAIN debug = 0 .. 7, DOMAIN pref = 0 .. 1,
             Named(debug) \subseteq DebugMoves, Named(pref) \subseteq DebugMoves
      PROVE  q[2] \in Words /\ ((q[1] = plain /\ q[2] = w) \/ q[1] \in DebugMoves)
  <2>1. [w EXCEPT !.rd = 24] \in Words /\ [w EXCEPT !.rd = 25] \in Words
    BY DEF Words
  <2>2. ASSUME NEW v \in Words, NEW table, q \in Entries(table, "funct", v),
               DOMAIN table \subseteq 0 .. 63
        PROVE  q[2] \in Words /\ q[1] \in Named(table)
    <3>1. PICK i \in DOMAIN table : table[i] # R /\ q = <<table[i], [v EXCEPT !["funct"] = i]>>
      BY <2>2 DEF Entries
    <3>2. [v EXCEPT !["funct"] = i] \in Words
      BY <2>2, WordExcept
    <3>3. QED
      BY <3>1, <3>2 DEF Named
  <2>3. 0 .. 7 \subseteq 0 .. 63 /\ 0 .. 1 \subseteq 0 .. 63
    OBVIOUS
  <2>4. \/ q = <<plain, w>>
        \/ q \in Entries(debug, "funct", [w EXCEPT !.rd = 24])
        \/ q \in Entries(pref, "funct", [w EXCEPT !.rd = 25])
    BY <1>3, Zenon DEF MovePlaces
  <2>5. QED
    BY <1>3, <2>1, <2>2, <2>3, <2>4
<1>4. CASE name = "MF0"
  <2>1. q \in MovePlaces("MFC0", MF0DebugOpcodeLookUpTable, MF0PrefOpcodeLookUpTable, w)
    BY <1>4 DEF Places
  <2>2. QED
    BY <1>3, <1>4, <2>1, Domains DEF DebugMoves
<1>5. CASE name = "MT0"
  <2>1. q \in MovePlaces("MTC0", MT0DebugOpcodeLookUpTable, MT0PrefOpcodeLookUpTable, w)
    BY <1>5 DEF Places
  <2>2. QED
    BY <1>3, <1>5, <2>1, Domains DEF DebugMoves
<1>6. QED
  BY <1>1, <1>2, <1>4, <1>5

(* The three steps of PrepareOpcodeBuffer that lead to a template.         *)
LEMMA PreparedBy ==
  ASSUME NEW q \in Prepared
  PROVE  /\ q[2] \in Words
         /\ \E o \in 0 .. 63 : \E second :
              LET w == [ZeroWord EXCEPT !.opcode = o]
              IN  /\ second \in Places(PrimaryOpcodeLookUpTable[o], w)
                  /\ q \in Places(second[1], second[2])
                  /\ w \in Words /\ second[2] \in Words
<1>1. PICK second : q \in Places(second[1], second[2])
                    /\ \E p \in Entries(PrimaryOpcodeLookUpTable, "opcode", ZeroWord) :
                          second \in Places(p[1], p[2])
  BY DEF Prepared
<1>2. PICK o \in 0 .. 63 :
        second \in Places(PrimaryOpcodeLookUpTable[o], [ZeroWord EXCEPT !.opcode = o])
  <2>1. PICK p \in Entries(PrimaryOpcodeLookUpTable, "opcode", ZeroWord) :
          second \in Places(p[1], p[2])
    BY <1>1
  <2>2. PICK o \in 0 .. 63 :
          p = <<PrimaryOpcodeLookUpTable[o], [ZeroWord EXCEPT !["opcode"] = o]>>
    BY Domains DEF Entries
  <2>3. p[1] = PrimaryOpcodeLookUpTable[o] /\ p[2] = [ZeroWord EXCEPT !.opcode = o]
    BY <2>2
  <2>4. QED
    BY <2>1, <2>3
<1>3. [ZeroWord EXCEPT !.opcode = o] \in Words
  BY DEF ZeroWord, Words
<1>4. second[2] \in Words
  BY <1>2, <1>3, PlacesAre
<1>5. q[2] \in Words
  BY <1>1, <1>4, PlacesAre
<1>6. QED
  BY <1>1, <1>2, <1>3, <1>4, <1>5
-----------------------------------------------------------------------------
(* The template of an operation is the word of one of its places.          *)
LEMMA Template ==
  ASSUME NEW op \in Opcodes
  PROVE  /\ opcode_buffer[op] \in Words
         /\ \/ \E q \in Prepared : q[1] = op /\ q[2] = opcode_buffer[op]
            \/ /\ op \in {"NOP", "C_NGT_S", "C_NGT_D"}
               /\ opcode_buffer[op] = ZeroWord
<1> DEFINE words == {p[2] : p \in {q \in Prepared : q[1] = op}}
           c == CHOOSE w \in words : \A v \in words : v.funct <= w.funct
<1>1. opcode_buffer[op] = IF words = {} THEN ZeroWord ELSE c
  BY Zenon DEF opcode_buffer
<1>2. \A w \in words : \E q \in Prepared : q[1] = op /\ q[2] = w
  OBVIOUS
<1>3. words \subseteq Words
  BY <1>2, PreparedBy
<1>4. CASE words = {}
  <2>1. ~ \E q \in Prepared : q[1] = op
    BY <1>4
  <2>2. op \in {"NOP", "C_NGT_S", "C_NGT_D"}
    BY <2>1 DEF Opcodes
  <2>3. ZeroWord \in Words
    BY DEF ZeroWord, Words
  <2>4. QED
    BY <1>1, <1>4, <2>2, <2>3
<1>5. CASE words # {}
  <2> HIDE DEF words
  <2> DEFINE T == {63 - w.funct : w \in words}
  <2>1. T \subseteq Nat /\ T # {}
    <3>1. \A w \in words : w.funct \in 0 .. 63
      BY <1>3 DEF Words
    <3>2. QED
      BY <1>5, <3>1
  <2>2. PICK x \in T : \A y \in T : x <= y
    <3> HIDE DEF T
    <3>1. QED
      BY <2>1, Least
  <2>3. PICK w \in words : x = 63 - w.funct
    BY <2>2
  <2>4. \A v \in words : v.funct <= w.funct
    <3> SUFFICES ASSUME NEW v \in words PROVE v.funct <= w.funct
      OBVIOUS
    <3>1. 63 - v.funct \in T /\ v.funct \in 0 .. 63 /\ w.funct \in 0 .. 63
      BY <1>3 DEF Words
    <3>2. QED
      BY <2>2, <2>3, <3>1
  <2>5. c \in words
    BY <2>4
  <2>6. QED
    BY <1>1, <1>2, <1>3, <1>5, <2>5
<1>6. QED
  BY <1>4, <1>5
-----------------------------------------------------------------------------
Signed == {"imm", "immu", "imma"}

WithWords == Signed \cup {"jump", "code"}

(* The fields an immediate of a type lies over.                            *)
Overlaid(type) ==
  IF type \in Signed THEN {"rd", "sa", "funct"}
  ELSE IF type = "jump" THEN {"rs", "rt", "rd", "sa", "funct"}
  ELSE IF type = "code" THEN {"rs", "rt", "rd", "sa"}
  ELSE {}

(* The fields of a word.                                                   *)
LEMMA WordFields ==
  ASSUME NEW w \in Words
  PROVE  /\ DOMAIN w = {"opcode", "rs", "rt", "rd", "sa", "funct"}
         /\ w.funct \in 0 .. 63 /\ w.sa \in 0 .. 31 /\ w.rd \in 0 .. 31
         /\ w.rt \in 0 .. 31 /\ w.rs \in 0 .. 31 /\ w.opcode \in 0 .. 63
         /\ \A f \in Registers : w[f] \in 0 .. 31
  BY DEF Words, Registers

(* Words that agree on every field are the same.                           *)
LEMMA SameWord ==
  ASSUME NEW v \in Words, NEW w \in Words, \A f \in DOMAIN w : v[f] = w[f]
  PROVE  v = w
  BY DEF Words

(* What is put into the lower half of a word.                              *)
LEMMA WithImmediateIs ==
  ASSUME NEW w \in Words, NEW n \in Int
  PROVE  LET v == WithImmediate(w, n)
         IN  /\ v \in Words
             /\ v.rd = (n \div 2048) % 32 /\ v.sa = (n \div 64) % 32 /\ v.funct = n % 64
             /\ v.opcode = w.opcode /\ v.rs = w.rs /\ v.rt = w.rt
<1> DEFINE a == (n \div 2048) % 32
           b == (n \div 64) % 32
           c == n % 64
<1>1. a \in 0 .. 31 /\ b \in 0 .. 31 /\ c \in 0 .. 63
  OBVIOUS
<1>2. WithImmediate(w, n) = [w EXCEPT !.rd = a, !.sa = b, !.funct = c]
  BY DEF WithImmediate
<1> HIDE DEF a, b, c
<1>3. LET v == [w EXCEPT !.rd = a, !.sa = b, !.funct = c]
      IN  /\ v \in Words
          /\ v.rd = a /\ v.sa = b /\ v.funct = c
          /\ v.opcode = w.opcode /\ v.rs = w.rs /\ v.rt = w.rt
  BY <1>1 DEF Words
<1>4. QED
  BY <1>2, <1>3 DEF a, b, c

(* The numbers that fields side by side make.                              *)
Half(d, s, f) == d * 2048 + s * 64 + f

Target26(s, t, i) == (s * 32 + t) * 65536 + i

Code20(s, t, d, a) == ((s * 32 + t) * 32 + d) * 32 + a

(* The fields that they fall apart into again.                             *)
Halved(n, d, s, f) ==
  n \in Int /\ (n \div 2048) % 32 = d /\ (n \div 64) % 32 = s /\ n % 64 = f

Jumped(j, s, t) ==
  /\ j \in Nat /\ (4 * j) \div 4 = j
  /\ ((4 * j) \div 2^23) % 32 = s /\ ((4 * j) \div 2^18) % 32 = t

Coded(c, s, t, d, a) ==
  /\ c \in Nat
  /\ (c \div 2^15) % 32 = s /\ (c \div 2^10) % 32 = t
  /\ (c \div 32) % 32 = d /\ c % 32 = a

Lowered(i) == i - 65536

Below64K(i) == i \in Nat /\ i < 65536

(* The bits of half a word, and what the sign takes away from it.          *)
LEMMA HalfBits ==
  ASSUME NEW d \in 0 .. 31, NEW s \in 0 .. 31, NEW f \in 0 .. 63
  PROVE  Below64K(Half(d, s, f)) /\ Halved(Half(d, s, f), d, s, f)
  BY DEF Half, Below64K, Halved

(* The same bits, whichever sign the number has got.                       *)
LEMMA NegativeBits ==
  ASSUME NEW d \in 0 .. 31, NEW s \in 0 .. 31, NEW f \in 0 .. 63
  PROVE  Halved(Lowered(Half(d, s, f)), d, s, f)
<1> DEFINE n == Lowered(Half(d, s, f))
<1>1. n = d * 2048 + s * 64 + f - 65536 /\ n \in Int
  BY DEF Half, Lowered
<1> HIDE DEF n
<1>2. n \div 2048 = d - 32 /\ n \div 64 = d * 32 + s - 1024 /\ n % 64 = f
  BY <1>1
<1>3. (d * 32 + s - 1024) % 32 = s /\ (d - 32) % 32 = d
  OBVIOUS
<1>4. n \in Int /\ (n \div 2048) % 32 = d /\ (n \div 64) % 32 = s /\ n % 64 = f
  BY ONLY <1>1, <1>2, <1>3
<1>5. QED
  BY <1>4 DEF Halved, n

(* An immediate with its sign fits the field it came from.                 *)
LEMMA SignExtended ==
  ASSUME NEW i \in Nat, i < 65536
  PROVE  SignExtend(i) = IF i >= 32768 THEN i - 65536 ELSE i
  BY DEF SignExtend

(* A jump target over its three fields, taken apart.                       *)
LEMMA JumpBits ==
  ASSUME NEW s \in 0 .. 31, NEW t \in 0 .. 31, NEW i, Below64K(i)
  PROVE  Jumped(Target26(s, t, i), s, t)
<1> DEFINE j == Target26(s, t, i)
<1>0. j = (s * 32 + t) * 65536 + i /\ i \in Nat /\ i < 65536
  BY DEF Target26, Below64K
<1> HIDE DEF j
<1>1. j \in Nat /\ (4 * j) \div 4 = j
  BY <1>0
<1>2. (4 * j) \div 2^23 = s
  BY <1>0
<1>3. (4 * j) \div 2^18 = 32 * s + t
  BY <1>0
<1>4. s % 32 = s /\ (32 * s + t) % 32 = t
  OBVIOUS
<1>5. /\ j \in Nat /\ (4 * j) \div 4 = j
      /\ ((4 * j) \div 2^23) % 32 = s /\ ((4 * j) \div 2^18) % 32 = t
  BY ONLY <1>1, <1>2, <1>3, <1>4
<1>6. QED
  BY <1>5 DEF j, Jumped

(* The lower half of a jump target.                                        *)
LEMMA JumpHalf ==
  ASSUME NEW s \in 0 .. 31, NEW t \in 0 .. 31,
         NEW d \in 0 .. 31, NEW a \in 0 .. 31, NEW f \in 0 .. 63
  PROVE  Halved(Target26(s, t, Half(d, a, f)), d, a, f)
<1> DEFINE j == Target26(s, t, Half(d, a, f))
<1>0. j = (s * 32 + t) * 65536 + (d * 2048 + a * 64 + f) /\ j \in Int
  BY DEF Target26, Half
<1> HIDE DEF j
<1>1. /\ j \div 2048 = (s * 32 + t) * 32 + d
      /\ j \div 64 = (s * 32 + t) * 1024 + d * 32 + a
      /\ j % 64 = f
  BY <1>0
<1>2. /\ ((s * 32 + t) * 32 + d) % 32 = d
      /\ ((s * 32 + t) * 1024 + d * 32 + a) % 32 = a
  OBVIOUS
<1>3. (j \div 2048) % 32 = d /\ (j \div 64) % 32 = a /\ j % 64 = f
  BY ONLY <1>1, <1>2
<1>4. QED
  BY <1>0, <1>3 DEF j, Halved

(* A code over its four fields, taken apart.                               *)
LEMMA CodeBits ==
  ASSUME NEW s \in 0 .. 31, NEW t \in 0 .. 31, NEW d \in 0 .. 31, NEW a \in 0 .. 31
  PROVE  Coded(Code20(s, t, d, a), s, t, d, a)
<1> DEFINE c == Code20(s, t, d, a)
<1>0. c = ((s * 32 + t) * 32 + d) * 32 + a /\ c \in Nat
  BY DEF Code20
<1> HIDE DEF c
<1>1. c \div 2^15 = s /\ c \div 2^10 = 32 * s + t /\ c \div 32 = (s * 32 + t) * 32 + d
      /\ c % 32 = a
  BY <1>0
<1>2. s % 32 = s /\ (32 * s + t) % 32 = t /\ ((s * 32 + t) * 32 + d) % 32 = d
  OBVIOUS
<1>3. /\ c \in Nat
      /\ (c \div 2^15) % 32 = s /\ (c \div 2^10) % 32 = t
      /\ (c \div 32) % 32 = d /\ c % 32 = a
  BY ONLY <1>0, <1>1, <1>2
<1>4. QED
  BY <1>3 DEF c, Coded

(* The lower half of a word is its immediate.                              *)
LEMMA ImmediateBits ==
  ASSUME NEW w \in Words, NEW n, n = Immediate(w) \/ n = SignExtend(Immediate(w))
  PROVE  /\ Immediate(w) \in Nat /\ Immediate(w) < 65536
         /\ n \in Int
         /\ (n \div 2048) % 32 = w.rd /\ (n \div 64) % 32 = w.sa /\ n % 64 = w.funct
<1>1. w.rd \in 0 .. 31 /\ w.sa \in 0 .. 31 /\ w.funct \in 0 .. 63
  BY WordFields
<1> DEFINE i == Half(w.rd, w.sa, w.funct)
<1>2. Immediate(w) = i
  BY DEF Immediate, Half
<1>3. Below64K(i) /\ Halved(i, w.rd, w.sa, w.funct)
  BY <1>1, HalfBits
<1>4. Halved(Lowered(i), w.rd, w.sa, w.funct)
  BY <1>1, NegativeBits
<1> HIDE DEF i
<1>5. n = i \/ n = Lowered(i)
  BY <1>2, <1>3, SignExtended DEF Below64K, Lowered
<1>6. QED
  BY <1>2, <1>3, <1>4, <1>5 DEF Below64K, Halved

(* The immediate of a word, put into another, makes it agree with the      *)
(* first wherever it lies, and changes nothing else.                       *)
LEMMA ImmediateBack ==
  ASSUME NEW w \in Words, NEW v \in Words, NEW type \in WithWords
  PROVE  LET u == PutImmediate(type, v, ImmediateOf(type, w))
         IN  /\ u \in Words
             /\ \A f \in DOMAIN u : u[f] = IF f \in Overlaid(type) THEN w[f] ELSE v[f]
<1> DEFINE n == ImmediateOf(type, w)
           u == PutImmediate(type, v, n)
           I == Immediate(w)
<1>0. /\ w.funct \in 0 .. 63 /\ w.sa \in 0 .. 31 /\ w.rd \in 0 .. 31
      /\ w.rt \in 0 .. 31 /\ w.rs \in 0 .. 31
  BY WordFields
<1>1. I \in Nat /\ I < 65536 /\ SignExtend(I) \in Int
  BY ImmediateBits
<1>2. (I \div 2048) % 32 = w.rd /\ (I \div 64) % 32 = w.sa /\ I % 64 = w.funct
  BY ImmediateBits
<1>3. LET m == SignExtend(I)
      IN  (m \div 2048) % 32 = w.rd /\ (m \div 64) % 32 = w.sa /\ m % 64 = w.funct
  <2>1. \A m : m = SignExtend(I) =>
          (m \div 2048) % 32 = w.rd /\ (m \div 64) % 32 = w.sa /\ m % 64 = w.funct
    BY ImmediateBits
  <2>2. QED
    BY <2>1
<1> HIDE DEF I
<1>4. ASSUME NEW m \in Int,
             (m \div 2048) % 32 = w.rd /\ (m \div 64) % 32 = w.sa /\ m % 64 = w.funct
      PROVE  LET x == WithImmediate(v, m)
             IN  /\ x \in Words
                 /\ x.rd = w.rd /\ x.sa = w.sa /\ x.funct = w.funct
                 /\ x.opcode = v.opcode /\ x.rs = v.rs /\ x.rt = v.rt
  <2> DEFINE x == WithImmediate(v, m)
  <2>1. /\ x \in Words
        /\ x.rd = (m \div 2048) % 32 /\ x.sa = (m \div 64) % 32 /\ x.funct = m % 64
        /\ x.opcode = v.opcode /\ x.rs = v.rs /\ x.rt = v.rt
    BY ONLY m \in Int, v \in Words, WithImmediateIs
  <2> HIDE DEF x
  <2>2. QED
    BY <1>4, <2>1 DEF x
<1>5. CASE type \in Signed
  <2>1. Overlaid(type) = {"rd", "sa", "funct"}
    BY <1>5 DEF Overlaid
  <2>2. \E m \in {I, SignExtend(I)} : u = WithImmediate(v, m)
    <3>1. CASE type = "imm"
      BY <3>1 DEF I, PutImmediate, ImmediateOf
    <3>2. CASE type = "immu"
      BY <3>2 DEF I, PutImmediate, ImmediateOf
    <3>3. CASE type = "imma"
      <4>1. n = 4 * SignExtend(I) /\ u = WithImmediate(v, n \div 4)
        BY <3>3 DEF I, PutImmediate, ImmediateOf
      <4>2. (4 * SignExtend(I)) \div 4 = SignExtend(I)
        BY <1>1
      <4>3. QED
        BY <4>1, <4>2
    <3>4. QED
      BY <1>5, <3>1, <3>2, <3>3 DEF Signed
  <2>3. PICK m \in {I, SignExtend(I)} : u = WithImmediate(v, m)
    BY <2>2
  <2>4. /\ u \in Words
        /\ u.rd = w.rd /\ u.sa = w.sa /\ u.funct = w.funct
        /\ u.opcode = v.opcode /\ u.rs = v.rs /\ u.rt = v.rt
    <3> HIDE DEF u
    <3>1. m \in Int
      BY <1>1, <2>3
    <3>2. (m \div 2048) % 32 = w.rd /\ (m \div 64) % 32 = w.sa /\ m % 64 = w.funct
      <4>1. CASE m = I
        BY ONLY <1>2, <4>1
      <4>2. CASE m = SignExtend(I)
        BY ONLY <1>3, <4>2
      <4>3. QED
        BY <2>3, <4>1, <4>2
    <3> DEFINE x == WithImmediate(v, m)
    <3>3. /\ x \in Words
          /\ x.rd = w.rd /\ x.sa = w.sa /\ x.funct = w.funct
          /\ x.opcode = v.opcode /\ x.rs = v.rs /\ x.rt = v.rt
      BY <1>4, <3>1, <3>2
    <3>4. u = x
      BY <2>3
    <3> HIDE DEF x
    <3>5. QED
      BY ONLY <3>3, <3>4
  <2> HIDE DEF u
  <2>5. QED
    BY <2>1, <2>4, WordFields DEF u
<1>6. CASE type = "jump"
  <2> DEFINE J == Target26(w.rs, w.rt, I)
  <2>1. Overlaid(type) = {"rs", "rt", "rd", "sa", "funct"}
    BY <1>6 DEF Overlaid, Signed
  <2>2. n = 4 * J
    BY <1>6 DEF ImmediateOf, I, Target26
  <2>3. /\ J \in Nat
        /\ (4 * J) \div 4 = J
        /\ ((4 * J) \div 2^23) % 32 = w.rs /\ ((4 * J) \div 2^18) % 32 = w.rt
    <3>1. Below64K(I)
      BY <1>1 DEF Below64K
    <3>2. Jumped(J, w.rs, w.rt)
      BY <1>0, <3>1, JumpBits
    <3> HIDE DEF J
    <3>3. QED
      BY <3>2 DEF Jumped
  <2>4. (J \div 2048) % 32 = w.rd /\ (J \div 64) % 32 = w.sa /\ J % 64 = w.funct
    <3>1. J = Target26(w.rs, w.rt, Half(w.rd, w.sa, w.funct))
      BY DEF I, Immediate, Half
    <3>2. Halved(Target26(w.rs, w.rt, Half(w.rd, w.sa, w.funct)), w.rd, w.sa, w.funct)
      BY <1>0, JumpHalf
    <3>3. Halved(J, w.rd, w.sa, w.funct)
      BY <3>1, <3>2
    <3> HIDE DEF J
    <3>4. QED
      BY <3>3 DEF Halved
  <2> HIDE DEF J
  <2> DEFINE x == WithImmediate(v, J)
  <2>5. /\ x \in Words
        /\ x.rd = w.rd /\ x.sa = w.sa /\ x.funct = w.funct /\ x.opcode = v.opcode
    BY <1>4, <2>3, <2>4
  <2>6. u = [x EXCEPT !.rs = w.rs, !.rt = w.rt]
    <3>1. u = [WithImmediate(v, n \div 4) EXCEPT
                 !.rs = (n \div 2^23) % 32, !.rt = (n \div 2^18) % 32]
      BY <1>6 DEF PutImmediate
    <3> HIDE DEF n, u
    <3>2. QED
      BY <2>2, <2>3, <3>1
  <2> HIDE DEF x
  <2>7. /\ u \in Words /\ u.opcode = v.opcode
        /\ u.rd = w.rd /\ u.sa = w.sa /\ u.funct = w.funct /\ u.rs = w.rs /\ u.rt = w.rt
    BY <1>0, <2>5, <2>6 DEF Words
  <2> HIDE DEF u
  <2>8. QED
    BY <2>1, <2>7, WordFields DEF u
<1>7. CASE type = "code"
  <2> DEFINE C == Code20(w.rs, w.rt, w.rd, w.sa)
  <2>1. Overlaid(type) = {"rs", "rt", "rd", "sa"}
    BY <1>7 DEF Overlaid, Signed
  <2>2. n = C
    BY <1>7 DEF ImmediateOf, Code20
  <2>3. /\ (C \div 2^15) % 32 = w.rs /\ (C \div 2^10) % 32 = w.rt
        /\ (C \div 32) % 32 = w.rd /\ C % 32 = w.sa
    <3>1. Coded(C, w.rs, w.rt, w.rd, w.sa)
      BY <1>0, CodeBits
    <3> HIDE DEF C
    <3>2. QED
      BY <3>1 DEF Coded
  <2>4. u = [v EXCEPT !.rs = w.rs, !.rt = w.rt, !.rd = w.rd, !.sa = w.sa]
    <3>1. u = [v EXCEPT !.rs = (n \div 2^15) % 32, !.rt = (n \div 2^10) % 32,
                        !.rd = (n \div 32) % 32, !.sa = n % 32]
      BY <1>7 DEF PutImmediate
    <3> HIDE DEF n, u, C
    <3>2. QED
      BY <2>2, <2>3, <3>1
  <2>5. /\ u \in Words /\ u.opcode = v.opcode /\ u.funct = v.funct
        /\ u.rd = w.rd /\ u.sa = w.sa /\ u.rs = w.rs /\ u.rt = w.rt
    BY <1>0, <2>4 DEF Words
  <2> HIDE DEF u
  <2>6. QED
    BY <2>1, <2>5, WordFields DEF u
<1>8. QED
  BY <1>5, <1>6, <1>7 DEF WithWords

(* Words that agree where an immediate lies have the same one.             *)
LEMMA SameImmediate ==
  ASSUME NEW w \in Words, NEW v \in Words, NEW type \in WithWords,
         \A f \in Overlaid(type) : v[f] = w[f]
  PROVE  ImmediateOf(type, v) = ImmediateOf(type, w)
<1>1. CASE type \in Signed
  <2>0. Overlaid(type) = {"rd", "sa", "funct"}
    BY <1>1 DEF Overlaid
  <2>1. Immediate(v) = Immediate(w)
    BY <2>0 DEF Immediate
  <2>2. QED
    BY <1>1, <2>1 DEF ImmediateOf, Signed
<1>2. CASE type = "jump"
  <2>1. v.rs = w.rs /\ v.rt = w.rt /\ v.rd = w.rd /\ v.sa = w.sa /\ v.funct = w.funct
    BY <1>2 DEF Overlaid, Signed
  <2>2. Immediate(v) = Immediate(w)
    BY <2>1 DEF Immediate
  <2>3. QED
    BY <1>2, <2>1, <2>2 DEF ImmediateOf
<1>3. CASE type = "code"
  <2>1. v.rs = w.rs /\ v.rt = w.rt /\ v.rd = w.rd /\ v.sa = w.sa
    BY <1>3 DEF Overlaid, Signed
  <2>2. QED
    BY <1>3, <2>1 DEF ImmediateOf
<1>4. QED
  BY <1>1, <1>2, <1>3 DEF WithWords
-----------------------------------------------------------------------------
Fields == {"opcode", "rs", "rt", "rd", "sa", "funct"}

(* A function on the fields whose values fit them is a word.               *)
LEMMA WordOfFields ==
  ASSUME NEW w, w = [f \in Fields |-> w[f]],
         w["opcode"] \in 0 .. 63, w["funct"] \in 0 .. 63,
         \A f \in Registers : w[f] \in 0 .. 31
  PROVE  w \in Words
<1>1. /\ w["rs"] \in 0 .. 31 /\ w["rt"] \in 0 .. 31
      /\ w["rd"] \in 0 .. 31 /\ w["sa"] \in 0 .. 31
  BY DEF Registers
<1>2. DOMAIN w = {"opcode", "rs", "rt", "rd", "sa", "funct"}
  BY DEF Fields
<1>3. QED
  BY <1>1, <1>2 DEF Words, Fields

(* An immediate is a number.                                               *)
LEMMA ImmediateInt ==
  ASSUME NEW w \in Words, NEW type
  PROVE  ImmediateOf(type, w) \in Int
<1>1. /\ w.rd \in Int /\ w.sa \in Int /\ w.rt \in Int /\ w.rs \in Int
      /\ Immediate(w) \in Int /\ SignExtend(Immediate(w)) \in Int
  BY WordFields, ImmediateBits
<1>2. /\ 4 * SignExtend(Immediate(w)) \in Int
      /\ 4 * ((w.rs * 32 + w.rt) * 2^16 + Immediate(w)) \in Int
      /\ ((w.rs * 32 + w.rt) * 32 + w.rd) * 32 + w.sa \in Int
      /\ 0 \in Int
  BY <1>1
<1>3. QED
  BY ONLY <1>1, <1>2, Zenon DEF ImmediateOf

(* An instruction decoded holds the operands of its word.                  *)
LEMMA DecodedIs ==
  ASSUME NEW name, NEW word \in Words, Decoded(name, word).opcode # "none"
  PROVE  LET ins == Decoded(name, word)
             op  == ins.opcode
         IN  /\ op \in Opcodes
             /\ ins.imm \in Int
             /\ \A f \in Registers : ins[f] \in 0 .. 31
             /\ \/ word = ZeroWord /\ op = "NOP"
                \/ /\ word # ZeroWord /\ op = name /\ op # "NOP"
                   /\ \A f \in Operands(op) \cap Registers : ins[f] = word[f]
                   /\ "imm" \in Operands(op) => ins.imm = ImmediateOf(Type(op), word)
<1> DEFINE ins == Decoded(name, word)
<1>1. CASE word = ZeroWord
  <2>1. ins = [NoInstruction EXCEPT !.opcode = "NOP"]
    BY <1>1 DEF Decoded
  <2>2. ins.opcode = "NOP" /\ ins.imm = 0 /\ \A f \in Registers : ins[f] = 0
    BY <2>1 DEF NoInstruction, Registers
  <2>3. "NOP" \in Opcodes
    BY DEF Opcodes
  <2>4. QED
    BY <1>1, <2>2, <2>3
<1>2. CASE word # ZeroWord
  <2>1. name \in Opcodes /\ name # "NOP"
    <3> SUFFICES ASSUME name \notin Opcodes \/ name = "NOP" PROVE FALSE
      OBVIOUS
    <3>1. ins = NoInstruction
      BY <1>2 DEF Decoded
    <3>2. QED
      BY <3>1 DEF NoInstruction
  <2> DEFINE type == Type(name)
             kept == CASE type = "reg"  -> {"rs", "rt", "rd", "sa"}
                       [] type = "regf" -> {"rt", "rd", "sa"}
                       [] type \in {"imm", "immu", "imma"} -> {"rs", "rt"}
                       [] OTHER -> {}
             i    == ImmediateOf(type, word)
  <2>2. ins = [f \in DOMAIN NoInstruction |->
                 CASE f = "opcode" -> name
                   [] f = "imm"    -> i
                   [] OTHER        -> IF f \in kept THEN word[f] ELSE 0]
    BY <1>2, <2>1, Zenon DEF Decoded
  <2>3. Operands(name) \cap Registers \subseteq kept
    <3>1. type = "reg" => kept = {"rs", "rt", "rd", "sa"}
      BY Zenon
    <3>2. type = "regf" => kept = {"rt", "rd", "sa"}
      BY Zenon
    <3>3. type \in {"imm", "immu", "imma"} => kept = {"rs", "rt"}
      BY Zenon
    <3> HIDE DEF type, kept
    <3>4. /\ type \in Types
          /\ type = "reg" => Operands(name) \subseteq Registers
          /\ type = "regf" => Operands(name) \subseteq {"rt", "rd", "sa"}
          /\ type \in {"imm", "immu", "imma"} => Operands(name) \subseteq {"rs", "rt", "imm"}
          /\ type \in {"code", "jump"} => Operands(name) = {"imm"}
          /\ type = "nop" => Operands(name) = {}
      BY <2>1, OperandsByType DEF type
    <3>5. QED
      BY <3>1, <3>2, <3>3, <3>4 DEF Types, Registers
  <2>4. i \in Int
    BY ImmediateInt
  <2> HIDE DEF type, kept, i, ins
  <2>5. DOMAIN NoInstruction = Registers \cup {"opcode", "imm"}
    BY DEF NoInstruction, Registers
  <2>6. ins.opcode = name
    BY <2>2, <2>5, Zenon
  <2>7. ins.imm = i
    <3>1. "imm" \in DOMAIN NoInstruction /\ "imm" # "opcode"
      BY <2>5
    <3>2. QED
      BY <2>2, <3>1, Zenon
  <2>8. \A f \in Registers : ins[f] = IF f \in kept THEN word[f] ELSE 0
    <3> TAKE f \in Registers
    <3>1. f \in DOMAIN NoInstruction /\ f # "opcode" /\ f # "imm"
      BY <2>5 DEF Registers
    <3>2. QED
      BY <2>2, <3>1, Zenon
  <2>9. \A f \in Registers : ins[f] \in 0 .. 31
    BY <2>8, WordFields
  <2>10. \A f \in Operands(name) \cap Registers : ins[f] = word[f]
    BY <2>3, <2>8
  <2>11. QED
    BY <1>2, <2>1, <2>4, <2>6, <2>7, <2>9, <2>10 DEF ins, i, type
<1>3. QED
  BY <1>1, <1>2

(* What is printed of an instruction reads back as its operands.           *)
LEMMA ReadBack ==
  ASSUME NEW ins, ins.opcode \in Opcodes, ins.imm \in Int,
         \A f \in Registers : ins[f] \in 0 .. 31,
         NEW a \in Int, NEW c \in Int, NEW sa \in Nat
  PROVE  LET op   == ins.opcode
             back == As(Disas(ins, a), c, sa)
         IN  /\ back.opcode = op
             /\ back.imm \in Int
             /\ c = a /\ "imm" \in Operands(op) => back.imm = ins.imm
             /\ \A f \in Registers :
                  /\ f \in Operands(op) => back[f] = ins[f]
                  /\ back[f] \in Nat
                  /\ f # "sa" => back[f] \in 0 .. 31
<1> DEFINE op   == ins.opcode
           t    == Disas(ins, a)
           back == As(t, c, sa)
<1>1. t.op = op /\ DOMAIN t.args = Operands(op)
  BY DEF Disas
<1>2. ASSUME NEW f \in Operands(op)
      PROVE  t.args[f] = IF f = "imm" /\ Type(op) = "imma" THEN ins.imm + a + 4
                         ELSE ins[f]
  BY DEF Disas
<1> HIDE DEF t
<1>3. DOMAIN NoInstruction = Registers \cup {"opcode", "imm"}
  BY DEF NoInstruction, Registers
<1>4. back.opcode = op
  BY <1>1, <1>3, Zenon DEF As
<1>5. back.imm = (IF "imm" \in Operands(op) THEN t.args["imm"] ELSE 0)
                 - (IF Type(op) = "imma" THEN c + 4 ELSE 0)
  <2>1. "imm" \in DOMAIN NoInstruction /\ "imm" # "opcode"
    BY <1>3
  <2>2. QED
    BY <1>1, <2>1, Zenon DEF As
<1>6. \A f \in Registers : back[f] = IF f \in Operands(op) THEN t.args[f]
                                     ELSE IF f = "sa" THEN sa ELSE 0
  <2> TAKE f \in Registers
  <2>1. f \in DOMAIN NoInstruction /\ f # "opcode" /\ f # "imm"
    BY <1>3 DEF Registers
  <2>2. QED
    BY <1>1, <2>1, Zenon DEF As
<1>7. \A f \in Registers : f \in Operands(op) => t.args[f] = ins[f]
  BY <1>2 DEF Registers
<1> HIDE DEF back
<1>8. back.imm \in Int /\ (c = a /\ "imm" \in Operands(op) => back.imm = ins.imm)
  <2>1. CASE "imm" \in Operands(op)
    <3>1. t.args["imm"] = IF Type(op) = "imma" THEN ins.imm + a + 4 ELSE ins.imm
      BY <1>2, <2>1
    <3>2. QED
      BY <1>5, <2>1, <3>1
  <2>2. CASE "imm" \notin Operands(op)
    BY <1>5, <2>2
  <2>3. QED
    BY <2>1, <2>2
<1>9. ASSUME NEW f \in Registers
      PROVE  /\ f \in Operands(op) => back[f] = ins[f]
             /\ back[f] \in Nat
             /\ f # "sa" => back[f] \in 0 .. 31
  <2>1. CASE f \in Operands(op)
    <3>1. back[f] = ins[f]
      BY <1>6, <1>7, <2>1
    <3>2. QED
      BY <2>1, <3>1
  <2>2. CASE f \notin Operands(op)
    <3>1. back[f] = IF f = "sa" THEN sa ELSE 0
      BY <1>6, <2>2
    <3>2. QED
      BY <2>2, <3>1
  <2>3. QED
    BY <2>1, <2>2
<1>10. QED
  BY <1>4, <1>8, <1>9 DEF back, t
-----------------------------------------------------------------------------
(* Operations that write an immediate into the lower half of a word.       *)
Immediates == {
  "ADDI", "ADDIU", "DADDI", "DADDIU", "SLTI", "ANDI", "ORI", "SLTIU", "XORI", "LUI",
  "BEQ", "BEQL", "BNE", "BNEL", "BGEZ", "BGEZAL", "BGEZALL", "BGEZL", "BGTZ", "BGTZL",
  "BLEZ", "BLEZL", "BLTZ", "BLTZAL", "BLTZALL", "BLTZL", "BC1F", "BC1T", "BC0F",
  "BC0FL", "BC0T", "BC0TL", "CACHE", "J", "JAL", "LB", "LBU", "LD", "LDL", "LDR", "LH",
  "LHU", "LW", "LWL", "LWR", "LWU", "PREF", "SB", "SD", "SDL", "SDR", "SH", "SW", "SWL",
  "SWR", "LQ", "SQ", "LDC1", "LWC1", "SDC1", "SWC1", "TEQI", "TGEI", "TGEIU", "TLTI",
  "TLTIU", "TNEI", "MTSAB", "MTSAH"}

Codes == {"BREAK", "SYSCALL"}

(* The sets above are those of the patterns.                               *)
LEMMA ImmediatesAre ==
  ASSUME NEW op \in Opcodes
  PROVE  /\ Type(op) \in {"imm", "immu", "imma", "jump"} => op \in Immediates
         /\ Type(op) = "code" => op \in Codes
<1>1. Type(op) = Form(op).type
  BY DEF Type, instructions
<1>2. Form(op).type \in {"imm", "immu", "imma", "jump"} => op \in Immediates
  BY DEF Form, Immediates
<1>3. Form(op).type = "code" => op \in Codes
  BY DEF Form, Codes
<1>4. QED
  BY <1>1, <1>2, <1>3

(* The fields of a word that the encoding of an operation does not take    *)
(* from its template.                                                      *)
Touched(op) ==
  (Filled(op) \cap Registers)
    \cup (IF "imm" \in Filled(op) THEN Overlaid(Type(op)) ELSE {})

(* What is filled in are the operands, but for a few operations.           *)
LEMMA FilledIs ==
  ASSUME NEW op \in Opcodes
  PROVE  /\ op \notin Lossy \ LateCompares => Filled(op) = Operands(op)
         /\ op \in QuadShifts => Filled(op) = {"rs", "rt", "sa"}
         /\ op \in ControlMoves => Filled(op) = {"rt"}
         /\ op = "ADDA_S" => Filled(op) = {}
         /\ Filled(op) \subseteq Registers \cup {"imm"}
         /\ "imm" \in Filled(op) =>
              /\ op \notin Lossy /\ op # "NOP"
              /\ Type(op) \in WithWords /\ Filled(op) = Operands(op)
<1>1. op \in QuadShifts => Filled(op) = {"rs", "rt", "sa"}
  <2>1. op \in QuadShifts => op \notin ControlMoves /\ op # "ADDA_S"
    BY DEF ControlMoves, QuadShifts
  <2>2. QED
    BY <2>1, Zenon DEF Filled
<1>2. op \in ControlMoves => Filled(op) = {"rt"}
  <2>1. op \in ControlMoves => op \notin QuadShifts /\ op # "ADDA_S"
    BY DEF ControlMoves, QuadShifts
  <2>2. QED
    BY <2>1, Zenon DEF Filled
<1>3. op = "ADDA_S" => Filled(op) = {}
  <2>1. op = "ADDA_S" => op \notin QuadShifts /\ op \notin ControlMoves
    BY DEF ControlMoves, QuadShifts
  <2>2. QED
    BY <2>1, Zenon DEF Filled
<1>4. op \notin Lossy \ LateCompares => Filled(op) = Operands(op)
  <2>1. op \notin Lossy \ LateCompares =>
          op \notin QuadShifts /\ op \notin ControlMoves /\ op # "ADDA_S"
    BY DEF Lossy, ControlMoves, QuadShifts, LateCompares
  <2>2. QED
    BY <2>1, Zenon DEF Filled
<1>5. Operands(op) \subseteq Registers \cup {"imm"}
  BY OperandsByType DEF Types, Registers
<1>6. "imm" \in Operands(op) => Type(op) \in WithWords
  BY OperandsByType DEF Types, Registers, WithWords, Signed
<1>7. op \in Lossy \ LateCompares => op \in QuadShifts \/ op \in ControlMoves \/ op = "ADDA_S"
  BY DEF Lossy
<1>8. "imm" \in Operands(op) => op \notin LateCompares /\ op # "NOP"
  <2>1. "imm" \in Operands(op) => op \in Immediates \cup Codes
    BY <1>6, ImmediatesAre DEF WithWords, Signed
  <2>2. \A o \in Immediates \cup Codes : o \notin LateCompares /\ o # "NOP"
    BY DEF Immediates, Codes, LateCompares
  <2>3. QED
    BY <2>1, <2>2
<1>9. QED
  BY <1>1, <1>2, <1>3, <1>4, <1>5, <1>6, <1>7, <1>8 DEF Registers

(* A word an immediate is put into stays a word.                           *)
LEMMA PutImmediateType ==
  ASSUME NEW v \in Words, NEW n \in Int, NEW type \in WithWords
  PROVE  PutImmediate(type, v, n) \in Words
<1>1. n \div 4 \in Int
  OBVIOUS
<1>2. WithImmediate(v, n) \in Words /\ WithImmediate(v, n \div 4) \in Words
  BY <1>1, WithImmediateIs
<1>3. CASE type \in {"imm", "immu"}
  BY <1>2, <1>3 DEF PutImmediate
<1>4. CASE type = "imma"
  BY <1>2, <1>4 DEF PutImmediate
<1>5. CASE type = "jump"
  <2> DEFINE x == WithImmediate(v, n \div 4)
             s == (n \div 2^23) % 32
             t == (n \div 2^18) % 32
  <2>1. PutImmediate(type, v, n) = [x EXCEPT !.rs = s, !.rt = t]
    BY <1>5 DEF PutImmediate
  <2>2. s \in 0 .. 31 /\ t \in 0 .. 31
    OBVIOUS
  <2> HIDE DEF x, s, t
  <2>3. x \in Words
    BY <1>2 DEF x
  <2>4. [x EXCEPT !.rs = s, !.rt = t] \in Words
    BY <2>2, <2>3 DEF Words
  <2>5. QED
    BY <2>1, <2>4
<1>6. CASE type = "code"
  <2> DEFINE s == (n \div 2^15) % 32
             t == (n \div 2^10) % 32
             d == (n \div 32) % 32
             a == n % 32
  <2>1. PutImmediate(type, v, n) = [v EXCEPT !.rs = s, !.rt = t, !.rd = d, !.sa = a]
    BY <1>6 DEF PutImmediate
  <2>2. s \in 0 .. 31 /\ t \in 0 .. 31 /\ d \in 0 .. 31 /\ a \in 0 .. 31
    OBVIOUS
  <2> HIDE DEF s, t, d, a
  <2>3. [v EXCEPT !.rs = s, !.rt = t, !.rd = d, !.sa = a] \in Words
    BY <2>2 DEF Words
  <2>4. QED
    BY <2>1, <2>3
<1>7. QED
  BY <1>3, <1>4, <1>5, <1>6 DEF WithWords, Signed

(* The word e that the line of an instruction assembles to: the operands   *)
(* are those of the word it came from, the rest is as in the template; as  *)
(* far as it is assembled at c, where it came from.                        *)
Comes(e, op, word, a, c) ==
  /\ e \in Words
  /\ op = "NOP" => e = ZeroWord
  /\ c = a /\ op \notin LateCompares \cup {"NOP"} =>
       \A f \in Fields \ Touched(op) : e[f] = opcode_buffer[op][f]
  /\ c = a /\ op \notin Lossy \cup {"NOP"} => \A f \in Touched(op) : e[f] = word[f]

(* Any instruction, wherever it is assembled.                              *)
LEMMA Encoded ==
  ASSUME NEW name, NEW word \in Words, Decoded(name, word).opcode # "none",
         NEW a \in Int, NEW c \in Int, NEW sa \in Nat
  PROVE  Comes(EncodeInstruction(As(Disas(Decoded(name, word), a), c, sa)),
               Decoded(name, word).opcode, word, a, c)
<1> DEFINE ins    == Decoded(name, word)
           op     == ins.opcode
           b      == As(Disas(ins, a), c, sa)
           e      == EncodeInstruction(b)
           t      == opcode_buffer[op]
           filled == Filled(op)
           fields == [f \in Fields |-> IF f \in filled THEN b[f] % 32 ELSE t[f]]
<1> SUFFICES Comes(e, op, word, a, c)
  OBVIOUS
<1>1. /\ op \in Opcodes /\ ins.imm \in Int
      /\ \A f \in Registers : ins[f] \in 0 .. 31
      /\ op # "NOP" =>
           /\ \A f \in Operands(op) \cap Registers : ins[f] = word[f]
           /\ "imm" \in Operands(op) => ins.imm = ImmediateOf(Type(op), word)
  BY DecodedIs
<1>2. /\ b.opcode = op /\ b.imm \in Int
      /\ c = a /\ "imm" \in Operands(op) => b.imm = ins.imm
      /\ \A f \in Registers : /\ f \in Operands(op) => b[f] = ins[f]
                              /\ b[f] \in Nat
                              /\ f # "sa" => b[f] \in 0 .. 31
  <2> HIDE DEF ins
  <2>1. QED
    BY <1>1, ReadBack
<1>3. t \in Words
  BY <1>1, Template
<1>4. /\ filled \subseteq Registers \cup {"imm"}
      /\ "imm" \in filled =>
           /\ op \notin Lossy /\ op # "NOP"
           /\ Type(op) \in WithWords /\ filled = Operands(op)
      /\ op \notin Lossy => filled = Operands(op)
  BY <1>1, FilledIs
<1>5. DOMAIN ZeroWord = Fields
  BY DEF ZeroWord, Fields
<1> DEFINE u == PutImmediate(Type(op), fields, b.imm)
<1>6. /\ op = "NOP" => e = ZeroWord
      /\ op # "NOP" /\ op \in LateCompares => e = [t EXCEPT !.rs = b.rd, !.rt = b.rt]
      /\ op # "NOP" /\ op \notin LateCompares /\ "imm" \in filled => e = u
      /\ op # "NOP" /\ op \notin LateCompares /\ "imm" \notin filled => e = fields
  <2>0. b.opcode = op
    BY <1>2
  <2>1. op = "NOP" => op \notin LateCompares /\ "imm" \notin filled
    BY <1>4 DEF LateCompares
  <2>2. op \in LateCompares => "imm" \notin filled
    BY <1>4 DEF Lossy
  <2> DEFINE same == [f \in DOMAIN ZeroWord |-> IF f \in filled THEN b[f] % 32 ELSE t[f]]
  <2>3. same = fields
    BY <1>5
  <2> HIDE DEF b, op
  <2>4. op = "NOP" => e = ZeroWord
    BY <2>0, <2>1, Zenon DEF EncodeInstruction
  <2>5. op # "NOP" /\ op \in LateCompares => e = [t EXCEPT !.rs = b.rd, !.rt = b.rt]
    BY <2>0, <2>2, Zenon DEF EncodeInstruction
  <2>6. op # "NOP" /\ op \notin LateCompares /\ "imm" \in filled =>
          e = PutImmediate(Type(op), same, b.imm)
    BY <2>0, Zenon DEF EncodeInstruction
  <2>7. op # "NOP" /\ op \notin LateCompares /\ "imm" \notin filled => e = same
    BY <2>0, Zenon DEF EncodeInstruction
  <2> HIDE DEF same, fields, e
  <2>8. QED
    BY <2>3, <2>4, <2>5, <2>6, <2>7
<1> HIDE DEF ins, op, b, e, t, filled, u
<1>7. \A f \in Registers : b[f] % 32 \in 0 .. 31
  BY <1>2
<1>8. /\ fields \in Words
      /\ \A f \in Fields : fields[f] = IF f \in filled THEN b[f] % 32 ELSE t[f]
  <2>1. \A f \in Registers : fields[f] \in 0 .. 31 /\ f \in Fields
    BY <1>3, <1>7, WordFields DEF Registers, Fields
  <2>2. fields["opcode"] \in 0 .. 63 /\ fields["funct"] \in 0 .. 63
    BY <1>3, <1>4, WordFields DEF Registers, Fields
  <2>3. fields = [f \in Fields |-> fields[f]]
    OBVIOUS
  <2> HIDE DEF fields
  <2>4. fields \in Words
    BY <2>1, <2>2, <2>3, WordOfFields
  <2>5. QED
    BY <2>4 DEF fields
<1>9. ASSUME op # "NOP", NEW f \in Registers, f \in filled, f \in Operands(op)
      PROVE  fields[f] = word[f]
  <2>1. b[f] = word[f] /\ word[f] \in 0 .. 31
    BY <1>1, <1>2, <1>9, WordFields
  <2>2. b[f] % 32 = word[f]
    BY <2>1
  <2>3. f \in Fields
    BY DEF Registers, Fields
  <2>4. QED
    BY <1>8, <1>9, <2>2, <2>3
<1> HIDE DEF fields
<1>10. CASE op = "NOP"
  <2>1. ZeroWord \in Words
    BY DEF ZeroWord, Words
  <2>2. QED
    BY <1>6, <1>10, <2>1 DEF Comes
<1>11. CASE op # "NOP" /\ op \in LateCompares
  <2>1. e = [t EXCEPT !.rs = b.rd, !.rt = b.rt]
    BY <1>6, <1>11
  <2>2. b.rd \in 0 .. 31 /\ b.rt \in 0 .. 31
    BY <1>2 DEF Registers
  <2>3. e \in Words
    BY <1>3, <2>1, <2>2 DEF Words
  <2>4. op \in Lossy
    BY <1>11 DEF Lossy
  <2>5. QED
    BY <1>11, <2>3, <2>4 DEF Comes
<1>12. CASE op # "NOP" /\ op \notin LateCompares /\ "imm" \in filled
  <2>0. e = u /\ u \in Words
    BY <1>2, <1>4, <1>6, <1>8, <1>12, PutImmediateType DEF u
  <2>a. CASE c # a
    BY <1>12, <2>0, <2>a DEF Comes
  <2> SUFFICES ASSUME c = a
               PROVE  /\ \A f \in Fields \ Touched(op) : u[f] = t[f]
                      /\ \A f \in Touched(op) : u[f] = word[f]
    BY <1>12, <2>0, <2>a DEF Comes, t
  <2>1. b.imm = ImmediateOf(Type(op), word)
    BY <1>1, <1>2, <1>4, <1>12
  <2>2. u \in Words
        /\ \A f \in DOMAIN u : u[f] = IF f \in Overlaid(Type(op)) THEN word[f] ELSE fields[f]
    BY <1>4, <1>8, <1>12, <2>1, ImmediateBack DEF u
  <2>3. DOMAIN u = Fields
    BY <2>2, WordFields DEF Fields
  <2>4. Touched(op) = (filled \cap Registers) \cup Overlaid(Type(op))
    BY <1>12 DEF Touched, filled
  <2>5. \A f \in Fields \ Touched(op) : u[f] = t[f]
    <3> TAKE f \in Fields \ Touched(op)
    <3>1. f # "imm"
      BY DEF Fields
    <3>2. f \notin filled
      BY <1>4, <2>4, <3>1
    <3>3. QED
      BY <1>8, <2>2, <2>3, <2>4, <3>2
  <2>6. \A f \in Touched(op) : u[f] = word[f]
    <3> TAKE f \in Touched(op)
    <3>1. f \in Fields
      BY <1>4, <2>4 DEF Registers, Fields, Overlaid
    <3>2. CASE f \in Overlaid(Type(op))
      BY <2>2, <2>3, <3>1, <3>2
    <3>3. CASE f \notin Overlaid(Type(op))
      <4>1. f \in Registers /\ f \in filled /\ f \in Operands(op)
        BY <1>4, <1>12, <2>4, <3>3
      <4>2. QED
        BY <1>9, <1>12, <2>2, <2>3, <3>1, <3>3, <4>1
    <3>4. QED
      BY <3>2, <3>3
  <2>7. QED
    BY <2>5, <2>6
<1>13. CASE op # "NOP" /\ op \notin LateCompares /\ "imm" \notin filled
  <2>1. e = fields
    BY <1>6, <1>13
  <2>2. Touched(op) = filled \cap Registers /\ filled \cap Registers = filled
    BY <1>4, <1>13 DEF Touched, filled
  <2>3. \A f \in Fields \ Touched(op) : e[f] = t[f]
    BY <1>8, <2>1, <2>2
  <2>4. op \notin Lossy => \A f \in Touched(op) : e[f] = word[f]
    BY <1>4, <1>9, <1>13, <2>1, <2>2
  <2>5. QED
    BY <1>8, <1>13, <2>1, <2>3, <2>4 DEF Comes, t
<1>14. QED
  BY <1>10, <1>11, <1>12, <1>13

(* The same of a line that is assembled where it came from.                *)
LEMMA EncodedInPlace ==
  ASSUME NEW name, NEW word \in Words, Decoded(name, word).opcode # "none",
         NEW a \in Int, NEW sa \in Nat,
         NEW op, op = Decoded(name, word).opcode,
         NEW e, e = EncodeInstruction(As(Disas(Decoded(name, word), a), a, sa))
  PROVE  /\ e \in Words
         /\ op = "NOP" => e = ZeroWord
         /\ op \notin LateCompares \cup {"NOP"} =>
              \A f \in Fields \ Touched(op) : e[f] = opcode_buffer[op][f]
         /\ op \notin Lossy \cup {"NOP"} => \A f \in Touched(op) : e[f] = word[f]
<1>1. Comes(e, op, word, a, a)
  BY Encoded
<1>2. QED
  BY <1>1 DEF Comes
-----------------------------------------------------------------------------
(* The names in the tables of floating point operations, in those of the   *)
(* debug and performance registers, and with a pattern of their own.       *)
FloatNames == {
  "ADD_S", "SUB_S", "MUL_S", "DIV_S", "SQRT_S", "ABS_S", "MOV_S", "NEG_S",
  "ROUND_L_S", "TRUNC_L_S", "CEIL_L_S", "FLOOR_L_S", "ROUND_W_S", "TRUNC_W_S",
  "CEIL_W_S", "FLOOR_W_S", "ADDA_S", "CVT_D_S", "CVT_W_S", "CVT_L_S", "C_F_S",
  "C_UN_S", "C_EQ_S", "C_UEQ_S", "C_OLT_S", "C_ULT_S", "C_OLE_S", "C_ULE_S",
  "C_SF_S", "C_NGLE_S", "C_SEQ_S", "C_NGL_S", "C_LT_S", "C_NGE_S", "C_LE_S",
  "ADD_D", "SUB_D", "MUL_D", "DIV_D", "SQRT_D", "ABS_D", "MOV_D", "NEG_D",
  "ROUND_L_D", "TRUNC_L_D", "CEIL_L_D", "FLOOR_L_D", "ROUND_W_D", "TRUNC_W_D",
  "CEIL_W_D", "FLOOR_W_D", "CVT_S_D", "CVT_W_D", "CVT_L_D", "C_F_D", "C_UN_D",
  "C_EQ_D", "C_UEQ_D", "C_OLT_D", "C_ULT_D", "C_OLE_D", "C_ULE_D", "C_SF_D",
  "C_NGLE_D", "C_SEQ_D", "C_NGL_D", "C_LT_D", "C_NGE_D", "C_LE_D", "CVT_S_W",
  "CVT_D_W", "CVT_S_L", "CVT_D_L"}

DebugNames == {
  "MFBPC", "MFIAB", "MFIABM", "MFDAB", "MFDABM", "MFDVB", "MFDVBM", "MTBPC",
  "MTIAB", "MTIABM", "MTDAB", "MTDABM", "MTDVB", "MTDVBM", "MFPS", "MFPC", "MTPS",
  "MTPC"}

OtherNames == {
  "ADDI", "ADDIU", "DADDI", "DADDIU", "SLTI", "ANDI", "ORI", "SLTIU", "XORI",
  "LUI", "BEQ", "BEQL", "BNE", "BNEL", "BGEZ", "BGEZAL", "BGEZALL", "BGEZL",
  "BGTZ", "BGTZL", "BLEZ", "BLEZL", "BLTZ", "BLTZAL", "BLTZALL", "BLTZL", "BC1F",
  "BC1T", "BC0F", "BC0FL", "BC0T", "BC0TL", "CACHE", "BREAK", "SYSCALL", "J",
  "JAL", "DIV", "DIVU", "MULTU", "TEQ", "TGE", "TGEU", "TLT", "TLTU", "TNE",
  "DIV1", "DIVU1", "MULT1", "MULTU1", "PDIVBW", "PDIVUW", "PDIVW", "DSLL",
  "DSLL32", "DSRA", "DSRA32", "DSRL", "DSRL32", "SLL", "SRA", "SRL", "PSLLH",
  "PSLLW", "PSRAH", "PSRAW", "PSRLH", "PSRLW", "JALR", "PLZCW", "JR", "MTHI",
  "MTLO", "MTHI1", "MTLO1", "MTSA", "PMTHI", "PMTHL_LW", "LB", "LBU", "LD", "LDL",
  "LDR", "LH", "LHU", "LW", "LWL", "LWR", "LWU", "PREF", "SB", "SD", "SDL", "SDR",
  "SH", "SW", "SWL", "SWR", "LQ", "SQ", "LDC1", "LWC1", "SDC1", "SWC1", "TEQI",
  "TGEI", "TGEIU", "TLTI", "TLTIU", "TNEI", "MTSAB", "MTSAH", "MFHI", "MFLO",
  "MFHI1", "MFLO1", "MFSA", "PMFHI", "PMFHL_LW", "PMFHL_UW", "PMFHL_SLW",
  "PMFHL_LH", "PMFHL_SH", "PMFLO", "SYNC", "PABSH", "PABSW", "PEXCH", "PEXCW",
  "PEXEH", "PEXEW", "PEXT5", "PPAC5", "PREVH", "PROT3W", "QFSRV", "DI", "EI",
  "ERET", "TLBP", "TLBR", "TLBWI", "TLBWR", "MFC0", "MTC0", "CFC1", "CTC1",
  "DMFC1", "DMTC1", "MFC1", "MTC1", "NOP"}

RegImmNames == {
  "BLTZ", "BGEZ", "BLTZL", "BGEZL", "TGEI", "TGEIU", "TLTI", "TLTIU", "TEQI",
  "TNEI", "BLTZAL", "BGEZAL", "BLTZALL", "BGEZALL", "MTSAB", "MTSAH"}

(* Operations whose shift amount, or another operand kept in its place, is *)
(* filled in.                                                              *)
ShiftNames == {
  "DSLL", "DSLL32", "DSRA", "DSRA32", "DSRL", "DSRL32", "SLL", "SRA", "SRL", "PSLLH",
  "PSLLW", "PSRAH", "PSRAW", "PSRLH", "PSRLW", "SYNC"}

(* What the tables of floating point operations hold.                      *)
LEMMA FloatTables ==
  /\ \A i \in 0 .. 63 :
       /\ SOpcodeLookUpTable[i] \in FloatNames \cup {R}
       /\ DOpcodeLookUpTable[i] \in FloatNames \cup {R}
       /\ WOpcodeLookUpTable[i] \in FloatNames \cup {R}
       /\ LOpcodeLookUpTable[i] \in FloatNames \cup {R}
<1>1. ASSUME NEW i \in 0 .. 63 PROVE SOpcodeLookUpTable[i] \in FloatNames \cup {R}
  BY DEF SOpcodeLookUpTable, Dense, R, FloatNames
<1>2. ASSUME NEW i \in 0 .. 63 PROVE DOpcodeLookUpTable[i] \in FloatNames \cup {R}
  BY DEF DOpcodeLookUpTable, Dense, R, FloatNames
<1>3. ASSUME NEW i \in 0 .. 63 PROVE WOpcodeLookUpTable[i] \in FloatNames \cup {R}
  BY SparseHolds DEF WOpcodeLookUpTable, R, FloatNames
<1>4. ASSUME NEW i \in 0 .. 63 PROVE LOpcodeLookUpTable[i] \in FloatNames \cup {R}
  BY SparseHolds DEF LOpcodeLookUpTable, R, FloatNames
<1>5. QED
  BY <1>1, <1>2, <1>3, <1>4

(* The moves of debug and performance registers, by name.                  *)
LEMMA DebugTables == DebugMoves \subseteq DebugNames
<1>1. \A i \in 0 .. 7 : MF0DebugOpcodeLookUpTable[i] \in DebugNames \cup {R}
  BY DEF MF0DebugOpcodeLookUpTable, Dense, R, DebugNames
<1>2. \A i \in 0 .. 7 : MT0DebugOpcodeLookUpTable[i] \in DebugNames \cup {R}
  BY DEF MT0DebugOpcodeLookUpTable, Dense, R, DebugNames
<1>3. \A i \in 0 .. 1 : MF0PrefOpcodeLookUpTable[i] \in DebugNames \cup {R}
  BY DEF MF0PrefOpcodeLookUpTable, Dense, R, DebugNames
<1>4. \A i \in 0 .. 1 : MT0PrefOpcodeLookUpTable[i] \in DebugNames \cup {R}
  BY DEF MT0PrefOpcodeLookUpTable, Dense, R, DebugNames
<1>5. QED
  BY <1>1, <1>2, <1>3, <1>4, Domains DEF DebugMoves, Named

(* The operations of the floating point tables.                            *)
LEMMA FloatOnes ==
  /\ FloatUnary \subseteq FloatNames
  /\ FloatArithmetic \subseteq FloatNames
  /\ \A table \in {"S", "D", "W", "L"} : \A i \in 0 .. 63 :
       Inner[table][i] # R =>
         /\ Inner[table][i] \in FloatNames
         /\ Inner[table][i] \in FloatUnary \cup FloatArithmetic \cup Compares
<1>1. /\ Named(SOpcodeLookUpTable) \subseteq FloatNames
      /\ Named(DOpcodeLookUpTable) \subseteq FloatNames
      /\ Named(WOpcodeLookUpTable) \subseteq FloatNames
      /\ Named(LOpcodeLookUpTable) \subseteq FloatNames
  BY FloatTables, Domains DEF Named
<1>2. FloatUnary \subseteq FloatNames
  BY <1>1 DEF FloatUnary
<1>3. FloatArithmetic \subseteq FloatNames
  BY DEF FloatArithmetic, FloatNames
<1>4. ASSUME NEW table \in {"S", "D", "W", "L"}, NEW i \in 0 .. 63, Inner[table][i] # R
      PROVE  Inner[table][i] \in Named(SOpcodeLookUpTable) \cup Named(DOpcodeLookUpTable)
               \cup Named(WOpcodeLookUpTable) \cup Named(LOpcodeLookUpTable)
  BY <1>4, Domains, TablesOfInner DEF Named
<1>5. QED
  BY <1>1, <1>2, <1>3, <1>4 DEF FloatUnary

(* No name is of two kinds.                                                *)
LEMMA NamesApart ==
  /\ FloatNames \cap OtherNames = {}
  /\ FloatNames \cap DebugNames = {}
  /\ DebugNames \cap OtherNames = {}
  /\ Compares \cap OtherNames = {}
<1>1. \A n \in FloatNames : n \notin OtherNames
  BY DEF FloatNames, OtherNames
<1>2. \A n \in FloatNames : n \notin DebugNames
  BY DEF FloatNames, DebugNames
<1>3. \A n \in DebugNames : n \notin OtherNames
  BY DEF DebugNames, OtherNames
<1>4. Compares \subseteq FloatNames \cup {R, "C_NGT_S", "C_NGT_D"}
  BY FloatTables DEF Compares
<1>5. R \notin OtherNames /\ "C_NGT_S" \notin OtherNames /\ "C_NGT_D" \notin OtherNames
  BY DEF R, OtherNames
<1>6. QED
  BY <1>1, <1>2, <1>3, <1>4, <1>5

(* The patterns of floating point operations.                              *)
LEMMA FloatForm ==
  ASSUME NEW op, op \in FloatUnary \cup FloatArithmetic \cup Compares,
         op \in FloatNames
  PROVE  Form(op).type = "regf"
<1>1. op \notin OtherNames /\ op \notin DebugMoves
  BY NamesApart, DebugTables
<1>2. /\ op \notin {"ADDI", "ADDIU", "DADDI", "DADDIU", "SLTI"}
      /\ op \notin {"ANDI", "ORI", "SLTIU", "XORI"}
      /\ op # "LUI"
      /\ op \notin {"BEQ", "BEQL", "BNE", "BNEL"}
      /\ op \notin {"BGEZ", "BGEZAL", "BGEZALL", "BGEZL", "BGTZ", "BGTZL",
           "BLEZ", "BLEZL", "BLTZ", "BLTZAL", "BLTZALL", "BLTZL"}
      /\ op \notin {"BC1F", "BC1T"}
      /\ op \notin {"BC0F", "BC0FL", "BC0T", "BC0TL"}
      /\ op # "CACHE"
      /\ op \notin {"BREAK", "SYSCALL"}
      /\ op \notin {"J", "JAL"}
      /\ op \notin {"DIV", "DIVU", "MULTU", "TEQ", "TGE", "TGEU", "TLT", "TLTU",
           "TNE", "DIV1", "DIVU1", "MULT1", "MULTU1", "PDIVBW", "PDIVUW",
           "PDIVW"}
      /\ op \notin {"DSLL", "DSLL32", "DSRA", "DSRA32", "DSRL", "DSRL32", "SLL",
           "SRA", "SRL", "PSLLH", "PSLLW", "PSRAH", "PSRAW", "PSRLH", "PSRLW"}
      /\ op \notin {"JALR", "PLZCW"}
      /\ op \notin {"JR", "MTHI", "MTLO", "MTHI1", "MTLO1", "MTSA", "PMTHI",
           "PMTHL_LW"}
      /\ op \notin {"LB", "LBU", "LD", "LDL", "LDR", "LH", "LHU", "LW", "LWL",
           "LWR", "LWU", "PREF", "SB", "SD", "SDL", "SDR", "SH", "SW", "SWL",
           "SWR", "LQ", "SQ"}
      /\ op \notin {"LDC1", "LWC1", "SDC1", "SWC1"}
      /\ op \notin {"TEQI", "TGEI", "TGEIU", "TLTI", "TLTIU", "TNEI", "MTSAB",
           "MTSAH"}
      /\ op \notin {"MFHI", "MFLO", "MFHI1", "MFLO1", "MFSA", "PMFHI",
           "PMFHL_LW", "PMFHL_UW", "PMFHL_SLW", "PMFHL_LH", "PMFHL_SH", "PMFLO"}
      /\ op # "SYNC"
      /\ op \notin {"PABSH", "PABSW", "PEXCH", "PEXCW", "PEXEH", "PEXEW",
           "PEXT5", "PPAC5", "PREVH", "PROT3W", "QFSRV"}
      /\ op \notin {"DI", "EI", "ERET", "TLBP", "TLBR", "TLBWI", "TLBWR"}
      /\ op \notin {"MFC0", "MTC0", "CFC1", "CTC1"}
      /\ op \notin {"DMFC1", "DMTC1", "MFC1", "MTC1"}
      /\ op # "NOP"
  BY <1>1 DEF OtherNames
<1>3. Form(op).type = "regf"
  BY <1>1, <1>2, Zenon DEF Form
<1>4. QED
  BY <1>3

(* Only shifts and floating point operations keep an operand in sa.        *)
LEMMA SaForm ==
  ASSUME NEW op, Form(op).para \cap {"%sa", "!sa", "@fd"} # {}
  PROVE  op \in ShiftNames \cup FloatNames
<1>1. op \in ShiftNames \/ op \in FloatArithmetic \/ op \in FloatUnary
  BY DEF Form, ShiftNames
<1>2. QED
  BY <1>1, FloatOnes

(* What REGIMM leads to keeps no operand in rt, which selects it.          *)
LEMMA RegImmForm ==
  ASSUME NEW op \in RegImmNames
  PROVE  /\ Form(op).para \in {{"$rs", "&im"}, {"$rs", "#im"}}
         /\ Form(op).type \in {"imm", "imma"}
<1>1. op \notin DebugMoves /\ op \notin FloatArithmetic /\ op \notin Compares
      /\ op \notin FloatUnary
  <2>1. \A n \in RegImmNames : n \in OtherNames
    BY DEF RegImmNames, OtherNames
  <2>2. QED
    BY <2>1, NamesApart, DebugTables, FloatOnes
<1>2. QED
  BY <1>1, ZenonT(60) DEF Form, RegImmNames
-----------------------------------------------------------------------------
(* What the tables lead to.                                                *)
SecondOf ==
  [table \in {"MMI", "COP0", "COP1"} |->
     IF table = "MMI" THEN {"MMI0", "MMI1", "MMI2", "MMI3", "PMFHL"}
     ELSE IF table = "COP0" THEN {"MF0", "MT0", "BC0", "C0"}
     ELSE {"BC1", "S", "D", "W", "L"}]

C0Names == {"TLBR", "TLBWI", "TLBWR", "TLBP", "ERET", "EI", "DI"}

BranchNames == {"BC0F", "BC0T", "BC0FL", "BC0TL", "BC1F", "BC1T"}

MoveNames == {"MFC1", "DMFC1", "CFC1", "MTC1", "DMTC1", "CTC1"}

(* What the tables of the first look-up hold.                              *)
LEMMA PrimaryHolds ==
  /\ PrimaryOpcodeLookUpTable[0] = "SPECIAL"
  /\ \A o \in 0 .. 63 :
       PrimaryOpcodeLookUpTable[o] \in Tables =>
         PrimaryOpcodeLookUpTable[o] \in {"SPECIAL", "REGIMM", "MMI", "COP0", "COP1"}
<1>1. PrimaryOpcodeLookUpTable[0] = "SPECIAL"
  BY DEF PrimaryOpcodeLookUpTable, Dense
<1>2. ASSUME NEW o \in 0 .. 63
      PROVE  PrimaryOpcodeLookUpTable[o]
               \notin Tables \ {"SPECIAL", "REGIMM", "MMI", "COP0", "COP1"}
  BY DEF PrimaryOpcodeLookUpTable, Dense, Tables, R
<1>3. QED
  BY <1>1, <1>2

LEMMA SpecialHolds ==
  /\ Inner["SPECIAL"][0] = "SLL"
  /\ \A i \in 0 .. 63 : Inner["SPECIAL"][i] \notin Tables \cup Immediates
<1>1. SpecialOpcodeLookUpTable[0] = "SLL"
  BY DEF SpecialOpcodeLookUpTable, Dense
<1>2. ASSUME NEW i \in 0 .. 63 PROVE SpecialOpcodeLookUpTable[i] \notin Tables
  BY DEF SpecialOpcodeLookUpTable, Dense, Tables, R
<1>3. ASSUME NEW i \in 0 .. 63 PROVE SpecialOpcodeLookUpTable[i] \notin Immediates
  BY DEF SpecialOpcodeLookUpTable, Dense, Immediates, R
<1>4. QED
  BY <1>1, <1>2, <1>3, TablesOfInner

LEMMA RegImmHolds ==
  \A i \in 0 .. 31 : /\ Inner["REGIMM"][i] \in RegImmNames \cup {R}
                     /\ Inner["REGIMM"][i] \notin Tables
<1>1. ASSUME NEW i \in 0 .. 31 PROVE RegImmOpcodeLookUpTable[i] \in RegImmNames \cup {R}
  BY DEF RegImmOpcodeLookUpTable, Dense, RegImmNames, R
<1>2. \A n \in RegImmNames \cup {R} : n \notin Tables
  BY DEF RegImmNames, Tables, R
<1>3. QED
  BY <1>1, <1>2, TablesOfInner

LEMMA MMIHolds ==
  \A i \in 0 .. 63 : /\ Inner["MMI"][i] \notin Immediates
                     /\ Inner["MMI"][i] \in Tables => Inner["MMI"][i] \in SecondOf["MMI"]
<1>1. ASSUME NEW i \in 0 .. 63 PROVE MMIOpcodeLookUpTable[i] \notin Immediates
  BY SparseHolds DEF MMIOpcodeLookUpTable, Immediates, R
<1>2. ASSUME NEW i \in 0 .. 63
      PROVE  MMIOpcodeLookUpTable[i]
               \notin Tables \ {"MMI0", "MMI1", "MMI2", "MMI3", "PMFHL"}
  BY SparseHolds DEF MMIOpcodeLookUpTable, Tables, R
<1>3. QED
  BY <1>1, <1>2, TablesOfInner DEF SecondOf

LEMMA COPHolds ==
  \A i \in 0 .. 31 : /\ Inner["COP0"][i] \in SecondOf["COP0"] \cup {R}
                     /\ Inner["COP1"][i] \in SecondOf["COP1"] \cup MoveNames \cup {R}
<1>1. ASSUME NEW i \in 0 .. 31
      PROVE  COP0OpcodeLookUpTable[i] \in {"MF0", "MT0", "BC0", "C0", R}
  BY SparseHolds DEF COP0OpcodeLookUpTable, R
<1>2. ASSUME NEW i \in 0 .. 31
      PROVE  COP1OpcodeLookUpTable[i] \in {"BC1", "S", "D", "W", "L", R} \cup MoveNames
  BY SparseHolds DEF COP1OpcodeLookUpTable, R, MoveNames
<1>3. QED
  BY <1>1, <1>2, TablesOfInner DEF SecondOf

(* The tables of multimedia operations that sa leads into.                 *)
LEMMA MMIsHold ==
  \A table \in SecondOf["MMI"] : \A i \in DOMAIN Inner[table] :
    Inner[table][i] \notin Tables \cup Immediates \cup ShiftNames \cup FloatNames \cup Codes
<1> DEFINE Avoided == Tables \cup Immediates \cup ShiftNames \cup FloatNames \cup Codes
<1>1. ASSUME NEW i \in 0 .. 31 PROVE MMI0OpcodeLookUpTable[i] \notin Avoided
  BY DEF MMI0OpcodeLookUpTable, Dense, R, Tables, Immediates, ShiftNames, FloatNames, Codes
<1>2. ASSUME NEW i \in 0 .. 31 PROVE MMI1OpcodeLookUpTable[i] \notin Avoided
  BY DEF MMI1OpcodeLookUpTable, Dense, R, Tables, Immediates, ShiftNames, FloatNames, Codes
<1>3. ASSUME NEW i \in 0 .. 31 PROVE MMI2OpcodeLookUpTable[i] \notin Avoided
  BY DEF MMI2OpcodeLookUpTable, Dense, R, Tables, Immediates, ShiftNames, FloatNames, Codes
<1>4. ASSUME NEW i \in 0 .. 31 PROVE MMI3OpcodeLookUpTable[i] \notin Avoided
  BY SparseHolds DEF MMI3OpcodeLookUpTable, R, Tables, Immediates, ShiftNames, FloatNames,
                     Codes
<1>5. ASSUME NEW i \in 0 .. 4 PROVE PMFHLOpcodeLookUpTable[i] \notin Avoided
  BY DEF PMFHLOpcodeLookUpTable, Dense, R, Tables, Immediates, ShiftNames, FloatNames, Codes
<1> HIDE DEF Avoided
<1>6. \A table \in {"MMI0", "MMI1", "MMI2", "MMI3", "PMFHL"} :
        \A i \in DOMAIN Inner[table] : Inner[table][i] \notin Avoided
  BY <1>1, <1>2, <1>3, <1>4, <1>5, TablesOfInner, Domains
<1>7. QED
  BY <1>6 DEF SecondOf, Avoided

LEMMA COPsHold ==
  /\ \A i \in DOMAIN Inner["BC0"] : Inner["BC0"][i] \in BranchNames
  /\ \A i \in DOMAIN Inner["BC1"] : Inner["BC1"][i] \in BranchNames
  /\ \A i \in DOMAIN Inner["C0"] : Inner["C0"][i] \in C0Names \cup {R}
<1>1. ASSUME NEW i \in 0 .. 3 PROVE BC0OpcodeLookUpTable[i] \in BranchNames
  BY DEF BC0OpcodeLookUpTable, Dense, BranchNames
<1>2. ASSUME NEW i \in 0 .. 1 PROVE BC1OpcodeLookUpTable[i] \in BranchNames
  BY DEF BC1OpcodeLookUpTable, Dense, BranchNames
<1>3. ASSUME NEW i \in 0 .. 63 PROVE C0OpcodeLookUpTable[i] \in C0Names \cup {R}
  BY SparseHolds DEF C0OpcodeLookUpTable, C0Names, R
<1>4. QED
  BY <1>1, <1>2, <1>3, TablesOfInner, Domains

(* Names of operations are no names of tables.                             *)
LEMMA NoTables ==
  \A n \in FloatNames \cup BranchNames \cup C0Names \cup MoveNames : n \notin Tables
<1>1. \A n \in FloatNames : n \notin Tables
  BY DEF FloatNames, Tables
<1>2. \A n \in BranchNames \cup C0Names \cup MoveNames : n \notin Tables
  BY DEF BranchNames, C0Names, MoveNames, Tables
<1>3. QED
  BY <1>1, <1>2

(* The patterns of branches, C0 operations and moves of coprocessors.      *)
LEMMA BranchForm ==
  ASSUME NEW op \in BranchNames
  PROVE  Form(op).type = "imma" /\ Form(op).para \subseteq {"%im", "&im"}
<1>1. op \notin DebugMoves /\ op \notin FloatArithmetic /\ op \notin Compares
      /\ op \notin FloatUnary
  <2>1. \A n \in BranchNames : n \in OtherNames
    BY DEF BranchNames, OtherNames
  <2>2. QED
    BY <2>1, NamesApart, DebugTables, FloatOnes
<1>2. QED
  BY <1>1, ZenonT(60) DEF Form, BranchNames

LEMMA C0Form ==
  ASSUME NEW op \in C0Names
  PROVE  Form(op).type = "reg" /\ Form(op).para = {}
<1>1. op \notin DebugMoves /\ op \notin FloatArithmetic /\ op \notin Compares
      /\ op \notin FloatUnary
  <2>1. \A n \in C0Names : n \in OtherNames
    BY DEF C0Names, OtherNames
  <2>2. QED
    BY <2>1, NamesApart, DebugTables, FloatOnes
<1>2. QED
  BY <1>1, ZenonT(60) DEF Form, C0Names

LEMMA MoveForm ==
  ASSUME NEW op \in MoveNames \ ControlMoves
  PROVE  Form(op).type = "reg" /\ Form(op).para \subseteq {"$rt", "@rd"}
<1>1. op \notin DebugMoves /\ op \notin FloatArithmetic /\ op \notin Compares
      /\ op \notin FloatUnary /\ op \notin ControlMoves
  <2>1. \A n \in MoveNames : n \in OtherNames
    BY DEF MoveNames, OtherNames
  <2>2. QED
    BY <2>1, NamesApart, DebugTables, FloatOnes
<1>2. op \in {"MFC1", "DMFC1", "MTC1", "DMTC1"}
  BY DEF MoveNames, ControlMoves
<1>3. QED
  BY <1>1, <1>2, ZenonT(60) DEF Form
-----------------------------------------------------------------------------
(* Which fields the encoding of an operation leaves to its template.       *)
LEMMA FunctUntouched ==
  ASSUME NEW op \in Opcodes
  PROVE  /\ "opcode" \notin Touched(op)
         /\ op \notin Immediates => "funct" \notin Touched(op)
<1>1. "opcode" \notin Touched(op)
  BY DEF Touched, Registers, Overlaid
<1>2. ASSUME "funct" \in Touched(op) PROVE op \in Immediates
  <2>1. "imm" \in Filled(op) /\ "funct" \in Overlaid(Type(op))
    BY <1>2 DEF Touched, Registers
  <2>2. Type(op) \in WithWords /\ Type(op) # "code"
    BY <2>1, FilledIs DEF Overlaid, Signed
  <2>3. QED
    BY <2>2, ImmediatesAre DEF WithWords, Signed
<1>3. QED
  BY <1>1, <1>2

(* The same of sa, which selects among multimedia operations.              *)
LEMMA SaUntouched ==
  ASSUME NEW op \in Opcodes,
         op \notin Immediates \cup ShiftNames \cup FloatNames \cup Codes
  PROVE  "sa" \notin Touched(op)
<1>1. "imm" \notin Filled(op)
  BY FilledIs, ImmediatesAre DEF WithWords, Signed
<1>2. op \notin QuadShifts
  <2>1. \A n \in QuadShifts : n \in ShiftNames
    BY DEF QuadShifts, ShiftNames
  <2>2. QED
    BY <2>1
<1>3. "sa" \notin Operands(op)
  <2> SUFFICES ASSUME "sa" \in Operands(op) PROVE FALSE
    OBVIOUS
  <2>1. PICK o \in Form(op).para : Target(o) = "sa"
    BY DEF Operands, instructions
  <2>2. o \in {"$rs", "$rt", "$rd", "@rd", "^rd", "%sa", "!sa", "@fd", "@fs", "@ft",
               "@rt", "#im", "%im", "&im", "*im", "!im"}
    <3> DEFINE F == Form(op)
    <3>1. /\ F.type \in Types
          /\ F.type = "reg" =>
               F.para \subseteq {"$rs", "$rt", "$rd", "@rd", "^rd", "%sa", "!sa"}
          /\ F.type = "regf" => F.para \subseteq {"@fd", "@fs", "@ft"}
          /\ F.type = "imm" => F.para \subseteq {"$rs", "$rt", "@rt", "#im"}
          /\ F.type = "immu" => F.para \subseteq {"$rs", "$rt", "%im"}
          /\ F.type = "imma" => F.para \subseteq {"$rs", "$rt", "&im", "%im"}
          /\ F.type = "code" => F.para = {"!im"}
          /\ F.type = "jump" => F.para = {"*im"}
          /\ F.type = "nop" => F.para = {}
      BY Patterns
    <3>2. o \in F.para
      OBVIOUS
    <3> HIDE DEF F
    <3>3. QED
      BY <3>1, <3>2 DEF Types
  <2>3. o \in {"%sa", "!sa", "@fd"}
    BY <2>1, <2>2, TargetOf
  <2>4. QED
    BY <2>3, SaForm
<1>4. "sa" \notin Filled(op)
  BY <1>2, <1>3, FilledIs DEF Lossy
<1>5. QED
  BY <1>1, <1>4 DEF Touched

(* The same of rt, which selects in REGIMM.                                *)
LEMMA RegImmUntouched ==
  ASSUME NEW op \in Opcodes, op \in RegImmNames
  PROVE  "rt" \notin Touched(op)
<1>1. /\ Type(op) \in {"imm", "imma"}
      /\ Operands(op) = {"rs", "imm"}
  BY RegImmForm, TargetOf DEF Type, Operands, instructions
<1>2. Filled(op) = Operands(op)
  <2>1. \A n \in RegImmNames : n \notin QuadShifts \cup ControlMoves \cup {"ADDA_S"}
    BY DEF RegImmNames, QuadShifts, ControlMoves
  <2>2. QED
    BY <2>1, FilledIs DEF Lossy
<1>3. QED
  BY <1>1, <1>2 DEF Touched, Overlaid, Signed

(* The same of floating point operations.                                  *)
LEMMA FloatUntouched ==
  ASSUME NEW op \in Opcodes, op \in FloatNames,
         op \in FloatUnary \cup FloatArithmetic \cup Compares
  PROVE  "rs" \notin Touched(op) /\ "funct" \notin Touched(op)
<1>1. Type(op) = "regf"
  BY FloatForm DEF Type, instructions
<1>2. Operands(op) \subseteq {"rt", "rd", "sa"}
  BY <1>1, OperandsByType
<1>3. \A n \in FloatNames : n \notin QuadShifts /\ n \notin ControlMoves
  BY DEF FloatNames, QuadShifts, ControlMoves
<1>4. Filled(op) \subseteq {"rt", "rd", "sa"}
  <2>1. op \notin Lossy \ LateCompares \/ op = "ADDA_S"
    BY <1>3 DEF Lossy
  <2>2. QED
    BY <1>2, <2>1, FilledIs
<1>5. QED
  BY <1>4 DEF Touched

(* The same of coprocessor operations.                                     *)
LEMMA CoprocessorUntouched ==
  ASSUME NEW op \in Opcodes
  PROVE  /\ op \in MoveNames \cup C0Names \cup BranchNames => "rs" \notin Touched(op)
         /\ op \in C0Names => "funct" \notin Touched(op)
         /\ op \in BranchNames => "rt" \notin Touched(op)
         /\ op \in ControlMoves => Touched(op) = {"rt"}
<1>1. op \in ControlMoves => Touched(op) = {"rt"}
  BY FilledIs DEF Touched, Registers
<1>2. ASSUME op \in MoveNames \ ControlMoves PROVE "rs" \notin Touched(op)
  <2>1. Operands(op) \subseteq {"rt", "rd"}
    BY <1>2, MoveForm, TargetOf DEF Operands, instructions
  <2>2. \A n \in MoveNames : n \notin QuadShifts \cup {"ADDA_S"}
    BY DEF MoveNames, QuadShifts
  <2>3. Filled(op) = Operands(op)
    BY <1>2, <2>2, FilledIs DEF Lossy
  <2>4. QED
    BY <2>1, <2>3 DEF Touched
<1>3. ASSUME op \in C0Names PROVE Touched(op) = {}
  <2>1. Operands(op) = {}
    BY <1>3, C0Form DEF Operands, instructions
  <2>2. \A n \in C0Names : n \notin QuadShifts \cup ControlMoves \cup {"ADDA_S"}
    BY DEF C0Names, QuadShifts, ControlMoves
  <2>3. Filled(op) = Operands(op)
    BY <1>3, <2>2, FilledIs DEF Lossy
  <2>4. QED
    BY <2>1, <2>3 DEF Touched
<1>4. ASSUME op \in BranchNames PROVE "rs" \notin Touched(op) /\ "rt" \notin Touched(op)
  <2>1. Operands(op) \subseteq {"imm"} /\ Type(op) = "imma"
    BY <1>4, BranchForm, TargetOf DEF Operands, instructions, Type
  <2>2. \A n \in BranchNames : n \notin QuadShifts \cup ControlMoves \cup {"ADDA_S"}
    BY DEF BranchNames, QuadShifts, ControlMoves
  <2>3. Filled(op) = Operands(op)
    BY <1>4, <2>2, FilledIs DEF Lossy
  <2>4. QED
    BY <2>1, <2>3 DEF Touched, Overlaid, Signed
<1>5. QED
  BY <1>1, <1>2, <1>3, <1>4

(* R is no operation: an entry of a table that says so is passed over.     *)
LEMMA PlacesNamed ==
  ASSUME NEW name, NEW w, NEW q \in Places(name, w), name # R
  PROVE  q[1] # R
<1>1. ASSUME NEW table, NEW f, NEW v, q \in Entries(table, f, v) PROVE q[1] # R
  BY <1>1 DEF Entries
<1>2. ASSUME NEW plain, NEW debug, NEW pref, q \in MovePlaces(plain, debug, pref, w),
             plain # R
      PROVE  q[1] # R
  BY <1>1, <1>2 DEF MovePlaces
<1>3. CASE name = "MF0"
  <2>1. q \in MovePlaces("MFC0", MF0DebugOpcodeLookUpTable, MF0PrefOpcodeLookUpTable, w)
    BY <1>3 DEF Places
  <2>2. QED
    BY <1>2, <2>1 DEF R
<1>4. CASE name = "MT0"
  <2>1. q \in MovePlaces("MTC0", MT0DebugOpcodeLookUpTable, MT0PrefOpcodeLookUpTable, w)
    BY <1>4 DEF Places
  <2>2. QED
    BY <1>2, <2>1 DEF R
<1>5. CASE name \in DOMAIN Inner \ {"MF0", "MT0"}
  <2>1. q \in Entries(Inner[name], IndexField(name), w)
    BY <1>5 DEF Places
  <2>2. QED
    BY <1>1, <2>1
<1>6. CASE name \notin DOMAIN Inner /\ name # "MF0" /\ name # "MT0"
  <2>1. q = <<name, w>>
    BY <1>6 DEF Places
  <2>2. QED
    BY <2>1
<1>7. QED
  BY <1>3, <1>4, <1>5, <1>6

(* The same of the whole walk.                                             *)
LEMMA PreparedNamed ==
  ASSUME NEW q \in Prepared
  PROVE  q[1] # R
<1>1. PICK second : q \in Places(second[1], second[2])
                    /\ \E p \in Entries(PrimaryOpcodeLookUpTable, "opcode", ZeroWord) :
                          second \in Places(p[1], p[2])
  BY DEF Prepared
<1>2. PICK p \in Entries(PrimaryOpcodeLookUpTable, "opcode", ZeroWord) :
        second \in Places(p[1], p[2])
  BY <1>1
<1>3. p[1] # R
  BY DEF Entries
<1>4. QED
  BY <1>1, <1>2, <1>3, PlacesNamed
-----------------------------------------------------------------------------
(* The names that the first look-up gives lead on by fields that the       *)
(* operations they lead to leave alone.                                    *)
LEMMA FirstStep ==
  ASSUME NEW P \in Tables \ {"MF0", "MT0"},
         NEW o \in 0 .. 63, P = PrimaryOpcodeLookUpTable[o],
         NEW i \in DOMAIN Inner[P], NEW S, S = Inner[P][i], S # R
  PROVE  /\ S \notin Tables /\ S \in Opcodes =>
              IndexField(P) \notin Touched(S)
         /\ S \in Tables => P \in {"MMI", "COP0", "COP1"} /\ S \in SecondOf[P]
<1>1. P \in {"SPECIAL", "REGIMM", "MMI", "COP0", "COP1"}
  BY PrimaryHolds
<1>2. CASE P = "SPECIAL"
  <2>1. i \in 0 .. 63 /\ IndexField(P) = "funct"
    BY <1>2, TablesOfInner, Domains, IndexFields
  <2>2. S \notin Tables /\ S \notin Immediates
    BY <1>2, <2>1, SpecialHolds
  <2>3. QED
    BY <2>1, <2>2, FunctUntouched
<1>3. CASE P = "REGIMM"
  <2>1. i \in 0 .. 31 /\ IndexField(P) = "rt"
    BY <1>3, TablesOfInner, Domains, IndexFields
  <2>2. S \notin Tables /\ S \in RegImmNames
    BY <1>3, <2>1, RegImmHolds
  <2>3. QED
    BY <2>1, <2>2, RegImmUntouched
<1>4. CASE P = "MMI"
  <2>1. i \in 0 .. 63 /\ IndexField(P) = "funct"
    BY <1>4, TablesOfInner, Domains, IndexFields
  <2>2. S \notin Immediates /\ (S \in Tables => S \in SecondOf["MMI"])
    BY <1>4, <2>1, MMIHolds
  <2>3. QED
    BY <1>4, <2>1, <2>2, FunctUntouched
<1>5. CASE P = "COP0"
  <2>1. i \in 0 .. 31
    BY <1>5, TablesOfInner, Domains
  <2>2. S \in SecondOf["COP0"]
    BY <1>5, <2>1, COPHolds
  <2>3. S \in Tables
    BY <2>2 DEF SecondOf, Tables
  <2>4. QED
    BY <1>5, <2>2, <2>3
<1>6. CASE P = "COP1"
  <2>1. i \in 0 .. 31 /\ IndexField(P) = "rs"
    BY <1>6, TablesOfInner, Domains, IndexFields
  <2>2. S \in SecondOf["COP1"] \/ S \in MoveNames
    BY <1>6, <2>1, COPHolds
  <2>3. S \in MoveNames => S \notin Tables
    BY NoTables
  <2>4. S \in SecondOf["COP1"] => S \in Tables
    BY DEF SecondOf, Tables
  <2>5. CASE S \in SecondOf["COP1"]
    BY <1>6, <2>4, <2>5
  <2>6. CASE S \in MoveNames
    BY <2>1, <2>3, <2>6, CoprocessorUntouched
  <2>7. QED
    BY <2>2, <2>5, <2>6
<1>7. QED
  BY <1>1, <1>2, <1>3, <1>4, <1>5, <1>6

(* The same of names that are looked up in a second table.                 *)
LEMMA SecondStep ==
  ASSUME NEW P \in {"MMI", "COP0", "COP1"}, NEW S \in SecondOf[P], S \notin {"MF0", "MT0"},
         NEW j \in DOMAIN Inner[S], NEW op \in Opcodes, op = Inner[S][j], op # R
  PROVE  /\ S \in Tables
         /\ op \notin Tables
         /\ IndexField(P) # IndexField(S)
         /\ IndexField(P) \notin Touched(op)
         /\ IndexField(S) \notin Touched(op)
<1>1. CASE P = "MMI"
  <2>1. S \in {"MMI0", "MMI1", "MMI2", "MMI3", "PMFHL"}
    BY <1>1 DEF SecondOf
  <2>2. IndexField(P) = "funct" /\ IndexField(S) = "sa" /\ S \in Tables
    BY <1>1, <2>1, IndexFields DEF Tables
  <2>3. op \notin Tables \cup Immediates \cup ShiftNames \cup FloatNames \cup Codes
    BY <1>1, MMIsHold
  <2>4. QED
    BY <2>2, <2>3, FunctUntouched, SaUntouched
<1>2. CASE P = "COP0"
  <2>1. S \in {"BC0", "C0"}
    BY <1>2 DEF SecondOf
  <2>2. IndexField(P) = "rs" /\ S \in Tables
    BY <1>2, <2>1, IndexFields DEF Tables
  <2>3. CASE S = "BC0"
    <3>1. IndexField(S) = "rt" /\ op \in BranchNames
      BY <2>3, IndexFields, COPsHold
    <3>2. QED
      BY <2>2, <3>1, NoTables, CoprocessorUntouched
  <2>4. CASE S = "C0"
    <3>1. IndexField(S) = "funct" /\ op \in C0Names
      BY <2>4, IndexFields, COPsHold
    <3>2. QED
      BY <2>2, <3>1, NoTables, CoprocessorUntouched
  <2>5. QED
    BY <2>1, <2>3, <2>4
<1>3. CASE P = "COP1"
  <2>1. S \in {"BC1", "S", "D", "W", "L"}
    BY <1>3 DEF SecondOf
  <2>2. IndexField(P) = "rs" /\ S \in Tables
    BY <1>3, <2>1, IndexFields DEF Tables
  <2>3. CASE S = "BC1"
    <3>1. IndexField(S) = "rt" /\ op \in BranchNames
      BY <2>3, IndexFields, COPsHold
    <3>2. QED
      BY <2>2, <3>1, NoTables, CoprocessorUntouched
  <2>4. CASE S \in {"S", "D", "W", "L"}
    <3>1. IndexField(S) = "funct" /\ DOMAIN Inner[S] = 0 .. 63
      BY <2>4, IndexFields, TablesOfInner, Domains
    <3>2. /\ op \in FloatNames
          /\ op \in FloatUnary \cup FloatArithmetic \cup Compares
      BY <2>4, <3>1, FloatOnes
    <3>3. QED
      BY <2>2, <3>1, <3>2, NoTables, FloatUntouched
  <2>5. QED
    BY <2>1, <2>3, <2>4
<1>4. QED
  BY <1>1, <1>2, <1>3

(* A word that has the fields of a template that its operation leaves      *)
(* alone is decoded as that operation, and no word of zeroes but SLL is.   *)
LEMMA FoundAgain ==
  ASSUME NEW q \in Prepared, NEW op \in Opcodes, op = q[1],
         op \notin DebugMoves,
         NEW v \in Words, \A f \in Fields \ Touched(op) : v[f] = q[2][f]
  PROVE  /\ LookUpOpcode(v) = {op}
         /\ v = ZeroWord => op = "SLL"
<1>0. PICK o \in 0 .. 63 : \E second :
        LET w == [ZeroWord EXCEPT !.opcode = o]
        IN  /\ second \in Places(PrimaryOpcodeLookUpTable[o], w)
            /\ q \in Places(second[1], second[2])
            /\ w \in Words /\ second[2] \in Words
  BY PreparedBy
<1>1. PICK second :
        LET w == [ZeroWord EXCEPT !.opcode = o]
        IN  /\ second \in Places(PrimaryOpcodeLookUpTable[o], w)
            /\ q \in Places(second[1], second[2])
            /\ w \in Words /\ second[2] \in Words
  BY <1>0
<1> DEFINE P == PrimaryOpcodeLookUpTable[o]
           w == [ZeroWord EXCEPT !.opcode = o]
           S == second[1]
           s == second[2]
           f == IndexField(P)
           g == IndexField(S)
<1>2. /\ w \in Words /\ s \in Words /\ q[2] \in Words
      /\ second \in Places(P, w) /\ q \in Places(S, s)
  BY <1>1, PreparedBy
<1>3. w.opcode = o
  BY DEF ZeroWord
<1>4. op # R
  BY PreparedNamed
<1>5. DOMAIN Inner = Tables
  BY TablesOfInner
<1>6. \A x \in Words : DOMAIN x = Fields
  BY WordFields DEF Fields
<1>7. "opcode" \in Fields \ Touched(op)
  BY FunctUntouched DEF Fields
<1>8. LookUpOpcode(v) = UNION {LookUp(n, v) : n \in LookUp(PrimaryOpcodeLookUpTable[v.opcode], v)}
  BY DEF LookUpOpcode
<1>9. \A n : n \notin Tables => LookUp(n, v) = {n}
  BY <1>5 DEF LookUp
<1>10. \A n \in Tables : v[IndexField(n)] \in DOMAIN Inner[n] =>
         LookUp(n, v) = {Inner[n][v[IndexField(n)]]}
  BY <1>5 DEF LookUp
<1>11. P \in Tables => P \in {"SPECIAL", "REGIMM", "MMI", "COP0", "COP1"}
  BY PrimaryHolds
<1>12. P # "MF0" /\ P # "MT0"
  BY <1>11 DEF Tables
<1> HIDE DEF P, w, S, s, f, g
<1>13. \/ P \notin Tables /\ S = P /\ s = w
       \/ /\ P \in Tables \ {"MF0", "MT0"}
          /\ \E i \in DOMAIN Inner[P] : S = Inner[P][i] /\ s = [w EXCEPT ![f] = i]
       \/ S \in DebugMoves
  BY <1>2, <1>12, PlacesAre DEF S, s, f
<1>14. \/ S \notin Tables /\ op = S /\ q[2] = s
       \/ /\ S \in Tables \ {"MF0", "MT0"}
          /\ \E j \in DOMAIN Inner[S] : op = Inner[S][j] /\ q[2] = [s EXCEPT ![g] = j]
       \/ S = "MF0" /\ op = "MFC0" /\ q[2] = s
       \/ S = "MT0" /\ op = "MTC0" /\ q[2] = s
  BY <1>2, PlacesAre DEF g
<1>15. S \notin DebugMoves
  <2>1. SUFFICES ASSUME S \in DebugMoves PROVE FALSE
    OBVIOUS
  <2>2. \A n \in DebugNames : n \notin Tables
    BY DEF DebugNames, Tables
  <2>3. S \notin Tables
    BY <2>1, <2>2, DebugTables
  <2>4. S \notin {"MF0", "MT0"}
    BY <2>3 DEF Tables
  <2>5. QED
    BY <1>14, <2>1, <2>3, <2>4
<1>16. \A n \in Tables : IndexField(n) \in Fields /\ IndexField(n) # "opcode"
  BY IndexFits DEF Fields, Registers
<1>17. CASE P \notin Tables
  <2>1. S = P /\ s = w
    BY <1>13, <1>15, <1>17
  <2>2. op = P /\ q[2] = w
    <3>1. S \notin {"MF0", "MT0"}
      BY <1>17, <2>1 DEF Tables
    <3>2. QED
      BY <1>14, <1>17, <2>1, <3>1
  <2>3. v.opcode = o
    BY <1>3, <1>7, <2>2
  <2>4. LookUp(P, v) = {P}
    BY <1>9, <1>17
  <2>5. LookUpOpcode(v) = {op}
    BY <1>8, <2>2, <2>3, <2>4 DEF P
  <2>6. v # ZeroWord
    <3> SUFFICES ASSUME v = ZeroWord PROVE FALSE
      OBVIOUS
    <3>1. o = 0
      BY <2>3 DEF ZeroWord
    <3>2. QED
      BY <1>17, <3>1, PrimaryHolds DEF P, Tables
  <2>7. QED
    BY <2>5, <2>6
<1>18. CASE P \in Tables
  <2>1. PICK i \in DOMAIN Inner[P] : S = Inner[P][i] /\ s = [w EXCEPT ![f] = i]
    BY <1>13, <1>15, <1>18
  <2>2. f \in Fields /\ f # "opcode"
    BY <1>16, <1>18 DEF f
  <2>3. s.opcode = o /\ s[f] = i
    BY <1>2, <1>3, <1>6, <2>1, <2>2
  <2>4. S # R
    <3>1. R \notin Tables
      BY DEF R, Tables
    <3>2. S = R => op = R
      BY <1>14, <3>1 DEF Tables
    <3>3. QED
      BY <1>4, <3>2
  <2>5. /\ S \notin Tables /\ S \in Opcodes => f \notin Touched(S)
        /\ S \in Tables => P \in {"MMI", "COP0", "COP1"} /\ S \in SecondOf[P]
    BY <1>12, <1>18, <2>1, <2>4, FirstStep DEF f, P
  <2>6. ASSUME v.opcode = o, v[f] = i PROVE LookUpOpcode(v) = LookUp(S, v)
    <3>1. LookUp(P, v) = {S}
      BY <1>10, <1>18, <2>1, <2>6 DEF f
    <3>2. QED
      BY <1>8, <2>6, <3>1 DEF P
  <2>7. CASE S \notin Tables
    <3>1. op = S /\ q[2] = s
      <4>1. S \notin {"MF0", "MT0"}
        BY <2>7 DEF Tables
      <4>2. QED
        BY <1>14, <2>7, <4>1
    <3>2. v.opcode = o /\ v[f] = i
      BY <1>7, <2>2, <2>3, <2>5, <2>7, <3>1
    <3>3. LookUpOpcode(v) = {op}
      BY <1>9, <2>6, <2>7, <3>1, <3>2
    <3>4. ASSUME v = ZeroWord PROVE op = "SLL"
      <4>1. o = 0
        BY <3>2, <3>4 DEF ZeroWord
      <4>2. P = "SPECIAL"
        BY <4>1, PrimaryHolds DEF P
      <4>3. f = "funct"
        BY <4>2, IndexFields DEF f
      <4>4. i = 0
        BY <3>2, <3>4, <4>3 DEF ZeroWord
      <4>5. QED
        BY <2>1, <3>1, <4>2, <4>4, SpecialHolds
    <3>5. QED
      BY <3>3, <3>4
  <2>8. CASE S \in Tables \ {"MF0", "MT0"}
    <3>1. PICK j \in DOMAIN Inner[S] : op = Inner[S][j] /\ q[2] = [s EXCEPT ![g] = j]
      BY <1>14, <2>8
    <3>2. /\ op \notin Tables /\ f # g
          /\ f \notin Touched(op) /\ g \notin Touched(op)
      BY <1>4, <2>5, <2>8, <3>1, SecondStep DEF f, g
    <3>3. g \in Fields /\ g # "opcode"
      BY <1>16, <2>8 DEF g
    <3>4. q[2].opcode = o /\ q[2][f] = i /\ q[2][g] = j
      BY <1>2, <1>6, <2>2, <2>3, <3>1, <3>2, <3>3
    <3>5. v.opcode = o /\ v[f] = i /\ v[g] = j
      BY <1>7, <2>2, <3>2, <3>3, <3>4
    <3>6. LookUp(S, v) = {op}
      BY <1>10, <2>8, <3>1, <3>5 DEF g
    <3>7. v # ZeroWord
      <4> SUFFICES ASSUME v = ZeroWord PROVE FALSE
        OBVIOUS
      <4>1. o = 0
        BY <3>5 DEF ZeroWord
      <4>2. P = "SPECIAL"
        BY <4>1, PrimaryHolds DEF P
      <4>3. QED
        BY <2>5, <2>8, <4>2
    <3>8. QED
      BY <2>6, <3>5, <3>6, <3>7
  <2>9. ASSUME NEW plain, S \in {"MF0", "MT0"}, op = plain, op \in ControlMoves,
               q[2] = s, Inner[S][0] = plain, DOMAIN Inner[S] = 0 .. 31
        PROVE  LookUpOpcode(v) = {op} /\ v # ZeroWord
    <3>1. P = "COP0"
      <4>1. S \in Tables
        BY <2>9 DEF Tables
      <4>2. P \in {"MMI", "COP0", "COP1"} /\ S \in SecondOf[P]
        BY <2>5, <4>1
      <4>3. QED
        BY <2>9, <4>2 DEF SecondOf
    <3>2. f = "rs" /\ IndexField(S) = "rd"
      BY <2>9, <3>1, IndexFields DEF f
    <3>3. Touched(op) = {"rt"}
      BY <2>9, CoprocessorUntouched
    <3>4. s.rd = 0
      BY <1>6, <2>1, <3>2 DEF w, ZeroWord
    <3>5. v.opcode = o /\ v[f] = i /\ v.rd = 0
      BY <1>7, <2>3, <2>9, <3>2, <3>3, <3>4 DEF Fields
    <3>6. LookUp(S, v) = {op}
      BY <1>10, <2>9, <3>2, <3>5 DEF Tables
    <3>7. v # ZeroWord
      <4> SUFFICES ASSUME v = ZeroWord PROVE FALSE
        OBVIOUS
      <4>1. o = 0
        BY <3>5 DEF ZeroWord
      <4>2. P = "SPECIAL"
        BY <4>1, PrimaryHolds DEF P
      <4>3. QED
        BY <3>1, <4>2
    <3>8. QED
      BY <2>6, <3>5, <3>6, <3>7
  <2>10. CASE S = "MF0"
    <3>1. op = "MFC0" /\ q[2] = s
      BY <1>14, <2>10 DEF Tables
    <3>2. Inner["MF0"][0] = "MFC0" /\ DOMAIN Inner["MF0"] = 0 .. 31
      <4>1. MF0OpcodeLookUpTable[0] = "MFC0"
        BY DEF MF0OpcodeLookUpTable
      <4>2. QED
        BY <4>1, TablesOfInner, Domains
    <3>3. QED
      BY <2>9, <2>10, <3>1, <3>2 DEF ControlMoves
  <2>11. CASE S = "MT0"
    <3>1. op = "MTC0" /\ q[2] = s
      BY <1>14, <2>11 DEF Tables
    <3>2. Inner["MT0"][0] = "MTC0" /\ DOMAIN Inner["MT0"] = 0 .. 31
      <4>1. MT0OpcodeLookUpTable[0] = "MTC0"
        BY DEF MT0OpcodeLookUpTable
      <4>2. QED
        BY <4>1, TablesOfInner, Domains
    <3>3. QED
      BY <2>9, <2>11, <3>1, <3>2 DEF ControlMoves
  <2>12. QED
    BY <2>7, <2>8, <2>10, <2>11
<1>19. QED
  BY <1>17, <1>18
-----------------------------------------------------------------------------
(* A word in which every bit is accounted for comes back as it was.        *)
LEMMA CanonicalBack ==
  ASSUME NEW name, NEW word \in Words, Decoded(name, word).opcode # "none",
         NEW a \in Int, NEW sa \in Nat,
         NEW op, op = Decoded(name, word).opcode, op \notin Lossy,
         word.opcode = opcode_buffer[op].opcode, Canonical(word, op)
  PROVE  EncodeInstruction(As(Disas(Decoded(name, word), a), a, sa)) = word
<1> DEFINE ins == Decoded(name, word)
           e   == EncodeInstruction(As(Disas(ins, a), a, sa))
           t   == opcode_buffer[op]
<1>1. /\ e \in Words
      /\ op = "NOP" => e = ZeroWord
      /\ op # "NOP" => /\ \A f \in Fields \ Touched(op) : e[f] = t[f]
                       /\ \A f \in Touched(op) : e[f] = word[f]
  BY EncodedInPlace DEF Lossy
<1>2. op \in Opcodes /\ (op = "NOP" => word = ZeroWord)
  BY DecodedIs
<1>3. Filled(op) = Operands(op)
  BY <1>2, FilledIs
<1>4. Operands(op) \subseteq Registers \cup {"imm"}
  BY <1>2, <1>3, FilledIs
<1>5. "imm" \in Operands(op) => Type(op) \in WithWords
  BY <1>2, <1>3, FilledIs
<1>6. DOMAIN word = Fields
  BY WordFields DEF Fields
<1> HIDE DEF e, t
<1>7. CASE op = "NOP"
  BY <1>1, <1>2, <1>7 DEF e
<1>8. CASE op # "NOP"
  <2>1. ASSUME NEW f \in Fields \ Touched(op) PROVE word[f] = t[f]
    <3>1. CASE f = "opcode"
      BY <3>1 DEF t
    <3>2. CASE f # "opcode"
      <4>1. \/ f \in Operands(op)
            \/ /\ "imm" \in Operands(op)
               /\ CASE Type(op) = "jump" -> TRUE
                    [] Type(op) = "code" -> f # "funct"
                    [] OTHER             -> f \in {"rd", "sa", "funct"}
            \/ word[f] = t[f]
        BY <1>6, <3>2 DEF Canonical, t
      <4>2. f \notin Operands(op)
        BY <1>3, <1>4 DEF Touched, Fields
      <4>3. ASSUME "imm" \in Operands(op),
                   CASE Type(op) = "jump" -> TRUE
                     [] Type(op) = "code" -> f # "funct"
                     [] OTHER             -> f \in {"rd", "sa", "funct"}
            PROVE  FALSE
        <5>1. Type(op) \notin {"jump", "code"} => f \in {"rd", "sa", "funct"}
          BY <4>3, Zenon
        <5>2. Type(op) = "code" => f # "funct"
          <6>1. "code" # "jump"
            OBVIOUS
          <6>2. QED
            BY <4>3, <6>1, Zenon
        <5>3. f \in Overlaid(Type(op))
          BY <1>5, <3>2, <4>3, <5>1, <5>2 DEF Overlaid, Signed, WithWords, Fields
        <5>4. QED
          BY <1>3, <4>3, <5>3 DEF Touched
      <4>4. QED
        BY <4>1, <4>2, <4>3
    <3>3. QED
      BY <3>1, <3>2
  <2>2. \A f \in Fields : e[f] = word[f]
    BY <1>1, <1>8, <2>1
  <2>3. e = word
    BY <1>1, <1>6, <2>2, SameWord
  <2>4. QED
    BY <2>3 DEF e
<1>9. QED
  BY <1>7, <1>8

(* What is found is what is decoded.                                       *)
LEMMA DecodedOpcode ==
  ASSUME NEW op \in Opcodes \ {"NOP"}, NEW e, e # ZeroWord
  PROVE  Decoded(op, e).opcode = op
<1> DEFINE type == Type(op)
           kept == CASE type = "reg"  -> {"rs", "rt", "rd", "sa"}
                     [] type = "regf" -> {"rt", "rd", "sa"}
                     [] type \in {"imm", "immu", "imma"} -> {"rs", "rt"}
                     [] OTHER -> {}
           i    == ImmediateOf(type, e)
<1>1. Decoded(op, e) = [f \in DOMAIN NoInstruction |->
                          CASE f = "opcode" -> op
                            [] f = "imm"    -> i
                            [] OTHER        -> IF f \in kept THEN e[f] ELSE 0]
  BY Zenon DEF Decoded
<1>2. "opcode" \in DOMAIN NoInstruction
  BY DEF NoInstruction
<1> HIDE DEF type, kept, i
<1>3. QED
  BY <1>1, <1>2, Zenon

(* A word of zeroes says NOP.                                              *)
LEMMA ZeroIsNop ==
  /\ \A name : Decoded(name, ZeroWord) = [NoInstruction EXCEPT !.opcode = "NOP"]
  /\ LookUpOpcode(ZeroWord) = {"SLL"}
  /\ \A a : Disas([NoInstruction EXCEPT !.opcode = "NOP"], a) = NopLine
  /\ NopLine.op = "NOP" /\ Meaning(NopLine) = NopLine
<1> DEFINE nop == [NoInstruction EXCEPT !.opcode = "NOP"]
<1>1. \A name : Decoded(name, ZeroWord) = nop
  BY Zenon DEF Decoded
<1>2. LookUpOpcode(ZeroWord) = {"SLL"}
  <2>1. ZeroWord.opcode = 0 /\ ZeroWord["funct"] = 0
    BY DEF ZeroWord
  <2>2. LookUp("SPECIAL", ZeroWord) = {"SLL"}
    <3>1. "SPECIAL" \in DOMAIN Inner /\ IndexField("SPECIAL") = "funct"
      BY TablesOfInner, IndexFields DEF Tables
    <3>2. 0 \in DOMAIN Inner["SPECIAL"] /\ Inner["SPECIAL"][0] = "SLL"
      BY SpecialHolds, TablesOfInner, Domains
    <3>3. QED
      BY <2>1, <3>1, <3>2 DEF LookUp
  <2>3. LookUp("SLL", ZeroWord) = {"SLL"}
    <3>1. "SLL" \notin DOMAIN Inner
      BY TablesOfInner DEF Tables
    <3>2. QED
      BY <3>1 DEF LookUp
  <2>4. QED
    BY <2>1, <2>2, <2>3, PrimaryHolds DEF LookUpOpcode
<1>3. Operands("NOP") = {}
  <2>1. "NOP" \in Opcodes
    BY DEF Opcodes
  <2>2. /\ "NOP" \notin DebugMoves /\ "NOP" \notin FloatArithmetic
        /\ "NOP" \notin Compares /\ "NOP" \notin FloatUnary
    <3>1. "NOP" \in OtherNames
      BY DEF OtherNames
    <3>2. QED
      BY <3>1, NamesApart, DebugTables, FloatOnes
  <2>3. Form("NOP").para = {}
    BY <2>2, Zenon DEF Form
  <2>4. QED
    BY <2>1, <2>3 DEF Operands, instructions
<1>4. nop.opcode = "NOP"
  BY DEF NoInstruction
<1> HIDE DEF nop
<1>5. \A a : Disas(nop, a) = [op |-> "NOP", args |-> [f \in {} |-> nop[f]]]
  <2> SUFFICES ASSUME NEW a
               PROVE  Disas(nop, a) = [op |-> "NOP", args |-> [f \in {} |-> nop[f]]]
    OBVIOUS
  <2> DEFINE args == [f \in Operands(nop.opcode) |->
                        IF f = "imm" /\ Type(nop.opcode) = "imma"
                        THEN nop.imm + a + 4 ELSE nop[f]]
  <2>1. Disas(nop, a) = [op |-> nop.opcode, args |-> args]
    BY DEF Disas
  <2>2. args = [f \in {} |-> nop[f]]
    BY <1>3, <1>4
  <2> HIDE DEF args
  <2>3. QED
    BY <1>4, <2>1, <2>2
<1>6. NopLine = Disas(nop, 0)
  BY DEF NopLine, nop
<1>7. NopLine.op = "NOP"
  BY <1>5, <1>6
<1>8. Meaning(NopLine) = NopLine
  BY <1>7 DEF Meaning
<1>9. \A a : Disas(nop, a) = NopLine
  BY <1>5, <1>6
<1>10. QED
  BY <1>1, <1>2, <1>7, <1>8, <1>9 DEF nop

(* What the disassembler prints for the word e at the offset a.            *)
Printed(e, a) ==
  {Disas(ins, a) : ins \in {i \in DecodeInstruction(e) : i.opcode # "none"}}

(* What is printed of the word that a line assembles to.                   *)
LEMMA PrintsBack ==
  ASSUME NEW name, NEW word \in Words, Decoded(name, word).opcode # "none",
         NEW a \in Int, NEW sa \in Nat,
         NEW op, op = Decoded(name, word).opcode, op \notin DebugMoves \cup LateCompares,
         NEW asm, asm = Disas(Decoded(name, word), a),
         NEW e, e = EncodeInstruction(As(asm, a, sa)),
         NEW again, again = Printed(e, a)
  PROVE  /\ op \notin Lossy => {Meaning(l) : l \in again} = {Meaning(asm)}
         /\ op \in Lossy => \E l \in again : l.op = op
<1> DEFINE ins == Decoded(name, word)
           t   == opcode_buffer[op]
           nop == [NoInstruction EXCEPT !.opcode = "NOP"]
<1>1. /\ e \in Words
      /\ op = "NOP" => e = ZeroWord
      /\ op # "NOP" => /\ \A f \in Fields \ Touched(op) : e[f] = t[f]
                       /\ op \notin Lossy => \A f \in Touched(op) : e[f] = word[f]
  <2>1. e = EncodeInstruction(As(Disas(Decoded(name, word), a), a, sa))
    OBVIOUS
  <2>2. /\ e \in Words
        /\ op = "NOP" => e = ZeroWord
        /\ op \notin LateCompares \cup {"NOP"} =>
             \A f \in Fields \ Touched(op) : e[f] = t[f]
        /\ op \notin Lossy \cup {"NOP"} => \A f \in Touched(op) : e[f] = word[f]
    BY <2>1, EncodedInPlace
  <2> HIDE DEF t
  <2>3. QED
    BY <2>2
<1>2. /\ op \in Opcodes /\ (op = "NOP" => word = ZeroWord)
      /\ op # "none"
      /\ op # "NOP" => /\ \A f \in Operands(op) \cap Registers : ins[f] = word[f]
                       /\ "imm" \in Operands(op) => ins.imm = ImmediateOf(Type(op), word)
  BY DecodedIs
<1>3. asm.op = op
  BY DEF Disas
<1>4. DecodeInstruction(e) = {Decoded(n, e) : n \in LookUpOpcode(e)}
  BY DEF DecodeInstruction
<1>5. e = ZeroWord => again = {NopLine}
  <2> SUFFICES ASSUME e = ZeroWord PROVE again = {NopLine}
    OBVIOUS
  <2>1. DecodeInstruction(e) = {nop}
    BY <1>4, ZeroIsNop
  <2>2. nop.opcode # "none"
    BY DEF NoInstruction
  <2> HIDE DEF nop
  <2>3. again = {Disas(nop, a)}
    BY <2>1, <2>2 DEF Printed
  <2>4. Disas(nop, a) = NopLine
    BY ZeroIsNop DEF nop
  <2>5. QED
    BY <2>3, <2>4
<1>6. CASE op = "NOP"
  <2>1. asm = NopLine
    BY <1>2, <1>6, ZeroIsNop
  <2>2. again = {NopLine}
    BY <1>1, <1>5, <1>6
  <2>3. op \notin Lossy
    BY <1>6 DEF Lossy, QuadShifts, ControlMoves, LateCompares
  <2>4. QED
    BY <2>1, <2>2, <2>3
<1>7. CASE op # "NOP"
  <2>1. op \notin {"NOP", "C_NGT_S", "C_NGT_D"}
    BY <1>7 DEF LateCompares
  <2>2. PICK q \in Prepared : q[1] = op /\ q[2] = t
    BY <1>2, <2>1, Template
  <2>3. LookUpOpcode(e) = {op} /\ (e = ZeroWord => op = "SLL")
    BY <1>1, <1>2, <1>7, <2>2, FoundAgain
  <2> DEFINE new == Decoded(op, e)
  <2>4. DecodeInstruction(e) = {new}
    BY <1>4, <2>3
  <2>5. ASSUME e # ZeroWord
        PROVE  new.opcode = op /\ again = {Disas(new, a)}
    <3>1. new.opcode = op
      BY <1>2, <1>7, <2>5, DecodedOpcode
    <3> HIDE DEF new
    <3>2. QED
      BY <1>2, <2>4, <3>1 DEF Printed
  <2>6. CASE op \in Lossy
    <3>1. e # ZeroWord
      BY <2>3, <2>6 DEF Lossy, QuadShifts, ControlMoves, LateCompares
    <3>2. Disas(new, a).op = op
      BY <2>5, <3>1 DEF Disas
    <3>3. QED
      BY <2>5, <2>6, <3>1, <3>2
  <2>7. CASE op \notin Lossy
    <3>1. Filled(op) = Operands(op)
      BY <1>2, <2>7, FilledIs
    <3>2. \A f \in Operands(op) \cap Registers : e[f] = word[f] /\ ins[f] = word[f]
      BY <1>1, <1>2, <1>7, <2>7, <3>1 DEF Touched
    <3>3. Operands(op) \subseteq Registers \cup {"imm"}
      BY <1>2, <3>1, FilledIs
    <3>4. CASE e = ZeroWord
      <4>1. op = "SLL"
        BY <2>3, <3>4
      <4>2. "imm" \notin Operands(op)
        <5>1. op \notin Immediates \cup Codes
          BY <4>1 DEF Immediates, Codes
        <5>2. QED
          BY <1>2, <3>1, <5>1, FilledIs, ImmediatesAre DEF WithWords, Signed
      <4>3. \A f \in Operands(op) : ins[f] = 0
        <5>1. \A f \in Registers : e[f] = 0
          BY <3>4 DEF ZeroWord, Registers
        <5>2. QED
          BY <3>2, <3>3, <4>2, <5>1
      <4>4. DOMAIN asm.args = Operands(op) /\ \A f \in Operands(op) : asm.args[f] = 0
        BY <4>2, <4>3 DEF Disas
      <4>5. Meaning(asm) = NopLine
        BY <1>3, <4>1, <4>4 DEF Meaning
      <4>6. Meaning(NopLine) = NopLine
        BY ZeroIsNop
      <4>7. QED
        BY <1>5, <2>7, <3>4, <4>5, <4>6
    <3>5. CASE e # ZeroWord
      <4>1. new.opcode = op /\ again = {Disas(new, a)}
        BY <2>5, <3>5
      <4>2. /\ \A f \in Operands(op) \cap Registers : new[f] = e[f]
            /\ "imm" \in Operands(op) => new.imm = ImmediateOf(Type(op), e)
        BY <1>1, <1>2, <3>5, <4>1, DecodedIs
      <4>3. "imm" \in Operands(op) => new.imm = ins.imm
        <5> SUFFICES ASSUME "imm" \in Operands(op) PROVE new.imm = ins.imm
          OBVIOUS
        <5>1. Type(op) \in WithWords
          BY <1>2, <3>1, FilledIs
        <5>2. \A f \in Overlaid(Type(op)) : e[f] = word[f]
          BY <1>1, <1>7, <2>7, <3>1 DEF Touched
        <5>3. ImmediateOf(Type(op), e) = ImmediateOf(Type(op), word)
          BY <1>1, <5>1, <5>2, SameImmediate
        <5>4. QED
          BY <1>2, <1>7, <4>2, <5>3
      <4>4. \A f \in Operands(op) : new[f] = ins[f]
        BY <3>2, <3>3, <4>2, <4>3
      <4>5. Disas(new, a) = asm
        <5> DEFINE arg(i) == [f \in Operands(op) |->
                               IF f = "imm" /\ Type(op) = "imma" THEN i.imm + a + 4 ELSE i[f]]
        <5>1. Disas(new, a) = [op |-> op, args |-> arg(new)]
          BY <4>1 DEF Disas
        <5>2. asm = [op |-> op, args |-> arg(ins)]
          BY DEF Disas
        <5>3. arg(new) = arg(ins)
          BY <4>3, <4>4
        <5> HIDE DEF arg
        <5>4. QED
          BY <5>1, <5>2, <5>3
      <4>6. QED
        BY <2>7, <4>1, <4>5
    <3>6. QED
      BY <3>4, <3>5
  <2>8. QED
    BY <2>6, <2>7
<1>8. QED
  BY <1>6, <1>7
-----------------------------------------------------------------------------
(* What the disassembler may refuse to read of its own lines.              *)
LEMMA Unreadable ==
  ASSUME NEW name, NEW word \in Words, Decoded(name, word).opcode # "none",
         NEW a \in Nat, NEW l, l = Disas(Decoded(name, word), a), ~ Readable(l)
  PROVE  l.op \in {"BC0F", "BC0FL", "BC0T", "BC0TL", "CACHE"} /\ l.args["imm"] < 0
<1> DEFINE ins == Decoded(name, word)
           op  == ins.opcode
<1>1. /\ op \in Opcodes /\ ins.imm \in Int
      /\ \A f \in Registers : ins[f] \in 0 .. 31
      /\ \/ word = ZeroWord /\ op = "NOP"
         \/ "imm" \in Operands(op) => ins.imm = ImmediateOf(Type(op), word)
  BY DecodedIs
<1>2. l.op = op
  BY DEF Disas
<1>3. PICK f \in Unsigned(op) : ~ (l.args[f] >= 0)
  BY <1>2 DEF Readable
<1>4. /\ f \in Operands(op)
      /\ \/ f = "sa" /\ Type(op) = "reg"
         \/ f = "imm" /\ Type(op) \in {"immu", "jump"}
         \/ /\ f = "imm" /\ Type(op) = "imma"
            /\ op \in {"BC0F", "BC0FL", "BC0T", "BC0TL", "CACHE"}
  BY <1>1, UnsignedByType
<1>5. l.args[f] = IF f = "imm" /\ Type(op) = "imma" THEN ins.imm + a + 4 ELSE ins[f]
  BY <1>4 DEF Disas
<1> HIDE DEF ins, op
<1>6. f # "sa"
  <2> SUFFICES ASSUME f = "sa" PROVE FALSE
    OBVIOUS
  <2>1. l.args[f] \in 0 .. 31
    BY <1>1, <1>5 DEF Registers
  <2>2. QED
    BY <1>3, <2>1
<1>7. Type(op) \notin {"immu", "jump"}
  <2> SUFFICES ASSUME Type(op) \in {"immu", "jump"} PROVE FALSE
    OBVIOUS
  <2>1. l.args[f] = ins.imm
    BY <1>4, <1>5, <1>6
  <2>2. op # "NOP"
    <3>1. Type(op) \in {"immu", "jump"} => op \in Immediates
      BY <1>1, ImmediatesAre
    <3>2. QED
      BY <3>1 DEF Immediates
  <2>3. ins.imm = ImmediateOf(Type(op), word)
    BY <1>1, <1>4, <1>6, <2>2
  <2>4. Immediate(word) \in Nat /\ word.rs \in Nat /\ word.rt \in Nat
    BY ImmediateBits, WordFields
  <2>5. 4 * ((word.rs * 32 + word.rt) * 2^16 + Immediate(word)) \in Nat
    BY <2>4
  <2>6. ImmediateOf(Type(op), word) \in Nat
    <3>1. CASE Type(op) = "immu"
      BY <2>4, <3>1 DEF ImmediateOf
    <3>2. CASE Type(op) = "jump"
      BY <2>5, <3>2 DEF ImmediateOf
    <3>3. QED
      BY <3>1, <3>2
  <2>7. QED
    BY <1>3, <2>1, <2>3, <2>6
<1>8. /\ f = "imm" /\ op \in {"BC0F", "BC0FL", "BC0T", "BC0TL", "CACHE"}
      /\ Type(op) = "imma"
  BY <1>4, <1>6, <1>7
<1>9. l.args["imm"] = ins.imm + a + 4
  BY <1>5, <1>8
<1>10. QED
  BY <1>1, <1>2, <1>3, <1>8, <1>9
-----------------------------------------------------------------------------
(* Every state of the machine.                                             *)
Decodings == {ins \in UNION {DecodeInstruction(w) : w \in Words} : ins.opcode # "none"}

Lines ==
  [kind : {"invalid"}, at : Nat]
    \cup [kind : {"data"}, at : Nat, bytes : Seq(Byte)]
    \cup [kind : {"insn"}, at : Nat, asm : {Disas(ins, a) : ins \in Decodings, a \in Nat}]

Typed ==
  /\ file \in Seq(Byte)
  /\ limits \in Nat \X Nat
  /\ dmode \in {1, 2, 4}
  /\ do_invalid \in BOOLEAN
  /\ at \in Nat
  /\ text \in Seq(Lines)
  /\ pc \in 1 .. Len(text) + 1
  /\ loc \in Nat
  /\ slot \in {0, 1, 2}
  /\ image \in [1 .. Len(file) -> Byte]
  /\ refused \subseteq 1 .. pc - 1
  /\ status \in {"dasm", "asm", "done", "failed"}

(* Nothing is assembled before all is taken apart, and what ends well ends *)
(* with every line assembled.                                              *)
InOrder ==
  /\ status = "dasm" =>
       /\ pc = 1 /\ loc = dasm_sta /\ slot = 0 /\ refused = {}
       /\ image = [n \in 1 .. Len(file) |-> 0]
  /\ status = "done" => refused = {} /\ pc = Len(text) + 1

(* The bytes that stand at a place of the image.                           *)
Stands(bytes, p) == \A i \in 1 .. Len(bytes) : image[p + i] = bytes[i]

(* While nothing is refused the lines assembled stand where they came from *)
(* and there is nothing else.                                              *)
Written(p) ==
  /\ loc = p[pc]
  /\ \A k \in 1 .. pc - 1 :
       /\ text[k].kind # "invalid"
       /\ text[k].kind = "data" => Stands(text[k].bytes, p[k])
       /\ text[k].kind = "insn" =>
            \E sa \in Junk :
              Stands(BytesOf(EncodeInstruction(As(text[k].asm, p[k], sa))), p[k])
  /\ \A n \in 1 .. Len(file) : n \notin dasm_sta + 1 .. loc => image[n] = 0

Placed == \E p : Laid(text, at, p) /\ (refused = {} => Written(p))

RefusedLines == \A n \in refused : text[n].kind # "data"

IInv == Typed /\ InOrder /\ Placed /\ RefusedLines

(* Places lie between the start and the word to be taken apart.            *)
LEMMA LaidIsAhead ==
  ASSUME NEW t, NEW e, NEW p, Laid(t, e, p)
  PROVE  /\ dasm_sta \in Nat /\ e \in Nat /\ dasm_sta <= e
         /\ \A n \in 1 .. Len(t) + 1 : p[n] \in Nat /\ dasm_sta <= p[n] /\ p[n] <= e
<1>1. /\ p \in Seq(Nat) /\ Len(t) \in Nat /\ Len(p) = Len(t) + 1
      /\ p[1] = dasm_sta /\ p[Len(t) + 1] = e
      /\ \A m, n \in 1 .. Len(t) + 1 : m < n => p[m] < p[n]
  BY DEF Laid
<1> DEFINE L == Len(t) + 1
<1>2. L \in Nat /\ 1 \in 1 .. L /\ L \in 1 .. L /\ \A n \in 1 .. L : p[n] \in Nat
  BY <1>1
<1>3. p[1] = dasm_sta /\ p[L] = e /\ \A m, n \in 1 .. L : m < n => p[m] < p[n]
  BY <1>1
<1>4. \A n \in 1 .. L : (n = 1 \/ 1 < n) /\ (n = L \/ n < L)
  BY <1>2
<1> HIDE DEF L
<1>5. \A n \in 1 .. L : p[1] <= p[n] /\ p[n] <= p[L]
  BY <1>2, <1>3, <1>4
<1>6. QED
  BY <1>2, <1>3, <1>5 DEF L

(* Nothing has been taken apart yet.                                       *)
LEMMA Begins == Init => IInv
<1> SUFFICES ASSUME Init PROVE IInv
  OBVIOUS
<1> USE DEF Init
<1>1. /\ file \in Seq(Byte) /\ limits \in Nat \X Nat /\ dasm_sta \in Nat
      /\ Len(file) \in Nat
  BY ReassemblyAssumption DEF Byte, dasm_sta
<1>2. Typed
  <2>1. dmode \in {1, 2, 4} /\ do_invalid \in BOOLEAN
    BY ReassemblyAssumption
  <2>2. at \in Nat /\ loc \in Nat /\ text \in Seq(Lines) /\ pc \in 1 .. Len(text) + 1
    BY <1>1
  <2>3. image \in [1 .. Len(file) -> Byte]
    BY <1>1 DEF Byte
  <2>4. QED
    BY <1>1, <2>1, <2>2, <2>3 DEF Typed
<1>3. InOrder
  BY DEF InOrder
<1>4. Laid(text, at, <<dasm_sta>>)
  <2>1. <<dasm_sta>> \in Seq(Nat) /\ Len(<<dasm_sta>>) = 1 /\ <<dasm_sta>>[1] = dasm_sta
    BY <1>1
  <2>2. Len(text) = 0 /\ at = dasm_sta
    OBVIOUS
  <2>3. 1 .. 0 = {} /\ 1 .. 0 + 1 = {1} /\ dasm_sta + 1 .. at = {}
    BY <1>1
  <2>4. QED
    BY <2>1, <2>2, <2>3 DEF Laid
<1>5. Written(<<dasm_sta>>)
  <2>1. loc = <<dasm_sta>>[pc] /\ 1 .. pc - 1 = {}
    OBVIOUS
  <2>2. QED
    BY <2>1 DEF Written
<1>6. Placed
  BY <1>4, <1>5 DEF Placed
<1>7. RefusedLines
  BY DEF RefusedLines
<1>8. QED
  BY <1>2, <1>3, <1>6, <1>7 DEF IInv

(* A word dumped as data, in lines of any size.                            *)
LEMMA DataLinesFit ==
  ASSUME file \in Seq(Byte), at \in Nat, dasm_sta \in Nat, dasm_sta <= at,
         at + 4 <= Len(file), dmode \in {1, 2, 4},
         NEW new, new = DataLines(SubSeq(file, at + 1, at + 4))
  PROVE  /\ 4 \div dmode \in {1, 2, 4} /\ (4 \div dmode) * dmode = 4
         /\ new \in Seq(Lines) /\ Len(new) = 4 \div dmode
         /\ \A j \in 1 .. 4 \div dmode :
              /\ new[j].at = at /\ new[j].kind = "data"
              /\ Fits(new[j], at + (j - 1) * dmode, at + j * dmode)
<1> DEFINE b == SubSeq(file, at + 1, at + 4)
           k == 4 \div dmode
           cut(j) == SubSeq(b, (j - 1) * dmode + 1, j * dmode)
<1>1. b \in Seq(Byte) /\ Len(b) = 4 /\ \A i \in 1 .. 4 : b[i] = file[at + i]
  OBVIOUS
<1>2. k \in {1, 2, 4} /\ k * dmode = 4
  OBVIOUS
<1> HIDE DEF b, k
<1>3. ASSUME NEW j \in 1 .. k
      PROVE  /\ (j - 1) * dmode \in Nat /\ j * dmode = (j - 1) * dmode + dmode
             /\ j * dmode <= 4
  BY <1>2
<1>4. ASSUME NEW j \in 1 .. k
      PROVE  /\ cut(j) \in Seq(Byte) /\ Len(cut(j)) = dmode
             /\ \A i \in 1 .. dmode : cut(j)[i] = file[at + (j - 1) * dmode + i]
  <2> DEFINE x == (j - 1) * dmode
             y == j * dmode
  <2>1. x \in Nat /\ y = x + dmode /\ y <= 4
    BY <1>3
  <2> HIDE DEF x, y
  <2>2. /\ SubSeq(b, x + 1, y) \in Seq(Byte) /\ Len(SubSeq(b, x + 1, y)) = dmode
        /\ \A i \in 1 .. dmode : SubSeq(b, x + 1, y)[i] = b[x + i] /\ x + i \in 1 .. 4
    BY <1>1, <2>1
  <2>3. \A i \in 1 .. dmode : at + (x + i) = at + x + i
    BY <2>1
  <2>4. QED
    BY <1>1, <2>2, <2>3 DEF x, y
<1> HIDE DEF cut
<1>5. new = [j \in 1 .. k |-> [kind |-> "data", at |-> at, bytes |-> cut(j)]]
  BY DEF DataLines, b, k, cut
<1>6. \A j \in 1 .. k : new[j] = [kind |-> "data", at |-> at, bytes |-> cut(j)]
  BY <1>5
<1>7. new \in Seq(Lines) /\ Len(new) = k
  <2>1. \A j \in 1 .. k : [kind |-> "data", at |-> at, bytes |-> cut(j)] \in Lines
    BY <1>4 DEF Lines
  <2>2. QED
    BY <1>2, <1>5, <2>1
<1>8. ASSUME NEW j \in 1 .. k
      PROVE  Fits(new[j], at + (j - 1) * dmode, at + j * dmode)
  <2> DEFINE x == (j - 1) * dmode
             y == j * dmode
             l == new[j]
  <2>1. x \in Nat /\ y = x + dmode /\ y <= 4
    BY <1>3
  <2>2. /\ cut(j) \in Seq(Byte) /\ Len(cut(j)) = dmode
        /\ \A i \in 1 .. dmode : cut(j)[i] = file[at + x + i]
    BY <1>4
  <2>0. l = [kind |-> "data", at |-> at, bytes |-> cut(j)]
    BY <1>6
  <2> HIDE DEF l
  <2>3. l.kind = "data" /\ l.at = at /\ l.bytes = cut(j)
    BY <2>0
  <2> HIDE DEF x, y, l
  <2>4. /\ l.at \in Nat /\ dasm_sta <= l.at /\ l.at + 4 <= Len(file)
        /\ l.at <= at + x /\ at + x < at + y /\ at + y <= l.at + 4
        /\ at + y = at + x + dmode
    BY <2>1, <2>3
  <2>5. Fits(l, at + x, at + y)
    BY <2>2, <2>3, <2>4 DEF Fits
  <2>6. QED
    BY <2>5 DEF x, y, l
<1>9. \A j \in 1 .. k : /\ new[j].at = at /\ new[j].kind = "data"
                         /\ Fits(new[j], at + (j - 1) * dmode, at + j * dmode)
  <2>1. ASSUME NEW j \in 1 .. k PROVE new[j].at = at /\ new[j].kind = "data"
    <3>1. new[j] = [kind |-> "data", at |-> at, bytes |-> cut(j)]
      BY <1>6
    <3>2. QED
      BY ONLY <3>1
  <2>2. QED
    BY <1>8, <2>1
<1>10. QED
  BY <1>2, <1>7, <1>9, Zenon DEF k

(* What the bytes of a line make of the image.                             *)
LEMMA PutIs ==
  ASSUME file \in Seq(Byte), image \in [1 .. Len(file) -> Byte], loc \in Nat,
         NEW bytes \in Seq(Byte), Put(bytes)
  PROVE  /\ image' \in [1 .. Len(file) -> Byte]
         /\ \A n \in 1 .. Len(file) :
              n \notin loc + 1 .. loc + Len(bytes) => image'[n] = image[n]
         /\ loc + Len(bytes) <= Len(file) =>
              \A i \in 1 .. Len(bytes) : image'[loc + i] = bytes[i]
<1> DEFINE L == Len(bytes)
<1>1. image' = [n \in 1 .. Len(file) |-> IF n \in loc + 1 .. loc + L
                                         THEN bytes[n - loc] ELSE image[n]]
  BY DEF Put
<1>2. L \in Nat /\ Len(file) \in Nat /\ \A i \in 1 .. L : bytes[i] \in Byte
  OBVIOUS
<1> HIDE DEF L
<1>3. \A n \in loc + 1 .. loc + L : n - loc \in 1 .. L
  BY <1>2
<1>4. image' \in [1 .. Len(file) -> Byte]
  BY <1>1, <1>2, <1>3
<1>5. ASSUME loc + L <= Len(file), NEW i \in 1 .. L PROVE image'[loc + i] = bytes[i]
  <2>1. loc + i \in 1 .. Len(file) /\ loc + i \in loc + 1 .. loc + L /\ loc + i - loc = i
    BY <1>2, <1>5
  <2>2. QED
    BY <1>1, <2>1
<1>6. QED
  BY <1>1, <1>4, <1>5 DEF L

(* One more word taken apart.                                              *)
LEMMA TakeApartKeeps == IInv /\ TakeApart => IInv'
<1> SUFFICES ASSUME IInv, TakeApart PROVE IInv'
  OBVIOUS
<1>1. /\ file \in Seq(Byte) /\ limits \in Nat \X Nat /\ dmode \in {1, 2, 4}
      /\ at \in Nat /\ text \in Seq(Lines)
      /\ Typed
  BY DEF IInv, Typed
<1>2. /\ status = "dasm" /\ at + 4 <= Len(file) /\ Len(file) \in Nat
      /\ at' = at + 4
      /\ UNCHANGED <<file, limits, dmode, do_invalid, pc, loc, slot, image, refused, status>>
  BY <1>1 DEF TakeApart, Readable4, inputs
<1>3. /\ pc = 1 /\ loc = dasm_sta /\ slot = 0 /\ refused = {}
      /\ image = [n \in 1 .. Len(file) |-> 0]
  BY <1>2 DEF IInv, InOrder
<1>4. PICK p : Laid(text, at, p)
  BY DEF IInv, Placed
<1>5. dasm_sta \in Nat /\ dasm_sta <= at
  BY <1>4, LaidIsAhead
<1>6. WordAt(file, at) \in Words
  BY <1>1, <1>2, WordOfFile
<1> DEFINE w == WordAt(file, at)
           data == DataLines(SubSeq(file, at + 1, at + 4))
           lines(ins) == CASE ins.opcode # "none" -> Instruction(ins)
                           [] ins.opcode = "none" /\ do_invalid ->
                                <<[kind |-> "invalid", at |-> at]>>
                           [] OTHER -> data
<1>7. PICK ins \in DecodeInstruction(w) : text' = text \o lines(ins)
  BY DEF TakeApart
<1> DEFINE new == lines(ins)
           insn == [kind |-> "insn", at |-> at, asm |-> Disas(ins, at)]
           bad == [kind |-> "invalid", at |-> at]
<1>8. \/ ins.opcode # "none" /\ new = <<insn>>
      \/ new = <<bad>>
      \/ new = data
  <2>1. ins.opcode # "none" => new = <<insn>>
    BY Zenon DEF Instruction
  <2>2. ins.opcode = "none" /\ do_invalid => new = <<bad>>
    BY Zenon
  <2>3. ins.opcode = "none" /\ ~ do_invalid => new = data
    BY Zenon
  <2>4. QED
    BY <2>1, <2>2, <2>3
<1>9. ins.opcode # "none" => insn \in Lines
  <2>1. ins.opcode # "none" => ins \in Decodings
    BY <1>6 DEF Decodings
  <2>2. QED
    BY <1>1, <2>1 DEF Lines
<1>10. bad \in Lines
  BY <1>1 DEF Lines
<1>11. ins.opcode # "none" => Fits(insn, at, at + 4)
  BY <1>1, <1>2, <1>5 DEF Fits
<1>12. Fits(bad, at, at + 4)
  BY <1>1, <1>2, <1>5 DEF Fits
<1> HIDE DEF insn, bad, data, lines
<1>13. \E k, size \in {1, 2, 4} :
         /\ k * size = 4 /\ new \in Seq(Lines) /\ Len(new) = k
         /\ \A j \in 1 .. k : /\ new[j].at = at /\ new[j].kind = new[1].kind
                              /\ Fits(new[j], at + (j - 1) * size, at + j * size)
  <2>1. ASSUME NEW l \in Lines, new = <<l>>, l.at = at, Fits(l, at, at + 4)
        PROVE  /\ new \in Seq(Lines) /\ Len(new) = 1
               /\ \A j \in 1 .. 1 : /\ new[j].at = at /\ new[j].kind = new[1].kind
                                    /\ Fits(new[j], at + (j - 1) * 4, at + j * 4)
    <3>1. new \in Seq(Lines) /\ Len(new) = 1 /\ new[1] = l
      BY <2>1
    <3>2. at + (1 - 1) * 4 = at /\ at + 1 * 4 = at + 4
      BY <1>1
    <3>3. ASSUME NEW j \in 1 .. 1
          PROVE  /\ new[j].at = at /\ new[j].kind = new[1].kind
                 /\ Fits(new[j], at + (j - 1) * 4, at + j * 4)
      <4>1. j = 1
        OBVIOUS
      <4>2. QED
        BY <2>1, <3>1, <3>2, <4>1
    <3>4. QED
      BY <3>1, <3>3
  <2>2. CASE ins.opcode # "none" /\ new = <<insn>>
    <3>1. insn \in Lines /\ insn.at = at /\ Fits(insn, at, at + 4)
      BY <1>9, <1>11, <2>2 DEF insn
    <3> HIDE DEF new
    <3>2. QED
      BY <2>1, <2>2, <3>1
  <2>3. CASE new = <<bad>>
    <3>1. bad \in Lines /\ bad.at = at /\ Fits(bad, at, at + 4)
      BY <1>10, <1>12 DEF bad
    <3> HIDE DEF new
    <3>2. QED
      BY <2>1, <2>3, <3>1
  <2>4. CASE new = data
    <3> DEFINE n == 4 \div dmode
    <3>1. /\ n \in {1, 2, 4} /\ n * dmode = 4
          /\ new \in Seq(Lines) /\ Len(new) = n
          /\ \A j \in 1 .. n :
               /\ new[j].at = at /\ new[j].kind = "data"
               /\ Fits(new[j], at + (j - 1) * dmode, at + j * dmode)
      BY <1>1, <1>2, <1>5, <2>4, DataLinesFit DEF data
    <3> HIDE DEF n, new
    <3>2. 1 \in 1 .. n
      BY <3>1
    <3>3. QED
      BY <1>1, <3>1, <3>2
  <2>5. QED
    BY <1>8, <2>2, <2>3, <2>4
<1> HIDE DEF new
<1>14. new \in Seq(Lines) /\ text' = text \o new
  BY <1>7, <1>13 DEF new
<1>15. \E q : Laid(text \o new, at + 4, q)
  BY <1>1, <1>2, <1>4, <1>13, LaidGrows
<1>16. PICK q : Laid(text \o new, at + 4, q)
  BY <1>15
<1>17. Laid(text, at, q)'
  BY <1>2, <1>14, <1>16 DEF Laid, Fits, dasm_sta
<1>18. q[1] = dasm_sta /\ dasm_sta' = dasm_sta
  BY <1>2, <1>16 DEF Laid, dasm_sta
<1>19. Written(q)'
  <2>1. 1 .. pc' - 1 = {}
    BY <1>2, <1>3
  <2>2. loc' = q[pc']
    BY <1>2, <1>3, <1>18
  <2>3. \A n \in 1 .. Len(file') : image'[n] = 0
    BY <1>2, <1>3
  <2>4. QED
    BY <2>1, <2>2, <2>3 DEF Written
<1>20. Typed'
  <2>1. text' \in Seq(Lines) /\ Len(text') \in Nat
    BY <1>1, <1>14
  <2>2. pc' \in 1 .. Len(text') + 1 /\ at' \in Nat /\ refused' \subseteq 1 .. pc' - 1
    BY <1>1, <1>2, <1>3, <2>1
  <2>3. QED
    BY <1>1, <1>2, <2>1, <2>2 DEF Typed
<1>21. InOrder'
  BY <1>2, <1>3, <1>18 DEF InOrder
<1>22. RefusedLines'
  BY <1>2, <1>3 DEF RefusedLines
<1>23. QED
  BY <1>17, <1>19, <1>20, <1>21, <1>22 DEF IInv, Placed

(* One more line assembled, where it belongs.                              *)
LEMMA OneMoreWritten ==
  ASSUME Typed, NEW p, Laid(text, at, p), Written(p),
         pc \in 1 .. Len(text), text[pc].kind # "invalid",
         NEW bytes \in Seq(Byte), p[pc + 1] = p[pc] + Len(bytes),
         Put(bytes), loc' = loc + Len(bytes), pc' = pc + 1,
         UNCHANGED <<file, limits, text>>,
         text[pc].kind = "data" => bytes = text[pc].bytes,
         text[pc].kind = "insn" =>
           \E sa \in Junk : bytes = BytesOf(EncodeInstruction(As(text[pc].asm, loc, sa)))
  PROVE  Written(p)'
<1> DEFINE code(k, sa) == BytesOf(EncodeInstruction(As(text[k].asm, p[k], sa)))
           N == Len(file)
           L == Len(bytes)
<1>1. /\ file \in Seq(Byte) /\ image \in [1 .. N -> Byte] /\ loc \in Nat
      /\ N \in Nat /\ L \in Nat /\ pc \in Nat
  BY DEF Typed
<1>2. /\ Len(text) \in Nat
      /\ \A n \in 1 .. Len(text) : Fits(text[n], p[n], p[n + 1])
      /\ \A m, n \in 1 .. Len(text) + 1 : m < n => p[m] < p[n]
  BY DEF Laid
<1>3. \A n \in 1 .. Len(text) + 1 : p[n] \in Nat /\ dasm_sta <= p[n]
  BY LaidIsAhead
<1>4. dasm_sta \in Nat
  BY LaidIsAhead
<1>5. /\ loc = p[pc]
      /\ \A k \in 1 .. pc - 1 :
           /\ text[k].kind # "invalid"
           /\ text[k].kind = "data" =>
                \A i \in 1 .. Len(text[k].bytes) : image[p[k] + i] = text[k].bytes[i]
           /\ text[k].kind = "insn" =>
                \E sa \in Junk : \A i \in 1 .. Len(code(k, sa)) :
                  image[p[k] + i] = code(k, sa)[i]
      /\ \A n \in 1 .. N : n \notin dasm_sta + 1 .. loc => image[n] = 0
  BY DEF Written, Stands
<1>6. \A k, sa : Len(code(k, sa)) = 4
  BY DEF BytesOf
<1> HIDE DEF N, L, code
<1>7. /\ pc + 1 \in 1 .. Len(text) + 1 /\ pc \in 1 .. Len(text) + 1
      /\ loc' = p[pc'] /\ loc' = loc + L /\ loc + L <= N /\ loc <= N
  <2>1. p[pc + 1] <= text[pc].at + 4 /\ text[pc].at + 4 <= N /\ text[pc].at \in Nat
    BY <1>2 DEF Fits, N
  <2>2. pc + 1 \in 1 .. Len(text) + 1 /\ pc \in 1 .. Len(text) + 1
    BY <1>2
  <2>3. p[pc + 1] \in Nat /\ p[pc + 1] = loc + L
    BY <1>3, <1>5, <2>2 DEF L
  <2> DEFINE x == p[pc + 1]
             y == text[pc].at
  <2>4. x <= y + 4 /\ y + 4 <= N /\ y \in Nat /\ x \in Nat /\ x = loc + L
    BY <2>1, <2>3
  <2> HIDE DEF x, y
  <2>5. loc + L <= N /\ loc <= N
    BY <1>1, <2>4
  <2>6. loc' = p[pc'] /\ loc' = loc + L
    BY <2>3 DEF L
  <2>7. QED
    BY <2>2, <2>5, <2>6
<1>8. /\ \A n \in 1 .. N : n \notin loc + 1 .. loc + L => image'[n] = image[n]
      /\ \A i \in 1 .. L : image'[loc + i] = bytes[i]
  BY <1>1, <1>7, PutIs DEF N, L
<1>9. ASSUME NEW k \in 1 .. pc - 1
      PROVE  /\ k \in 1 .. Len(text) /\ p[k] \in Nat /\ p[k + 1] \in Nat /\ p[k + 1] <= loc
             /\ Fits(text[k], p[k], p[k + 1])
  <2>1. /\ k \in 1 .. Len(text) /\ k + 1 \in 1 .. Len(text) + 1
        /\ k \in 1 .. Len(text) + 1 /\ (k + 1 = pc \/ k + 1 < pc)
    BY <1>1, <1>2
  <2>2. p[k] \in Nat /\ p[k + 1] \in Nat /\ p[pc] \in Nat
    BY <1>3, <1>7, <2>1
  <2>3. p[k + 1] <= p[pc]
    BY <1>2, <1>7, <2>1, <2>2
  <2>4. QED
    BY <1>2, <1>5, <2>1, <2>2, <2>3
<1>10. ASSUME NEW k \in 1 .. pc - 1, NEW b, Len(b) \in Nat, p[k + 1] = p[k] + Len(b),
              \A i \in 1 .. Len(b) : image[p[k] + i] = b[i]
       PROVE  \A i \in 1 .. Len(b) : image'[p[k] + i] = b[i]
  <2> TAKE i \in 1 .. Len(b)
  <2> DEFINE n == p[k] + i
             m == Len(b)
  <2>1. /\ p[k] \in Nat /\ p[k + 1] \in Nat /\ p[k + 1] <= loc
        /\ p[k + 1] = p[k] + m /\ m \in Nat /\ i \in 1 .. m
    BY <1>9, <1>10
  <2> DEFINE x == p[k]
             y == p[k + 1]
  <2>a. /\ x \in Nat /\ y \in Nat /\ y <= loc /\ n = x + i
        /\ y = x + m /\ m \in Nat /\ i \in 1 .. m
    BY <2>1
  <2> HIDE DEF m, x, y, n
  <2>2. n \in 1 .. N /\ n \notin loc + 1 .. loc + L
    BY <1>1, <1>7, <2>a
  <2>3. image[n] = b[i]
    BY <1>10 DEF n
  <2>4. image'[n] = b[i]
    BY <1>8, <2>2, <2>3
  <2>5. QED
    BY <2>4 DEF n
<1>11. ASSUME NEW k \in 1 .. pc' - 1
       PROVE  /\ text[k].kind # "invalid"
              /\ text[k].kind = "data" =>
                   \A i \in 1 .. Len(text[k].bytes) : image'[p[k] + i] = text[k].bytes[i]
              /\ text[k].kind = "insn" =>
                   \E sa \in Junk : \A i \in 1 .. Len(code(k, sa)) :
                     image'[p[k] + i] = code(k, sa)[i]
  <2>1. CASE k = pc
    <3>1. text[k].kind = "data" =>
            \A i \in 1 .. Len(text[k].bytes) : image'[p[k] + i] = text[k].bytes[i]
      BY <1>5, <1>8, <2>1 DEF L
    <3>2. text[k].kind = "insn" =>
            \E sa \in Junk : \A i \in 1 .. Len(code(k, sa)) :
              image'[p[k] + i] = code(k, sa)[i]
      <4>1. text[k].kind = "insn" => \E sa \in Junk : bytes = code(k, sa)
        BY <1>5, <2>1 DEF code
      <4>2. \A i \in 1 .. Len(bytes) : image'[p[k] + i] = bytes[i]
        BY <1>5, <1>8, <2>1 DEF L
      <4>3. QED
        BY <4>1, <4>2
    <3>3. QED
      BY <2>1, <3>1, <3>2
  <2>2. CASE k # pc
    <3>1. k \in 1 .. pc - 1
      BY <1>1, <2>2
    <3>2. Fits(text[k], p[k], p[k + 1])
      BY <1>9, <3>1
    <3>3. text[k].kind # "invalid"
      BY <1>5, <3>1
    <3>4. ASSUME text[k].kind = "data"
          PROVE  \A i \in 1 .. Len(text[k].bytes) : image'[p[k] + i] = text[k].bytes[i]
      <4> DEFINE b == text[k].bytes
      <4>1. b \in Seq(Byte) /\ p[k + 1] = p[k] + Len(b)
        BY <3>2, <3>4 DEF Fits
      <4>2. \A i \in 1 .. Len(b) : image[p[k] + i] = b[i]
        BY <1>5, <3>1, <3>4
      <4>3. Len(b) \in Nat
        BY <4>1
      <4> HIDE DEF b
      <4>4. \A i \in 1 .. Len(b) : image'[p[k] + i] = b[i]
        BY <1>10, <3>1, <4>1, <4>2, <4>3
      <4>5. QED
        BY <4>4 DEF b
    <3>5. ASSUME text[k].kind = "insn"
          PROVE  \E sa \in Junk : \A i \in 1 .. Len(code(k, sa)) :
                   image'[p[k] + i] = code(k, sa)[i]
      <4>1. PICK sa \in Junk : \A i \in 1 .. Len(code(k, sa)) :
                   image[p[k] + i] = code(k, sa)[i]
        BY <1>5, <3>1, <3>5
      <4>2. Len(code(k, sa)) = 4 /\ p[k + 1] = p[k] + 4
        BY <1>6, <3>2, <3>5 DEF Fits
      <4> DEFINE b == code(k, sa)
      <4>3. Len(b) \in Nat /\ p[k + 1] = p[k] + Len(b)
        BY <4>2
      <4>4. \A i \in 1 .. Len(b) : image[p[k] + i] = b[i]
        BY <4>1
      <4> HIDE DEF b
      <4>5. \A i \in 1 .. Len(b) : image'[p[k] + i] = b[i]
        BY <1>10, <3>1, <4>3, <4>4
      <4>6. QED
        BY <4>5 DEF b
    <3>6. QED
      BY <3>3, <3>4, <3>5
  <2>3. QED
    BY <2>1, <2>2
<1>12. \A n \in 1 .. N : n \notin dasm_sta + 1 .. loc' => image'[n] = 0
  <2> TAKE n \in 1 .. N
  <2> HAVE n \notin dasm_sta + 1 .. loc'
  <2>1. n \notin loc + 1 .. loc + L /\ n \notin dasm_sta + 1 .. loc
    <3>1. dasm_sta <= loc
      BY <1>3, <1>5, <1>7
    <3>2. QED
      BY <1>1, <1>4, <1>7, <3>1
  <2>2. QED
    BY <1>5, <1>8, <2>1
<1>13. dasm_sta' = dasm_sta /\ text' = text /\ Len(file') = N
  BY DEF dasm_sta, N
<1>14. \A k \in 1 .. pc' - 1 :
         /\ text'[k].kind # "invalid"
         /\ text'[k].kind = "data" =>
              \A i \in 1 .. Len(text'[k].bytes) : image'[p[k] + i] = text'[k].bytes[i]
         /\ text'[k].kind = "insn" =>
              \E sa \in Junk :
                LET c == BytesOf(EncodeInstruction(As(text'[k].asm, p[k], sa)))
                IN  \A i \in 1 .. Len(c) : image'[p[k] + i] = c[i]
  BY <1>11, <1>13 DEF code
<1>15. QED
  BY <1>7, <1>12, <1>13, <1>14, Zenon DEF Written, Stands

(* Where the line of an instruction comes from.                            *)
LEMMA ComesFrom ==
  ASSUME file \in Seq(Byte), NEW l, NEW x, NEW y, Fits(l, x, y), l.kind = "insn"
  PROVE  /\ l.at \in Nat /\ l.at + 4 <= Len(file) /\ x = l.at /\ y = l.at + 4
         /\ WordAt(file, l.at) \in Words
         /\ \E name : /\ Decoded(name, WordAt(file, l.at)).opcode # "none"
                      /\ l.asm = Disas(Decoded(name, WordAt(file, l.at)), l.at)
<1>1. l.at \in Nat /\ l.at + 4 <= Len(file) /\ x = l.at /\ y = l.at + 4
  BY DEF Fits
<1>2. WordAt(file, l.at) \in Words
  BY <1>1, WordOfFile
<1> DEFINE w == WordAt(file, l.at)
<1>3. PICK ins \in DecodeInstruction(w) : ins.opcode # "none" /\ l.asm = Disas(ins, l.at)
  BY DEF Fits
<1> HIDE DEF w
<1>4. PICK name : ins = Decoded(name, w)
  BY DEF DecodeInstruction
<1>5. Decoded(name, w).opcode # "none" /\ l.asm = Disas(Decoded(name, w), l.at)
  BY <1>3, <1>4
<1>6. QED
  BY <1>1, <1>2, <1>5 DEF w

(* A script that is not touched stays laid out as it was.                  *)
LEMMA LaidStays ==
  ASSUME NEW p, Laid(text, at, p), UNCHANGED <<file, limits, text, at>>
  PROVE  Laid(text, at, p)'
BY DEF Laid, Fits, dasm_sta

(* A line of data goes where it came from.                                 *)
LEMMA AssembleDataKeeps == IInv /\ AssembleData => IInv'
<1> SUFFICES ASSUME IInv, AssembleData PROVE IInv'
  OBVIOUS
<1>1. Typed /\ RefusedLines
  BY DEF IInv
<1>2. /\ status = "asm" /\ pc \in 1 .. Len(text) /\ text[pc].kind = "data"
      /\ Put(text[pc].bytes) /\ loc' = loc + Len(text[pc].bytes) /\ pc' = pc + 1
      /\ UNCHANGED <<file, limits, dmode, do_invalid, at, text, slot, refused, status>>
  <2>1. pc \in Nat
    BY <1>1 DEF Typed
  <2>2. QED
    BY <1>1, <2>1 DEF AssembleData, Reading, line, inputs, Typed
<1>3. PICK p : Laid(text, at, p) /\ (refused = {} => Written(p))
  BY DEF IInv, Placed
<1>4. Fits(text[pc], p[pc], p[pc + 1])
  BY <1>2, <1>3 DEF Laid
<1>5. text[pc].bytes \in Seq(Byte) /\ p[pc + 1] = p[pc] + Len(text[pc].bytes)
  BY <1>2, <1>4 DEF Fits
<1>6. refused = {} => Written(p)'
  BY <1>1, <1>2, <1>3, <1>5, OneMoreWritten
<1>7. Placed'
  BY <1>2, <1>3, <1>6, LaidStays DEF Placed
<1>8. Typed'
  <2>1. image' \in [1 .. Len(file) -> Byte]
    BY <1>1, <1>2, <1>5, PutIs DEF Typed
  <2>2. Len(text[pc].bytes) \in Nat
    BY <1>5
  <2>3. loc' \in Nat /\ pc' \in 1 .. Len(text) + 1 /\ refused \subseteq 1 .. pc' - 1
    BY <1>1, <1>2, <2>2 DEF Typed
  <2>4. QED
    BY <1>1, <1>2, <2>1, <2>3 DEF Typed
<1>9. InOrder' /\ RefusedLines'
  BY <1>1, <1>2 DEF InOrder, RefusedLines
<1>10. QED
  BY <1>7, <1>8, <1>9 DEF IInv

(* So does an instruction, unless a line before it was refused.            *)
LEMMA AssembleInstructionKeeps == IInv /\ AssembleInstruction => IInv'
<1> SUFFICES ASSUME IInv, AssembleInstruction PROVE IInv'
  OBVIOUS
<1>1. Typed /\ RefusedLines
  BY DEF IInv
<1> DEFINE op == text[pc].asm.op
           code(sa) == EncodeInstruction(As(text[pc].asm, loc, sa))
<1>2. /\ status = "asm" /\ pc \in 1 .. Len(text) /\ text[pc].kind = "insn"
      /\ \E sa \in Junk : Put(BytesOf(code(sa)))
      /\ loc' = loc + 4 /\ pc' = pc + 1
      /\ slot' = IF Transfer(op) THEN 1 ELSE IF slot > 0 THEN slot - 1 ELSE 0
      /\ UNCHANGED <<file, limits, dmode, do_invalid, at, text, refused, status>>
  <2>1. pc \in Nat
    BY <1>1 DEF Typed
  <2>2. QED
    BY <1>1, <2>1 DEF AssembleInstruction, Reading, line, inputs, Typed, Accepts
<1>3. PICK p : Laid(text, at, p) /\ (refused = {} => Written(p))
  BY DEF IInv, Placed
<1>4. Fits(text[pc], p[pc], p[pc + 1])
  BY <1>2, <1>3 DEF Laid
<1>5. PICK sa \in Junk : Put(BytesOf(code(sa)))
  BY <1>2
<1>6. code(sa) \in Words
  <2> DEFINE a == text[pc].at
             w == WordAt(file, a)
  <2>1. a \in Nat /\ w \in Words
    BY <1>1, <1>2, <1>4, ComesFrom DEF Typed
  <2>2. PICK name : /\ Decoded(name, w).opcode # "none"
                    /\ text[pc].asm = Disas(Decoded(name, w), a)
    BY <1>1, <1>2, <1>4, ComesFrom DEF Typed
  <2>3. sa \in Nat /\ loc \in Int /\ a \in Int
    BY <1>1, <2>1, ReassemblyAssumption DEF Typed
  <2> HIDE DEF a, w
  <2>4. Comes(EncodeInstruction(As(Disas(Decoded(name, w), a), loc, sa)),
              Decoded(name, w).opcode, w, a, loc)
    BY <2>1, <2>2, <2>3, Encoded
  <2>5. QED
    BY <2>2, <2>4 DEF Comes
<1>7. BytesOf(code(sa)) \in Seq(Byte) /\ Len(BytesOf(code(sa))) = 4
  BY <1>6, WordOfItsBytes
<1>8. p[pc] = text[pc].at /\ p[pc + 1] = text[pc].at + 4
  BY <1>1, <1>2, <1>4, ComesFrom DEF Typed
<1>9. refused = {} => Written(p)'
  <2> DEFINE bytes == BytesOf(code(sa))
  <2>1. /\ bytes \in Seq(Byte) /\ p[pc + 1] = p[pc] + Len(bytes) /\ Put(bytes)
        /\ loc' = loc + Len(bytes)
    BY <1>2, <1>5, <1>7, <1>8
  <2>2. \E s \in Junk : bytes = BytesOf(EncodeInstruction(As(text[pc].asm, loc, s)))
    OBVIOUS
  <2> HIDE DEF bytes, code
  <2>3. QED
    BY <1>1, <1>2, <1>3, <2>1, <2>2, OneMoreWritten
<1>10. Placed'
  BY <1>2, <1>3, <1>9, LaidStays DEF Placed
<1>11. Typed'
  <2>1. image' \in [1 .. Len(file) -> Byte]
    BY <1>1, <1>5, <1>7, PutIs DEF Typed
  <2>2. loc' \in Nat /\ pc' \in 1 .. Len(text) + 1 /\ refused \subseteq 1 .. pc' - 1
    BY <1>1, <1>2 DEF Typed
  <2>3. slot' \in {0, 1, 2}
    BY <1>1, <1>2 DEF Typed
  <2> HIDE DEF op, code
  <2>4. QED
    BY <1>1, <1>2, <2>1, <2>2, <2>3 DEF Typed
<1>12. InOrder' /\ RefusedLines'
  BY <1>1, <1>2 DEF InOrder, RefusedLines
<1>13. QED
  BY <1>10, <1>11, <1>12 DEF IInv

(* A refused line ends all that is known of places.                        *)
LEMMA RefuseLineKeeps == IInv /\ RefuseLine => IInv'
<1> SUFFICES ASSUME IInv, RefuseLine PROVE IInv'
  OBVIOUS
<1>1. Typed /\ RefusedLines
  BY DEF IInv
<1>2. /\ status = "asm" /\ pc \in 1 .. Len(text) /\ text[pc].kind # "data"
      /\ refused' = refused \cup {pc} /\ pc' = pc + 1 /\ slot' \in {2, slot}
      /\ UNCHANGED <<file, limits, dmode, do_invalid, at, text, loc, image, status>>
  <2>1. pc \in Nat
    BY <1>1 DEF Typed
  <2>2. QED
    BY <1>1, <2>1 DEF RefuseLine, Reading, line, inputs, Typed
<1>3. PICK p : Laid(text, at, p)
  BY DEF IInv, Placed
<1>4. Placed'
  BY <1>2, <1>3, LaidStays DEF Placed
<1>5. Typed'
  <2>1. pc' \in 1 .. Len(text) + 1 /\ refused' \subseteq 1 .. pc' - 1 /\ slot' \in {0, 1, 2}
    BY <1>1, <1>2 DEF Typed
  <2>2. QED
    BY <1>1, <1>2, <2>1 DEF Typed
<1>6. InOrder' /\ RefusedLines'
  BY <1>1, <1>2 DEF InOrder, RefusedLines
<1>7. QED
  BY <1>4, <1>5, <1>6 DEF IInv

(* Steps that only move on.                                                *)
LEMMA RestKeeps == IInv /\ (StartAssembling \/ Finish \/ UNCHANGED vars) => IInv'
<1> SUFFICES ASSUME IInv, StartAssembling \/ Finish \/ UNCHANGED vars PROVE IInv'
  OBVIOUS
<1>1. UNCHANGED <<file, limits, dmode, do_invalid, at, text, pc, loc, slot, image, refused>>
  BY DEF StartAssembling, Finish, vars, inputs
<1>2. \/ status' = status
      \/ status' = "asm" \/ status' = "failed"
      \/ status' = "done" /\ refused = {} /\ pc = Len(text) + 1
  BY DEF StartAssembling, Finish, vars
<1>3. PICK p : Laid(text, at, p) /\ (refused = {} => Written(p))
  BY DEF IInv, Placed
<1>4. Written(p) => Written(p)'
  BY <1>1 DEF Written, Stands, dasm_sta
<1>5. Placed'
  BY <1>1, <1>3, <1>4, LaidStays DEF Placed
<1>6. Typed'
  BY <1>1, <1>2 DEF IInv, Typed
<1>7. InOrder'
  BY <1>1, <1>2 DEF IInv, InOrder, dasm_sta
<1>8. RefusedLines'
  BY <1>1 DEF IInv, RefusedLines
<1>9. QED
  BY <1>5, <1>6, <1>7, <1>8 DEF IInv

(* The invariant is inductive.                                             *)
LEMMA NextKeeps == IInv /\ [Next]_vars => IInv'
<1>1. ASSUME IInv, Ended PROVE IInv'
  <2>1. UNCHANGED vars
    BY <1>1 DEF Ended
  <2>2. QED
    BY <1>1, <2>1, RestKeeps
<1>2. QED
  BY <1>1, TakeApartKeeps, AssembleDataKeeps, AssembleInstructionKeeps,
     RefuseLineKeeps, RestKeeps DEF Next
-----------------------------------------------------------------------------
(* When all went well.                                                     *)
LEMMA AtTheEnd ==
  ASSUME IInv, Done
  PROVE  \E p : /\ Laid(text, at, p) /\ loc = at
                /\ \A k \in 1 .. Len(text) :
                     /\ text[k].kind = "data" => Stands(text[k].bytes, p[k])
                     /\ text[k].kind = "insn" =>
                          \E sa \in Junk :
                            Stands(BytesOf(EncodeInstruction(As(text[k].asm, p[k], sa))),
                                   p[k])
                /\ \A n \in 1 .. Len(file) : n \notin dasm_sta + 1 .. loc => image[n] = 0
<1>1. refused = {} /\ pc = Len(text) + 1 /\ Len(text) \in Nat
  BY DEF IInv, InOrder, Done, Typed
<1>2. PICK p : Laid(text, at, p) /\ Written(p)
  BY <1>1 DEF IInv, Placed
<1>3. loc = at
  BY <1>1, <1>2 DEF Laid, Written
<1>4. pc - 1 = Len(text)
  BY <1>1
<1>5. QED
  BY <1>2, <1>3, <1>4 DEF Written

(* Data in the image, byte by byte.                                        *)
LEMMA DataComesBack == IInv => DataExact
<1> SUFFICES ASSUME IInv, Done, NEW n \in DOMAIN file
             PROVE  LET mine == {m \in DOMAIN text : text[m].at < n /\ n <= text[m].at + 4}
                    IN  IF mine = {} THEN image[n] = 0
                        ELSE (\E m \in mine : text[m].kind = "data") => image[n] = file[n]
  BY DEF DataExact
<1> DEFINE mine == {m \in DOMAIN text : text[m].at < n /\ n <= text[m].at + 4}
<1>1. PICK p :
        /\ Laid(text, at, p) /\ loc = at
        /\ \A k \in 1 .. Len(text) : text[k].kind = "data" => Stands(text[k].bytes, p[k])
        /\ \A i \in 1 .. Len(file) : i \notin dasm_sta + 1 .. loc => image[i] = 0
  BY AtTheEnd
<1>2. /\ Len(text) \in Nat /\ DOMAIN text = 1 .. Len(text)
      /\ DOMAIN file = 1 .. Len(file) /\ Len(file) \in Nat /\ n \in 1 .. Len(file)
  BY DEF IInv, Typed
<1>3. dasm_sta \in Nat /\ at \in Nat /\ \A k \in 1 .. Len(text) + 1 : p[k] \in Nat
  BY <1>1, LaidIsAhead
<1>4. ASSUME NEW m \in 1 .. Len(text)
      PROVE  /\ text[m].at \in Nat /\ dasm_sta <= text[m].at /\ text[m].at + 4 <= at
             /\ text[m].at <= p[m] /\ p[m + 1] <= text[m].at + 4
             /\ p[m] \in Nat /\ p[m + 1] \in Nat
             /\ text[m].kind = "data" =>
                  /\ Len(text[m].bytes) \in Nat /\ p[m + 1] = p[m] + Len(text[m].bytes)
                  /\ \A i \in 1 .. Len(text[m].bytes) : text[m].bytes[i] = file[p[m] + i]
  <2>1. Fits(text[m], p[m], p[m + 1]) /\ text[m].at + 4 <= at
    BY <1>1 DEF Laid
  <2>2. m \in 1 .. Len(text) + 1 /\ m + 1 \in 1 .. Len(text) + 1
    BY <1>2
  <2>3. p[m] \in Nat /\ p[m + 1] \in Nat
    BY <1>3, <2>2
  <2>4. text[m].kind = "data" => Len(text[m].bytes) \in Nat
    BY <2>1 DEF Fits
  <2>5. QED
    BY <2>1, <2>3, <2>4 DEF Fits
<1>5. n \in dasm_sta + 1 .. at => \E k \in 1 .. Len(text) : p[k] < n /\ n <= p[k + 1]
  BY <1>1 DEF Laid
<1>6. ASSUME NEW k \in 1 .. Len(text), p[k] < n, n <= p[k + 1]
      PROVE  text[k].at < n /\ n <= text[k].at + 4 /\ k \in mine
  <2> DEFINE x == p[k]
             y == p[k + 1]
             a == text[k].at
  <2>1. x \in Nat /\ y \in Nat /\ a \in Nat /\ a <= x /\ y <= a + 4 /\ x < n /\ n <= y
        /\ n \in Nat
    BY <1>2, <1>4, <1>6
  <2> HIDE DEF x, y, a
  <2>2. a < n /\ n <= a + 4
    BY <2>1
  <2>3. QED
    BY <1>2, <2>2 DEF a
<1>7. CASE mine = {}
  <2>1. n \notin dasm_sta + 1 .. at
    BY <1>5, <1>6, <1>7
  <2>2. image[n] = 0
    BY <1>1, <1>2, <2>1
  <2>3. QED
    BY <1>7, <2>2
<1>8. ASSUME NEW m \in mine, text[m].kind = "data" PROVE image[n] = file[n]
  <2>1. m \in 1 .. Len(text) /\ text[m].at < n /\ n <= text[m].at + 4
    BY <1>2
  <2>2. n \in dasm_sta + 1 .. at
    BY <1>2, <1>3, <1>4, <2>1
  <2>3. PICK k \in 1 .. Len(text) : p[k] < n /\ n <= p[k + 1]
    BY <1>5, <2>2
  <2>4. text[k].at < n /\ n <= text[k].at + 4
    BY <1>6, <2>3
  <2>5. \/ text[m].at = text[k].at /\ text[m].kind = text[k].kind
        \/ text[m].at + 4 <= text[k].at
        \/ text[k].at + 4 <= text[m].at
    BY <1>1, <2>1 DEF Laid
  <2>6. text[m].at \in Nat /\ text[k].at \in Nat /\ n \in Nat
    BY <1>2, <1>4, <2>1
  <2>7. text[k].kind = "data"
    BY <1>8, <2>1, <2>4, <2>5, <2>6
  <2> DEFINE b == text[k].bytes
             x == p[k]
             y == p[k + 1]
             L == Len(b)
  <2>8. /\ x \in Nat /\ y \in Nat /\ L \in Nat /\ y = x + L /\ x < n /\ n <= y
        /\ \A i \in 1 .. L : b[i] = file[x + i]
    BY <1>4, <2>3, <2>7
  <2>9. \A i \in 1 .. L : image[x + i] = b[i]
    BY <1>1, <2>7 DEF Stands
  <2> HIDE DEF b, x, y, L
  <2>10. n - x \in 1 .. L /\ x + (n - x) = n
    BY <2>6, <2>8
  <2>11. QED
    BY <2>8, <2>9, <2>10
<1>9. QED
  BY <1>7, <1>8

(* The word that stands where an instruction was.                          *)
LEMMA InstructionBack ==
  ASSUME IInv, Done, NEW n \in Instructions,
         NEW l, l = text[n], NEW w, w = WordAt(file, l.at)
  PROVE  /\ l.at \in Nat /\ w \in Words
         /\ \E name, sa :
              /\ sa \in Nat
              /\ Decoded(name, w).opcode # "none"
              /\ l.asm = Disas(Decoded(name, w), l.at)
              /\ WordAt(image, l.at) =
                   EncodeInstruction(As(Disas(Decoded(name, w), l.at), l.at, sa))
<1>1. n \in 1 .. Len(text) /\ l.kind = "insn" /\ file \in Seq(Byte)
  BY DEF IInv, Typed, Instructions
<1>2. PICK p :
        /\ Laid(text, at, p)
        /\ \A k \in 1 .. Len(text) :
             text[k].kind = "insn" =>
               \E sa \in Junk :
                 Stands(BytesOf(EncodeInstruction(As(text[k].asm, p[k], sa))), p[k])
  BY AtTheEnd
<1>3. Fits(l, p[n], p[n + 1])
  BY <1>1, <1>2 DEF Laid
<1>4. l.at \in Nat /\ w \in Words /\ p[n] = l.at
  BY <1>1, <1>3, ComesFrom
<1>5. PICK name : Decoded(name, w).opcode # "none" /\ l.asm = Disas(Decoded(name, w), l.at)
  BY <1>1, <1>3, ComesFrom
<1>6. PICK sa \in Junk : Stands(BytesOf(EncodeInstruction(As(l.asm, p[n], sa))), p[n])
  BY <1>1, <1>2
<1>7. sa \in Nat
  BY ReassemblyAssumption
<1> DEFINE e == EncodeInstruction(As(Disas(Decoded(name, w), l.at), l.at, sa))
<1>8. e \in Words
  <2> DEFINE a == l.at
  <2>1. a \in Int /\ Decoded(name, w).opcode # "none"
    BY <1>4, <1>5
  <2> HIDE DEF a
  <2>2. Comes(EncodeInstruction(As(Disas(Decoded(name, w), a), a, sa)),
              Decoded(name, w).opcode, w, a, a)
    BY <1>4, <1>7, <2>1, Encoded
  <2>3. QED
    BY <2>2 DEF Comes, a
<1>9. Stands(BytesOf(e), l.at)
  BY <1>4, <1>5, <1>6
<1> HIDE DEF e
<1>10. WordAt(image, l.at) = e
  <2>1. \A k \in 1 .. 4 : image[l.at + k] = BytesOf(e)[k]
    BY <1>8, <1>9, WordOfItsBytes DEF Stands
  <2>2. QED
    BY <1>8, <2>1, WordOfItsBytes
<1>11. QED
  BY <1>4, <1>5, <1>7, <1>10 DEF e

(* Instructions in the image, bit by bit.                                  *)
LEMMA CanonicalComesBack == IInv => CanonicalKept
<1> SUFFICES ASSUME IInv, Done, NEW n \in Instructions,
                    text[n].asm.op \notin Lossy,
                    WordAt(file, text[n].at).opcode = opcode_buffer[text[n].asm.op].opcode,
                    Canonical(WordAt(file, text[n].at), text[n].asm.op)
             PROVE  WordAt(image, text[n].at) = WordAt(file, text[n].at)
  BY DEF CanonicalKept
<1> DEFINE a == text[n].at
           w == WordAt(file, a)
           op == text[n].asm.op
<1>1. a \in Nat /\ w \in Words
  BY InstructionBack
<1>2. PICK name, sa :
        /\ sa \in Nat /\ Decoded(name, w).opcode # "none"
        /\ text[n].asm = Disas(Decoded(name, w), a)
        /\ WordAt(image, a) = EncodeInstruction(As(Disas(Decoded(name, w), a), a, sa))
  BY InstructionBack
<1>3. op = Decoded(name, w).opcode
  BY <1>2 DEF Disas
<1>4. op \notin Lossy /\ w.opcode = opcode_buffer[op].opcode /\ Canonical(w, op)
  OBVIOUS
<1> HIDE DEF a, w, op
<1>5. EncodeInstruction(As(Disas(Decoded(name, w), a), a, sa)) = w
  BY <1>1, <1>2, <1>3, <1>4, CanonicalBack
<1>6. WordAt(image, a) = w
  BY <1>2, <1>5
<1>7. QED
  BY <1>6 DEF a, w

(* Instructions in the image, as they are printed.                         *)
LEMMA MeaningComesBack == IInv => MeaningKept
<1> SUFFICES ASSUME IInv, Done, NEW n \in Instructions, text[n].asm.op \notin DebugMoves
             PROVE  LET op    == text[n].asm.op
                        again == PrintedAgain(text[n])
                    IN  /\ op \notin Lossy =>
                             {Meaning(l) : l \in again} = {Meaning(text[n].asm)}
                        /\ op \in Lossy \ LateCompares => \E l \in again : l.op = op
  BY DEF MeaningKept
<1> DEFINE a == text[n].at
           w == WordAt(file, a)
           asm == text[n].asm
           op == asm.op
           e == WordAt(image, a)
           again == PrintedAgain(text[n])
<1>1. a \in Nat /\ w \in Words
  BY InstructionBack
<1>2. PICK name, sa :
        /\ sa \in Nat /\ Decoded(name, w).opcode # "none"
        /\ asm = Disas(Decoded(name, w), a)
        /\ e = EncodeInstruction(As(Disas(Decoded(name, w), a), a, sa))
  BY InstructionBack
<1>3. op = Decoded(name, w).opcode
  BY <1>2 DEF Disas
<1>4. op \notin DebugMoves
  OBVIOUS
<1>5. again = Printed(e, a)
  BY DEF PrintedAgain, Printed
<1> HIDE DEF a, w, asm, op, e, again
<1>6. ASSUME op \notin LateCompares
      PROVE  /\ op \notin Lossy => {Meaning(l) : l \in again} = {Meaning(asm)}
             /\ op \in Lossy => \E l \in again : l.op = op
  <2>1. e = EncodeInstruction(As(asm, a, sa))
    BY <1>2
  <2>2. QED
    BY <1>1, <1>2, <1>3, <1>4, <1>5, <1>6, <2>1, PrintsBack
<1>7. op \in LateCompares => op \in Lossy
  BY DEF Lossy
<1>8. QED
  BY <1>6, <1>7 DEF asm, op, again
-----------------------------------------------------------------------------
(* The instructions assembled between two lines.                           *)
Between(m, n) == (m + 1 .. n - 1) \cap (Instructions \ refused)

Moves(n) == n \in Instructions /\ Transfer(text[n].asm.op)

(* A transfer whose slot is still empty has one asked for; and a slot asked *)
(* for has been asked for by a transfer, twice when it was then refused.   *)
SlotTaken ==
  \A n \in 1 .. pc - 1 :
    Moves(n) /\ n \notin refused /\ Between(n, pc) = {} => slot # 0

SlotAsked ==
  slot # 0 =>
    \E m \in 1 .. pc - 1 :
      /\ Moves(m)
      /\ \/ m \notin refused /\ slot = 1 /\ Between(m, pc) = {}
         \/ m \in refused /\ slot = 2 /\ Between(m, pc) = {}
         \/ m \in refused /\ slot = 1 /\ \E k : Between(m, pc) \subseteq {k}

Slots == SlotTaken /\ SlotAsked /\ SlotsFilled /\ Refusals

(* No slot is asked for before the first line.                             *)
LEMMA SlotsBegin == Init => Slots
<1> SUFFICES ASSUME Init PROVE Slots
  OBVIOUS
<1>1. pc = 1 /\ slot = 0 /\ refused = {} /\ 1 .. pc - 1 = {}
  BY DEF Init
<1>2. QED
  BY <1>1 DEF Slots, SlotTaken, SlotAsked, SlotsFilled, Refusals

(* What may be assembled between two lines, however it goes on.            *)
LEMMA BetweenIs ==
  ASSUME pc \in Nat, pc' = pc + 1, UNCHANGED text,
         refused \subseteq refused', refused' \subseteq refused \cup {pc},
         NEW m \in Nat
  PROVE  /\ \A n \in 1 .. pc : Between(m, n)' = Between(m, n)
         /\ pc \notin Instructions \ refused' => Between(m, pc)' = Between(m, pc)
         /\ Between(m, pc)' \subseteq Between(m, pc) \cup {pc}
         /\ pc \in Instructions \ refused' /\ m < pc => pc \in Between(m, pc)'
<1>1. Instructions' = Instructions
  BY DEF Instructions
<1>2. Between(m, pc)' = (m + 1 .. pc) \cap (Instructions \ refused')
  BY <1>1 DEF Between
<1>3. ASSUME NEW n \in 1 .. pc PROVE Between(m, n)' = Between(m, n)
  <2>1. Between(m, n)' = (m + 1 .. n - 1) \cap (Instructions \ refused')
    BY <1>1 DEF Between
  <2>2. pc \notin m + 1 .. n - 1
    OBVIOUS
  <2>3. QED
    BY <2>1, <2>2 DEF Between
<1>4. m + 1 .. pc \subseteq (m + 1 .. pc - 1) \cup {pc}
  OBVIOUS
<1>5. m + 1 .. pc - 1 \subseteq m + 1 .. pc /\ pc \notin m + 1 .. pc - 1
  OBVIOUS
<1>6. m < pc => pc \in m + 1 .. pc
  OBVIOUS
<1>7. pc \notin Instructions \ refused' => Between(m, pc)' = Between(m, pc)
  BY <1>2, <1>4, <1>5 DEF Between
<1>8. Between(m, pc)' \subseteq Between(m, pc) \cup {pc}
  BY <1>2, <1>4 DEF Between
<1>9. pc \in Instructions \ refused' /\ m < pc => pc \in Between(m, pc)'
  BY <1>2, <1>6
<1>10. QED
  BY <1>3, <1>7, <1>8, <1>9

(* The lines before this one stay what they were.                          *)
LEMMA PastStays ==
  ASSUME Typed, pc \in 1 .. Len(text), pc' = pc + 1, UNCHANGED text,
         refused' \in {refused, refused \cup {pc}}
  PROVE  /\ pc \in Nat /\ pc \notin refused
         /\ refused \subseteq refused' /\ refused' \subseteq refused \cup {pc}
         /\ \A n \in 1 .. pc' - 1 : n \in Nat /\ (n = pc \/ n \in 1 .. pc - 1)
         /\ \A n \in 1 .. pc - 1 : n < pc /\ (n \in refused' <=> n \in refused)
         /\ \A n : Moves(n)' <=> Moves(n)
<1>1. pc \in Nat /\ refused \subseteq 1 .. pc - 1 /\ pc \notin 1 .. pc - 1
  BY DEF Typed
<1>2. \A n \in 1 .. pc' - 1 : n \in Nat /\ (n = pc \/ n \in 1 .. pc - 1)
  BY <1>1
<1>3. \A n \in 1 .. pc - 1 : n < pc
  BY <1>1
<1>4. \A n : Moves(n)' <=> Moves(n)
  BY DEF Moves, Instructions
<1>5. QED
  BY <1>1, <1>2, <1>3, <1>4

(* The pairs of transfers and the lines refused so far.                    *)
LEMMA FilledStays ==
  ASSUME Typed, SlotTaken, SlotsFilled, pc \in 1 .. Len(text), pc' = pc + 1,
         UNCHANGED text, refused' \in {refused, refused \cup {pc}},
         Moves(pc) /\ pc \notin refused' => slot = 0
  PROVE  SlotsFilled'
<1>1. /\ pc \in Nat /\ pc \notin refused
      /\ refused \subseteq refused' /\ refused' \subseteq refused \cup {pc}
      /\ \A n \in 1 .. pc' - 1 : n \in Nat /\ (n = pc \/ n \in 1 .. pc - 1)
      /\ \A n \in 1 .. pc - 1 : n < pc /\ (n \in refused' <=> n \in refused)
      /\ \A n : Moves(n)' <=> Moves(n)
  BY PastStays
<1>2. ASSUME NEW n \in 1 .. pc' - 1, NEW m \in n + 1 .. pc' - 1,
             Moves(n), n \notin refused', Moves(m), m \notin refused'
      PROVE  Between(n, m)' # {}
  <2>1. n \in 1 .. pc - 1 /\ m \in 1 .. pc /\ n \in Nat
    BY <1>1
  <2>2. Between(n, m)' = Between(n, m)
    BY <1>1, <2>1, BetweenIs
  <2>3. n \notin refused
    BY <1>1, <1>2
  <2>4. CASE m = pc
    <3>1. slot = 0
      BY <1>2, <2>4
    <3>2. QED
      BY <1>2, <2>1, <2>2, <2>3, <2>4, <3>1 DEF SlotTaken
  <2>5. CASE m # pc
    <3>1. m \in n + 1 .. pc - 1 /\ m \notin refused
      BY <1>1, <1>2, <2>1, <2>5
    <3>2. QED
      BY <1>2, <2>1, <2>2, <2>3, <3>1 DEF SlotsFilled, Moves, Between
  <2>6. QED
    BY <2>4, <2>5
<1>3. \A n \in 1 .. pc' - 1 : \A m \in n + 1 .. pc' - 1 :
        Moves(n)' /\ n \notin refused' /\ Moves(m)' /\ m \notin refused'
          => Between(n, m)' # {}
  BY <1>1, <1>2
<1>4. QED
  BY <1>3 DEF SlotsFilled, Moves, Between

(* Why a line was refused.                                                 *)
Reason(n) ==
  \/ text[n].kind = "invalid"
  \/ /\ text[n].asm.op \in {"BC0F", "BC0FL", "BC0T", "BC0TL", "CACHE"}
     /\ text[n].asm.args["imm"] < 0
  \/ /\ Transfer(text[n].asm.op)
     /\ \E m \in Instructions :
          /\ m < n
          /\ Transfer(text[m].asm.op)
          /\ Cardinality(Between(m, n)) <= IF m \in refused THEN 1 ELSE 0

(* Reasons for refusals do not go away.                                    *)
LEMMA RefusalsStay ==
  ASSUME Typed, Refusals, pc \in 1 .. Len(text), pc' = pc + 1,
         UNCHANGED text, refused' \in {refused, refused \cup {pc}},
         pc \in refused' => Reason(pc)
  PROVE  Refusals'
<1>1. /\ pc \in Nat /\ pc \notin refused
      /\ refused \subseteq refused' /\ refused' \subseteq refused \cup {pc}
      /\ \A n \in 1 .. pc - 1 : n < pc /\ (n \in refused' <=> n \in refused)
  BY PastStays
<1>2. Instructions' = Instructions /\ Instructions \subseteq Nat
  BY DEF Instructions, Typed
<1>3. refused' \subseteq 1 .. pc
  BY <1>1 DEF Typed
<1>4. ASSUME NEW n \in refused' PROVE Reason(n)
  BY <1>1, <1>4 DEF Refusals, Reason, Between
<1>5. ASSUME NEW n \in refused' PROVE Reason(n)'
  <2>1. Reason(n) /\ n \in 1 .. pc
    BY <1>3, <1>4
  <2>2. CASE \/ text[n].kind = "invalid"
             \/ /\ text[n].asm.op \in {"BC0F", "BC0FL", "BC0T", "BC0TL", "CACHE"}
                /\ text[n].asm.args["imm"] < 0
    BY <2>2 DEF Reason
  <2>3. ASSUME Transfer(text[n].asm.op),
               NEW m \in Instructions, m < n, Transfer(text[m].asm.op),
               Cardinality(Between(m, n)) <= IF m \in refused THEN 1 ELSE 0
        PROVE  Reason(n)'
    <3>1. m \in Nat /\ m # pc
      BY <1>2, <1>1, <2>1, <2>3
    <3>2. Between(m, n)' = Between(m, n)
      BY <1>1, <2>1, <3>1, BetweenIs
    <3>3. m \in refused' <=> m \in refused
      BY <1>1, <3>1
    <3>4. Cardinality(Between(m, n)') <= IF m \in refused' THEN 1 ELSE 0
      BY <2>3, <3>2, <3>3
    <3>5. QED
      BY <1>2, <2>3, <3>4 DEF Reason
  <2>4. QED
    BY <2>1, <2>2, <2>3 DEF Reason
<1>6. QED
  BY <1>5 DEF Refusals, Reason, Between

(* Data leaves the slot as it is.                                          *)
LEMMA SlotsOfData == IInv /\ Slots /\ AssembleData => Slots'
<1> SUFFICES ASSUME IInv, Slots, AssembleData PROVE Slots'
  OBVIOUS
<1>1. Typed
  BY DEF IInv
<1>2. /\ pc \in 1 .. Len(text) /\ text[pc].kind = "data" /\ pc' = pc + 1
      /\ text' = text /\ slot' = slot /\ refused' = refused
  <2>1. pc \in Nat
    BY <1>1 DEF Typed
  <2>2. QED
    BY <1>1, <2>1 DEF AssembleData, Reading, line, Typed
<1>3. pc \notin Instructions /\ ~ Moves(pc)
  BY <1>2 DEF Instructions, Moves
<1>4. /\ pc \in Nat /\ pc \notin refused
      /\ \A n \in 1 .. pc' - 1 : n \in Nat /\ (n = pc \/ n \in 1 .. pc - 1)
      /\ \A n : Moves(n)' <=> Moves(n)
  BY <1>1, <1>2, PastStays
<1>5. \A m \in Nat : Between(m, pc)' = Between(m, pc)
  BY <1>2, <1>3, <1>4, BetweenIs
<1>6. SlotsFilled'
  BY <1>1, <1>2, <1>3, FilledStays DEF Slots
<1>7. Refusals'
  BY <1>1, <1>2, <1>4, RefusalsStay DEF Slots
<1>8. SlotTaken'
  BY <1>2, <1>3, <1>4, <1>5 DEF Slots, SlotTaken
<1>9. SlotAsked'
  BY <1>2, <1>3, <1>4, <1>5 DEF Slots, SlotAsked
<1>10. QED
  BY <1>6, <1>7, <1>8, <1>9 DEF Slots

(* An instruction fills a slot, or asks for one.                           *)
LEMMA SlotsOfInstruction == IInv /\ Slots /\ AssembleInstruction => Slots'
<1> SUFFICES ASSUME IInv, Slots, AssembleInstruction PROVE Slots'
  OBVIOUS
<1>1. Typed
  BY DEF IInv
<1>2. /\ pc \in 1 .. Len(text) /\ text[pc].kind = "insn" /\ pc' = pc + 1
      /\ Transfer(text[pc].asm.op) => slot = 0
      /\ slot' = IF Transfer(text[pc].asm.op) THEN 1 ELSE IF slot > 0 THEN slot - 1 ELSE 0
      /\ text' = text /\ refused' = refused
  <2>1. pc \in Nat
    BY <1>1 DEF Typed
  <2>2. QED
    BY <1>1, <2>1 DEF AssembleInstruction, Reading, line, Typed, Accepts
<1>3. /\ pc \in Nat /\ pc \notin refused
      /\ \A n \in 1 .. pc' - 1 : n \in Nat /\ (n = pc \/ n \in 1 .. pc - 1)
      /\ \A n \in 1 .. pc - 1 : n < pc
      /\ \A n : Moves(n)' <=> Moves(n)
  BY <1>1, <1>2, PastStays
<1>4. pc \in Instructions \ refused' /\ slot \in {0, 1, 2}
  BY <1>1, <1>2, <1>3 DEF Instructions, Typed
<1>5. Moves(pc) <=> Transfer(text[pc].asm.op)
  BY <1>4 DEF Moves
<1>6. \A m \in Nat : /\ Between(m, pc)' \subseteq Between(m, pc) \cup {pc}
                     /\ m < pc => pc \in Between(m, pc)'
  BY <1>2, <1>3, <1>4, BetweenIs
<1>7. SlotsFilled'
  BY <1>1, <1>2, <1>5, FilledStays DEF Slots
<1>8. Refusals'
  BY <1>1, <1>2, <1>3, RefusalsStay DEF Slots
<1>9. SlotTaken'
  <2>1. ASSUME NEW n \in 1 .. pc' - 1, Moves(n), Between(n, pc)' = {} PROVE slot' # 0
    <3>1. n = pc
      BY <1>3, <1>6, <2>1
    <3>2. QED
      BY <1>2, <1>5, <2>1, <3>1
  <2>2. QED
    BY <1>3, <2>1 DEF SlotTaken
<1>10. SlotAsked'
  <2>1. CASE Moves(pc)
    <3>1. slot' = 1
      BY <1>2, <1>5, <2>1
    <3>2. PICK m : m = pc
      OBVIOUS
    <3>3. m \in 1 .. pc' - 1 /\ m + 1 .. pc' - 1 = {}
      BY <1>2, <1>3, <3>2
    <3>4. Between(m, pc)' = {}
      BY <3>3 DEF Between
    <3>5. Moves(m)' /\ m \notin refused'
      BY <1>2, <1>3, <2>1, <3>2
    <3>6. QED
      BY <3>1, <3>3, <3>4, <3>5 DEF SlotAsked
  <2>2. CASE ~ Moves(pc) /\ slot' # 0
    <3>1. slot = 2 /\ slot' = 1
      BY <1>2, <1>4, <1>5, <2>2
    <3>2. PICK m \in 1 .. pc - 1 : Moves(m) /\ m \in refused /\ Between(m, pc) = {}
      BY <3>1 DEF Slots, SlotAsked
    <3>3. m \in 1 .. pc' - 1 /\ m \in Nat
      BY <1>2, <1>3
    <3>4. Between(m, pc)' \subseteq {pc}
      BY <1>6, <3>2, <3>3
    <3>5. \E k : Between(m, pc)' \subseteq {k}
      BY <3>4
    <3>6. Moves(m)' /\ m \in refused'
      BY <1>2, <1>3, <3>2
    <3>7. QED
      BY <3>1, <3>3, <3>5, <3>6 DEF SlotAsked
  <2>3. QED
    BY <2>1, <2>2 DEF SlotAsked
<1>11. QED
  BY <1>7, <1>8, <1>9, <1>10 DEF Slots

(* A refused transfer has asked for a slot, and for one too many.          *)
LEMMA SlotsOfRefusal == IInv /\ Slots /\ RefuseLine => Slots'
<1> SUFFICES ASSUME IInv, Slots, RefuseLine PROVE Slots'
  OBVIOUS
<1>1. Typed
  BY DEF IInv
<1>2. /\ pc \in 1 .. Len(text) /\ text[pc].kind # "data" /\ ~ Accepts(text[pc])
      /\ pc' = pc + 1 /\ text' = text /\ refused' = refused \cup {pc}
      /\ slot' = IF text[pc].kind = "insn" /\ Transfer(text[pc].asm.op) /\ slot = 0
                 THEN 2 ELSE slot
  <2>1. pc \in Nat
    BY <1>1 DEF Typed
  <2>2. QED
    BY <1>1, <2>1 DEF RefuseLine, Reading, line, Typed
<1>3. /\ pc \in Nat /\ pc \notin refused
      /\ \A n \in 1 .. pc' - 1 : n \in Nat /\ (n = pc \/ n \in 1 .. pc - 1)
      /\ \A n \in 1 .. pc - 1 : n < pc /\ (n \in refused' <=> n \in refused)
      /\ \A n : Moves(n)' <=> Moves(n)
  BY <1>1, <1>2, PastStays
<1>4. Moves(pc) <=> text[pc].kind = "insn" /\ Transfer(text[pc].asm.op)
  BY <1>1, <1>2 DEF Moves, Instructions, Typed
<1>5. \A m \in Nat : Between(m, pc)' = Between(m, pc)
  <2>1. pc \notin Instructions \ refused'
    BY <1>2
  <2>2. QED
    BY <1>2, <1>3, <2>1, BetweenIs
<1>6. slot' = IF Moves(pc) /\ slot = 0 THEN 2 ELSE slot
  BY <1>2, <1>4
<1>7. SlotsFilled'
  BY <1>1, <1>2, FilledStays DEF Slots
<1>8. Refusals'
  <2>1. Reason(pc)
    <3>1. PICK p : Laid(text, at, p)
      BY DEF IInv, Placed
    <3>2. Fits(text[pc], p[pc], p[pc + 1])
      BY <1>2, <3>1 DEF Laid
    <3>3. text[pc].kind \in {"insn", "invalid"}
      BY <1>2, <3>2 DEF Fits
    <3>4. CASE text[pc].kind = "invalid"
      BY <3>4 DEF Reason
    <3>5. CASE text[pc].kind = "insn" /\ ~ Readable(text[pc].asm)
      <4> DEFINE a == text[pc].at
                 w == WordAt(file, a)
      <4>1. a \in Nat /\ w \in Words
        BY <1>1, <3>2, <3>5, ComesFrom DEF Typed
      <4>2. PICK name : /\ Decoded(name, w).opcode # "none"
                        /\ text[pc].asm = Disas(Decoded(name, w), a)
        BY <1>1, <3>2, <3>5, ComesFrom DEF Typed
      <4> HIDE DEF a, w
      <4>3. /\ text[pc].asm.op \in {"BC0F", "BC0FL", "BC0T", "BC0TL", "CACHE"}
            /\ text[pc].asm.args["imm"] < 0
        BY <3>5, <4>1, <4>2, Unreadable
      <4>4. QED
        BY <4>3 DEF Reason
    <3>6. CASE text[pc].kind = "insn" /\ Transfer(text[pc].asm.op) /\ slot # 0
      <4>1. PICK m \in 1 .. pc - 1 :
              /\ Moves(m)
              /\ \/ m \notin refused /\ Between(m, pc) = {}
                 \/ m \in refused /\ \E k : Between(m, pc) \subseteq {k}
        <5>1. PICK m \in 1 .. pc - 1 :
                /\ Moves(m)
                /\ \/ m \notin refused /\ slot = 1 /\ Between(m, pc) = {}
                   \/ m \in refused /\ slot = 2 /\ Between(m, pc) = {}
                   \/ m \in refused /\ slot = 1 /\ \E k : Between(m, pc) \subseteq {k}
          BY <3>6 DEF Slots, SlotAsked
        <5>2. Between(m, pc) = {} => Between(m, pc) \subseteq {0}
          OBVIOUS
        <5>3. QED
          BY <5>1, <5>2
      <4>2. Cardinality(Between(m, pc)) <= IF m \in refused THEN 1 ELSE 0
        <5>1. Cardinality({}) = 0
          BY FS_EmptySet
        <5>2. CASE Between(m, pc) = {}
          BY <5>1, <5>2
        <5>3. ASSUME m \in refused, NEW k, Between(m, pc) \subseteq {k}
              PROVE  Cardinality(Between(m, pc)) <= IF m \in refused THEN 1 ELSE 0
          <6>1. Between(m, pc) = {} \/ Between(m, pc) = {k}
            BY <5>3
          <6>2. Cardinality({k}) = 1
            BY FS_Singleton
          <6>3. QED
            BY <5>1, <5>3, <6>1, <6>2
        <5>4. QED
          BY <4>1, <5>2, <5>3
      <4>3. m \in Instructions /\ m < pc /\ Transfer(text[m].asm.op)
        BY <1>3, <4>1 DEF Moves
      <4>4. QED
        BY <3>6, <4>2, <4>3 DEF Reason
    <3>7. QED
      BY <1>2, <3>3, <3>4, <3>5, <3>6 DEF Accepts
  <2>2. QED
    BY <1>1, <1>2, <2>1, RefusalsStay DEF Slots
<1>9. SlotTaken'
  <2>1. ASSUME NEW n \in 1 .. pc' - 1, Moves(n), n \notin refused', Between(n, pc)' = {}
        PROVE  slot' # 0
    <3>1. n \in 1 .. pc - 1 /\ n \notin refused /\ Between(n, pc) = {}
      BY <1>2, <1>3, <1>5, <2>1
    <3>2. slot # 0
      BY <2>1, <3>1 DEF Slots, SlotTaken
    <3>3. QED
      BY <1>6, <3>2
  <2>2. QED
    BY <1>3, <2>1 DEF SlotTaken
<1>10. SlotAsked'
  <2>1. CASE Moves(pc) /\ slot = 0
    <3>1. slot' = 2
      BY <1>6, <2>1
    <3>2. PICK m : m = pc
      OBVIOUS
    <3>3. m \in 1 .. pc' - 1 /\ m + 1 .. pc' - 1 = {}
      BY <1>2, <1>3, <3>2
    <3>4. Between(m, pc)' = {}
      BY <3>3 DEF Between
    <3>5. Moves(m)' /\ m \in refused'
      BY <1>2, <1>3, <2>1, <3>2
    <3>6. QED
      BY <3>1, <3>3, <3>4, <3>5 DEF SlotAsked
  <2>2. CASE slot # 0
    <3>1. slot' = slot
      BY <1>6, <2>2
    <3>2. PICK m \in 1 .. pc - 1 :
            /\ Moves(m)
            /\ \/ m \notin refused /\ slot = 1 /\ Between(m, pc) = {}
               \/ m \in refused /\ slot = 2 /\ Between(m, pc) = {}
               \/ m \in refused /\ slot = 1 /\ \E k : Between(m, pc) \subseteq {k}
      BY <2>2 DEF Slots, SlotAsked
    <3>3. m \in 1 .. pc' - 1 /\ m \in Nat /\ (m \in refused' <=> m \in refused)
      BY <1>2, <1>3
    <3>4. Between(m, pc)' = Between(m, pc)
      BY <1>5, <3>3
    <3>5. Moves(m)'
      BY <1>3, <3>2
    <3>6. QED
      BY <3>1, <3>2, <3>3, <3>4, <3>5 DEF SlotAsked
  <2>3. CASE slot = 0 /\ ~ Moves(pc)
    <3>1. slot' = 0
      BY <1>6, <2>3
    <3>2. QED
      BY <3>1 DEF SlotAsked
  <2>4. QED
    BY <2>1, <2>2, <2>3
<1>11. QED
  BY <1>7, <1>8, <1>9, <1>10 DEF Slots

(* What is known of slots is inductive.                                    *)
LEMMA SlotsOfNext == IInv /\ Slots /\ [Next]_vars => Slots'
<1> SUFFICES ASSUME IInv, Slots, [Next]_vars PROVE Slots'
  OBVIOUS
<1>1. CASE TakeApart
  <2>1. pc' = 1 /\ slot' = 0 /\ refused' = {}
    BY <1>1 DEF IInv, InOrder, TakeApart
  <2>2. 1 .. pc' - 1 = {}
    BY <2>1
  <2>3. QED
    BY <2>1, <2>2 DEF Slots, SlotTaken, SlotAsked, SlotsFilled, Refusals
<1>2. CASE StartAssembling \/ Finish \/ Ended \/ UNCHANGED vars
  <2>1. UNCHANGED <<text, pc, slot, refused>>
    BY <1>2 DEF StartAssembling, Finish, Ended, vars
  <2>2. QED
    BY <2>1 DEF Slots, SlotTaken, SlotAsked, SlotsFilled, Refusals, Moves, Between,
                Instructions
<1>3. QED
  BY <1>1, <1>2, SlotsOfData, SlotsOfInstruction, SlotsOfRefusal DEF Next
-----------------------------------------------------------------------------
(* Whatever is taken apart, and with whatever options, every byte, line and *)
(* instruction in every state is one.                                      *)
THEOREM TypeCorrect == Spec => []Typed
<1>1. IInv => Typed
  BY DEF IInv
<1>2. QED
  BY <1>1, Begins, NextKeeps, PTL DEF Spec

(* Words that are no instruction come back byte for byte from any file, as *)
(* .word, .half or .byte lines alike, and the rest of the file is left.    *)
THEOREM DataIsExact == Spec => []DataExact
BY Begins, NextKeeps, DataComesBack, PTL DEF Spec

(* Any instruction the assembler could have written comes back bit for bit *)
(* if its encoding loses no operand.                                       *)
THEOREM CanonicalIsKept == Spec => []CanonicalKept
BY Begins, NextKeeps, CanonicalComesBack, PTL DEF Spec

(* Whatever word was an instruction, what is assembled of its line is       *)
(* printed as that line again.                                             *)
THEOREM MeaningIsKept == Spec => []MeaningKept
BY Begins, NextKeeps, MeaningComesBack, PTL DEF Spec

(* Whatever is refused on the way, no transfer is put in another's slot.   *)
THEOREM SlotsAreFilled == Spec => []SlotsFilled
<1>1. Slots => SlotsFilled
  BY DEF Slots
<1>2. QED
  BY <1>1, Begins, NextKeeps, SlotsBegin, SlotsOfNext, PTL DEF Spec

(* The assembler refuses none of the disassembler's lines without reason.  *)
THEOREM RefusalsExplained == Spec => []Refusals
<1>1. Slots => Refusals
  BY DEF Slots
<1>2. QED
  BY <1>1, Begins, NextKeeps, SlotsBegin, SlotsOfNext, PTL DEF Spec
=============================================================================
