------------------------- MODULE PreprocessorProofs -------------------------
(***************************************************************************)
(* The preprocessor counts the lines it reads, tells prtasm where a line   *)
(* comes from, and selects the lines its conditions select, for every set  *)
(* of files.                                                               *)
(***************************************************************************)
EXTENDS Preprocessor, SequenceLemmas

(* Every number printed, those of hints and of __LINE__ too, is one more   *)
(* than that of the line being read.                                       *)
OneMore == \A n \in DOMAIN output : output[n].n = output[n].at + 1

IInv == TypeOK /\ files \in Files /\ Counted /\ OneMore
-----------------------------------------------------------------------------
(* What a line becomes. *)
LEMMA SubstitutedType ==
  ASSUME NEW args \in Seq(STRING), NEW syms, \A s \in DOMAIN syms : syms[s] \in STRING
  PROVE  Substituted(args, syms) \in Seq(STRING)
<1> DEFINE new == Substituted(args, syms)
<1>1. /\ Len(args) \in Nat /\ DOMAIN args = 1 .. Len(args)
      /\ \A i \in 1 .. Len(args) : args[i] \in STRING
  BY LenProperties, ElementOfSeq
<1>2. /\ new = [i \in 1 .. Len(args) |-> new[i]]
      /\ \A i \in 1 .. Len(args) : new[i] \in STRING
  BY <1>1 DEF Substituted
<1> HIDE DEF new
<1>3. QED
  BY <1>1, <1>2, MapSeq DEF new

(* The replacements of one word: f[k] is what it is after k of them.       *)
IsReplaced(f, n, word, args) ==
  f = [k \in 0 .. n |-> IF k = 0 THEN word
                        ELSE IF f[k - 1] = Parameters[k] THEN args[k] ELSE f[k - 1]]

LEMMA ReplacedExists ==
  ASSUME NEW word, NEW args
  PROVE  \A n \in Nat : \E f : IsReplaced(f, n, word, args)
<1> DEFINE e(f, k) == IF k = 0 THEN word
                      ELSE IF f[k - 1] = Parameters[k] THEN args[k] ELSE f[k - 1]
           S == {n \in Nat : \E f : f = [k \in 0 .. n |-> e(f, k)]}
<1>1. 0 \in S
  <2> DEFINE g == [k \in 0 .. 0 |-> word]
  <2>1. g = [k \in 0 .. 0 |-> e(g, k)]
    OBVIOUS
  <2>2. QED
    BY <2>1
<1>2. ASSUME NEW n \in Nat, n \in S
      PROVE  n + 1 \in S
  <2>1. PICK f : f = [k \in 0 .. n |-> e(f, k)]
    BY <1>2
  <2> DEFINE last == e(f, n + 1)
             g == [k \in 0 .. n + 1 |-> IF k <= n THEN f[k] ELSE last]
  <2>2. ASSUME NEW k \in 0 .. n + 1
        PROVE  g[k] = e(g, k)
    <3>1. k # 0 => g[k - 1] = f[k - 1]
      OBVIOUS
    <3>2. CASE k <= n
      <4>1. k \in 0 .. n /\ g[k] = f[k]
        BY <3>2
      <4>2. f[k] = e(f, k)
        BY <2>1, <4>1
      <4>3. QED
        BY <3>1, <4>1, <4>2
    <3>3. CASE ~(k <= n)
      <4>1. k = n + 1
        BY <3>3
      <4>2. g[k] = last
        BY <3>3
      <4>3. QED
        BY <3>1, <4>1, <4>2
    <3>4. QED
      BY <3>2, <3>3
  <2> HIDE DEF last
  <2>3. g = [k \in 0 .. n + 1 |-> g[k]]
    OBVIOUS
  <2> HIDE DEF g, e
  <2>4. g = [k \in 0 .. n + 1 |-> e(g, k)]
    BY <2>2, <2>3
  <2>5. QED
    BY <2>4
<1>3. Nat \subseteq S
  <2> HIDE DEF S
  <2>1. QED
    BY <1>1, <1>2, Induction
<1>4. QED
  BY <1>3 DEF IsReplaced

(* What is put for a parameter is the word or one of the operands.         *)
LEMMA ReplacedType ==
  ASSUME NEW word \in STRING, NEW args \in Seq(STRING)
  PROVE  Replaced(word, args) \in STRING
<1> DEFINE n == Len(args)
           f == CHOOSE g : IsReplaced(g, n, word, args)
<1>1. n \in Nat /\ \A k \in 1 .. n : args[k] \in STRING
  BY LenProperties, ElementOfSeq
<1>2. Replaced(word, args) = f[n]
  BY Zenon DEF Replaced, IsReplaced
<1>3. IsReplaced(f, n, word, args)
  BY <1>1, ReplacedExists
<1> HIDE DEF n, f
<1>4. f[0] = word
  BY <1>1, <1>3 DEF IsReplaced
<1>5. \A k \in 1 .. n : f[k] \in {args[k], f[k - 1]}
  BY <1>1, <1>3 DEF IsReplaced
<1> DEFINE S == {k \in Nat : k <= n => f[k] \in STRING}
<1>6. 0 \in S
  BY <1>4
<1>7. ASSUME NEW k \in Nat, k \in S
      PROVE  k + 1 \in S
  <2> SUFFICES ASSUME k + 1 <= n
               PROVE  f[k + 1] \in STRING
    OBVIOUS
  <2>1. k + 1 \in 1 .. n /\ k + 1 - 1 = k /\ f[k] \in STRING
    BY <1>1, <1>7
  <2>2. f[k + 1] \in {args[k + 1], f[k]}
    BY <1>5, <2>1
  <2>3. QED
    BY <1>1, <2>1, <2>2
<1>8. Nat \subseteq S
  <2> HIDE DEF S
  <2>1. QED
    BY <1>6, <1>7, Induction
<1>9. n <= n
  BY <1>1
<1>10. QED
  BY <1>1, <1>2, <1>8, <1>9

LEMMA InstantiatedType ==
  ASSUME NEW l \in LineSet, NEW args \in Seq(STRING)
  PROVE  Instantiated(l, args) \in LineSet
<1> DEFINE new == [n \in DOMAIN l.args |-> Replaced(l.args[n], args)]
<1>1. l.args \in Seq(STRING)
  BY DEF LineSet
<1>2. /\ Len(l.args) \in Nat /\ DOMAIN l.args = 1 .. Len(l.args)
      /\ \A i \in 1 .. Len(l.args) : l.args[i] \in STRING
  BY <1>1, LenProperties, ElementOfSeq
<1>3. new = [i \in 1 .. Len(l.args) |-> new[i]]
  BY <1>2
<1>4. \A i \in 1 .. Len(l.args) : new[i] \in STRING
  BY <1>2, ReplacedType
<1>5. Instantiated(l, args) = [l EXCEPT !.args = new]
  BY DEF Instantiated
<1> HIDE DEF new
<1>6. new \in Seq(STRING)
  BY <1>2, <1>3, <1>4, MapSeq
<1>7. QED
  BY <1>5, <1>6 DEF LineSet

MacrosOK(ms) == \A k \in DOMAIN ms : ms[k] \in Seq(LineSet)
SymbolsOK(syms) == \A s \in DOMAIN syms : syms[s] \in STRING

LEMMA ExpansionType ==
  ASSUME NEW l \in LineSet, NEW syms, SymbolsOK(syms), NEW ms, MacrosOK(ms)
  PROVE  Expansion(l, syms, ms) \in Seq(LineSet)
<1> DEFINE args == Substituted(l.args, syms)
           key  == MacroKey(l)
           body == [n \in DOMAIN ms[key] |-> Instantiated(ms[key][n], args)]
<1>1. args \in Seq(STRING)
  BY SubstitutedType DEF LineSet, SymbolsOK
<1>2. CASE key \in DOMAIN ms
  <2>1. ms[key] \in Seq(LineSet)
    BY <1>2 DEF MacrosOK
  <2>2. /\ Len(ms[key]) \in Nat /\ DOMAIN ms[key] = 1 .. Len(ms[key])
        /\ \A i \in 1 .. Len(ms[key]) : ms[key][i] \in LineSet
    BY <2>1, LenProperties, ElementOfSeq
  <2> HIDE DEF args, key
  <2>3. /\ body = [i \in 1 .. Len(ms[key]) |-> body[i]]
        /\ \A i \in 1 .. Len(ms[key]) : body[i] \in LineSet
    BY <1>1, <2>2, InstantiatedType
  <2> HIDE DEF body
  <2>4. body \in Seq(LineSet)
    BY <2>2, <2>3, MapSeq
  <2>5. QED
    BY <1>2, <2>4 DEF Expansion, args, key, body
<1>3. CASE key \notin DOMAIN ms
  <2>1. Expansion(l, syms, ms) = <<[l EXCEPT !.args = args]>>
    BY <1>3 DEF Expansion
  <2> HIDE DEF args
  <2>2. [l EXCEPT !.args = args] \in LineSet
    BY <1>1 DEF LineSet
  <2>3. QED
    BY <2>1, <2>2
<1>4. QED
  BY <1>2, <1>3

(* The body of a macro ends before the first %endmacro, or with the file.  *)
LEMMA MacroBodyType ==
  ASSUME NEW src \in Seq(LineSet), NEW first \in 1 .. Len(src) + 1
  PROVE  /\ MacroBody(src, first) \in Seq(LineSet)
         /\ Len(MacroBody(src, first)) \in Nat
<1> DEFINE ends == {n \in first .. Len(src) : src[n].op = "endmacro"}
           least == CHOOSE n \in ends : \A m \in ends : n <= m
           last == IF ends = {} THEN Len(src) ELSE least - 1
<1>1. Len(src) \in Nat /\ \A i \in 1 .. Len(src) : src[i] \in LineSet
  BY LenProperties, ElementOfSeq
<1>2. last \in Int /\ last <= Len(src)
  <2>1. CASE ends = {}
    BY <1>1, <2>1
  <2>2. CASE ends # {}
    <3>1. ends \subseteq Nat
      BY <1>1
    <3>2. \E n \in ends : \A m \in ends : n <= m
      BY <2>2, <3>1, Least
    <3>3. least \in ends
      BY <3>2
    <3>4. QED
      BY <1>1, <2>2, <3>3
  <2>3. QED
    BY <2>1, <2>2
<1>3. MacroBody(src, first) = SubSeq(src, first, last)
  BY Zenon DEF MacroBody
<1> HIDE DEF last
<1>4. \A i \in first .. last : src[i] \in LineSet
  BY <1>1, <1>2
<1>5. SubSeq(src, first, last) \in Seq(LineSet)
  BY <1>1, <1>2, <1>4, SubSeqProperties
<1>6. QED
  BY <1>3, <1>5, LenProperties
-----------------------------------------------------------------------------
(* What is printed. *)
NumberedLines(s) ==
  s \in Seq(PrintedSet) /\ \A n \in 1 .. Len(s) : s[n].n = s[n].at + 1

LEMMA NumberedConcat ==
  ASSUME NEW s, NEW t, NumberedLines(s), NumberedLines(t)
  PROVE  NumberedLines(s \o t)
<1>1. /\ s \o t \in Seq(PrintedSet) /\ Len(s \o t) = Len(s) + Len(t)
      /\ \A i \in 1 .. Len(s) + Len(t) :
           (s \o t)[i] = IF i <= Len(s) THEN s[i] ELSE t[i - Len(s)]
  BY ConcatProperties DEF NumberedLines
<1>2. Len(s) \in Nat /\ Len(t) \in Nat
  BY LenProperties DEF NumberedLines
<1> DEFINE u == s \o t
<1> HIDE DEF u
<1>3. ASSUME NEW i \in 1 .. Len(u)
      PROVE  u[i].n = u[i].at + 1
  <2>1. CASE i <= Len(s)
    <3>1. i \in 1 .. Len(s) /\ u[i] = s[i]
      BY <1>1, <1>2, <2>1 DEF u
    <3>2. QED
      BY <3>1 DEF NumberedLines
  <2>2. CASE ~ (i <= Len(s))
    <3>1. i - Len(s) \in 1 .. Len(t) /\ u[i] = t[i - Len(s)]
      BY <1>1, <1>2, <2>2 DEF u
    <3>2. QED
      BY <3>1 DEF NumberedLines
  <2>3. QED
    BY <2>1, <2>2
<1>4. QED
  BY <1>1, <1>3 DEF NumberedLines, u

LEMMA NumberedFileLine ==
  ASSUME NEW name \in STRING, NEW at \in Nat, NEW hint \in BOOLEAN
  PROVE  NumberedLines(<<FileLine(name, at + 1, at, hint)>>)
<1>1. FileLine(name, at + 1, at, hint) \in PrintedSet
  BY DEF FileLine, PrintedSet
<1>2. FileLine(name, at + 1, at, hint).n = FileLine(name, at + 1, at, hint).at + 1
  BY DEF FileLine
<1> DEFINE o == FileLine(name, at + 1, at, hint)
<1> HIDE DEF o
<1>3. NumberedLines(<<o>>)
  BY <1>1, <1>2 DEF NumberedLines, o
<1>4. QED
  BY <1>3 DEF o

LEMMA NumberedNone == NumberedLines(<<>>)
  BY EmptySeq DEF NumberedLines

(* The texts of what is printed. *)
TextSeqs(lines) == [n \in DOMAIN lines |-> TextOf(lines[n])]

LEMMA TextSeqsType ==
  ASSUME NEW s \in Seq(PrintedSet)
  PROVE  /\ TextSeqs(s) \in Seq(Seq(LineSet)) /\ Len(TextSeqs(s)) = Len(s)
         /\ \A n \in 1 .. Len(s) : TextSeqs(s)[n] = TextOf(s[n])
<1>1. /\ Len(s) \in Nat /\ DOMAIN s = 1 .. Len(s)
      /\ \A n \in 1 .. Len(s) : s[n] \in PrintedSet
  BY LenProperties, ElementOfSeq
<1>2. \A o \in PrintedSet : TextOf(o) \in Seq(LineSet)
  <2> TAKE o \in PrintedSet
  <2>1. CASE o.kind = "line"
    <3>1. o.text \in LineSet
      BY <2>1 DEF PrintedSet
    <3>2. TextOf(o) = <<o.text>>
      BY <2>1 DEF TextOf
    <3>3. QED
      BY <3>1, <3>2
  <2>2. CASE o.kind # "line"
    BY <2>2, EmptySeq DEF TextOf
  <2>3. QED
    BY <2>1, <2>2
<1> DEFINE t == TextSeqs(s)
<1>3. /\ t = [n \in 1 .. Len(s) |-> t[n]]
      /\ \A n \in 1 .. Len(s) : t[n] = TextOf(s[n])
  BY <1>1 DEF TextSeqs
<1>4. \A n \in 1 .. Len(s) : t[n] \in Seq(LineSet)
  BY <1>1, <1>2, <1>3
<1> HIDE DEF t
<1>5. t \in Seq(Seq(LineSet)) /\ Len(t) = Len(s)
  BY <1>1, <1>3, <1>4, MapSeq
<1>6. QED
  BY <1>3, <1>5 DEF t

LEMMA TextsConcat ==
  ASSUME NEW s \in Seq(PrintedSet), NEW t \in Seq(PrintedSet)
  PROVE  /\ Texts(s \o t) = Texts(s) \o Texts(t)
         /\ Texts(s) \in Seq(LineSet)
<1> DEFINE u == s \o t
           v == TextSeqs(s) \o TextSeqs(t)
<1>1. /\ u \in Seq(PrintedSet) /\ Len(u) = Len(s) + Len(t)
      /\ \A i \in 1 .. Len(s) + Len(t) : u[i] = IF i <= Len(s) THEN s[i] ELSE t[i - Len(s)]
  BY ConcatProperties
<1> HIDE DEF u
<1>2. Len(s) \in Nat /\ Len(t) \in Nat
  BY LenProperties
<1>3. /\ TextSeqs(s) \in Seq(Seq(LineSet)) /\ TextSeqs(t) \in Seq(Seq(LineSet))
      /\ TextSeqs(u) \in Seq(Seq(LineSet))
      /\ Len(TextSeqs(s)) = Len(s) /\ Len(TextSeqs(t)) = Len(t) /\ Len(TextSeqs(u)) = Len(u)
      /\ \A n \in 1 .. Len(s) : TextSeqs(s)[n] = TextOf(s[n])
      /\ \A n \in 1 .. Len(t) : TextSeqs(t)[n] = TextOf(t[n])
      /\ \A n \in 1 .. Len(u) : TextSeqs(u)[n] = TextOf(u[n])
  BY <1>1, TextSeqsType
<1>4. /\ v \in Seq(Seq(LineSet)) /\ Len(v) = Len(s) + Len(t)
      /\ \A i \in 1 .. Len(s) + Len(t) :
           v[i] = IF i <= Len(s) THEN TextSeqs(s)[i] ELSE TextSeqs(t)[i - Len(s)]
  <2> DEFINE a == TextSeqs(s)
             b == TextSeqs(t)
  <2>1. a \in Seq(Seq(LineSet)) /\ b \in Seq(Seq(LineSet)) /\ Len(a) = Len(s) /\ Len(b) = Len(t)
    BY <1>3
  <2> HIDE DEF a, b
  <2>2. /\ a \o b \in Seq(Seq(LineSet)) /\ Len(a \o b) = Len(a) + Len(b)
        /\ \A i \in 1 .. Len(a) + Len(b) : (a \o b)[i] = IF i <= Len(a) THEN a[i] ELSE b[i - Len(a)]
    BY <2>1, ConcatProperties
  <2>3. QED
    BY <2>1, <2>2 DEF a, b
<1> HIDE DEF v
<1>5. ASSUME NEW i \in 1 .. Len(u)
      PROVE  TextSeqs(u)[i] = v[i]
  <2>1. CASE i <= Len(s)
    <3>1. i \in 1 .. Len(s) /\ u[i] = s[i] /\ v[i] = TextSeqs(s)[i]
      BY <1>1, <1>2, <1>4, <2>1
    <3>2. QED
      BY <1>3, <3>1
  <2>2. CASE ~ (i <= Len(s))
    <3>1. i - Len(s) \in 1 .. Len(t) /\ u[i] = t[i - Len(s)] /\ v[i] = TextSeqs(t)[i - Len(s)]
      BY <1>1, <1>2, <1>4, <2>2
    <3>2. QED
      BY <1>3, <3>1
  <2>3. QED
    BY <2>1, <2>2
<1>6. TextSeqs(u) = v
  BY <1>1, <1>3, <1>4, <1>5, SeqEqual
<1>7. FlattenSeq(v) = FlattenSeq(TextSeqs(s)) \o FlattenSeq(TextSeqs(t))
  BY <1>3, FlattenConcat DEF v
<1>8. FlattenSeq(TextSeqs(s)) \in Seq(LineSet)
  BY <1>3, FlattenType
<1>9. QED
  BY <1>6, <1>7, <1>8 DEF u, Texts, TextSeqs

LEMMA TextsNone == Texts(<<>>) = <<>>
<1>1. [n \in DOMAIN <<>> |-> TextOf(<<>>[n])] = <<>>
  OBVIOUS
<1>2. QED
  BY <1>1, FlattenEmpty DEF Texts

LEMMA TextsOfFileLine ==
  ASSUME NEW name, NEW n, NEW at, NEW hint
  PROVE  Texts(<<FileLine(name, n, at, hint)>>) = <<>>
<1> DEFINE o == FileLine(name, n, at, hint)
<1>1. TextOf(o) = <<>>
  BY DEF TextOf, FileLine
<1> HIDE DEF o
<1>2. [k \in DOMAIN <<o>> |-> TextOf(<<o>>[k])] = Append(<<>>, <<>>)
  BY <1>1
<1>3. <<>> \in Seq(Seq(LineSet)) /\ <<>> \in Seq(LineSet)
  BY EmptySeq
<1>4. FlattenSeq(Append(<<>>, <<>>)) = FlattenSeq(<<>>) \o <<>>
  BY <1>3, FlattenAppend
<1>5. <<>> \o <<>> = <<>>
  BY <1>3, ConcatEmptySeq
<1>6. FlattenSeq(Append(<<>>, <<>>)) = <<>>
  BY <1>4, <1>5, FlattenEmpty
<1>7. QED
  BY <1>2, <1>6 DEF Texts, o
-----------------------------------------------------------------------------
(* The sides of the blocks around a line. *)
SideNames == {"on", "off", "then", "over", "dead"}

SideSeqs(ifs) == [n \in DOMAIN ifs |-> SideOf(ifs[n])]

LEMMA SideOfType ==
  ASSUME NEW b \in BlockSet
  PROVE  /\ SideOf(b) \in Seq(SideNames) /\ Len(SideOf(b)) = b.depth
         /\ Last(SideOf(b)) =
              IF b.depth > 1 THEN "dead"
              ELSE IF b.hasElse THEN IF b.condition THEN "then" ELSE "over"
              ELSE IF b.condition THEN "on" ELSE "off"
         /\ b.depth = 1 => SideOf(b) =
              <<IF b.hasElse THEN IF b.condition THEN "then" ELSE "over"
                ELSE IF b.condition THEN "on" ELSE "off">>
<1> DEFINE first == IF b.hasElse THEN IF b.condition THEN "then" ELSE "over"
                    ELSE IF b.condition THEN "on" ELSE "off"
           dead == [n \in 1 .. b.depth - 1 |-> "dead"]
<1>1. b.depth \in Nat \ {0}
  BY DEF BlockSet
<1>2. dead \in Seq(SideNames) /\ Len(dead) = b.depth - 1 /\ \A i \in 1 .. b.depth - 1 : dead[i] = "dead"
  <2> DEFINE k == b.depth - 1
  <2>1. k \in Nat /\ dead = [i \in 1 .. k |-> dead[i]] /\ \A i \in 1 .. k : dead[i] \in SideNames
    BY <1>1 DEF SideNames
  <2>2. \A i \in 1 .. k : dead[i] = "dead"
    OBVIOUS
  <2> HIDE DEF k, dead
  <2>3. dead \in Seq(SideNames) /\ Len(dead) = k
    BY <2>1, MapSeq
  <2>4. QED
    BY <2>2, <2>3 DEF k
<1>3. SideOf(b) = <<first>> \o dead
  BY Zenon DEF SideOf
<1>4. first \in SideNames
  BY Zenon DEF SideNames
<1> HIDE DEF first, dead
<1>5. <<first>> \in Seq(SideNames) /\ Len(<<first>>) = 1 /\ <<first>>[1] = first
  BY <1>4, SMT
<1>6. /\ <<first>> \o dead \in Seq(SideNames)
      /\ Len(<<first>> \o dead) = b.depth
      /\ (<<first>> \o dead)[b.depth] = IF b.depth > 1 THEN "dead" ELSE first
  <2> DEFINE one == <<first>>
  <2> HIDE DEF one
  <2>1. /\ one \o dead \in Seq(SideNames)
        /\ Len(one \o dead) = 1 + (b.depth - 1)
        /\ \A i \in 1 .. 1 + (b.depth - 1) :
             (one \o dead)[i] = IF i <= 1 THEN one[i] ELSE dead[i - 1]
    BY <1>2, <1>5, ConcatProperties DEF one
  <2>2. (one \o dead)[b.depth] = IF b.depth <= 1 THEN one[b.depth] ELSE dead[b.depth - 1]
    <3> DEFINE k == b.depth
               u == one \o dead
    <3>1. k \in 1 .. 1 + (k - 1)
      BY <1>1
    <3>2. \A i \in 1 .. 1 + (k - 1) : u[i] = IF i <= 1 THEN one[i] ELSE dead[i - 1]
      BY <2>1
    <3> HIDE DEF k, u
    <3>3. u[k] = IF k <= 1 THEN one[k] ELSE dead[k - 1]
      BY <3>1, <3>2
    <3>4. QED
      BY <3>3 DEF k, u
  <2>3. QED
    BY <1>1, <1>2, <1>5, <2>1, <2>2 DEF one
<1>7. b.depth = 1 => <<first>> \o dead = <<first>>
  BY <1>2, <1>5, EmptySeq, ConcatEmptySeq
<1>8. QED
  BY <1>3, <1>6, <1>7 DEF Last, first

LEMMA SideSeqsType ==
  ASSUME NEW ifs \in Seq(BlockSet)
  PROVE  /\ SideSeqs(ifs) \in Seq(Seq(SideNames)) /\ Len(SideSeqs(ifs)) = Len(ifs)
         /\ \A n \in 1 .. Len(ifs) : SideSeqs(ifs)[n] = SideOf(ifs[n])
<1>1. /\ Len(ifs) \in Nat /\ DOMAIN ifs = 1 .. Len(ifs)
      /\ \A n \in 1 .. Len(ifs) : ifs[n] \in BlockSet
  BY LenProperties, ElementOfSeq
<1> DEFINE t == SideSeqs(ifs)
<1>2. /\ t = [n \in 1 .. Len(ifs) |-> t[n]]
      /\ \A n \in 1 .. Len(ifs) : t[n] = SideOf(ifs[n])
  BY <1>1 DEF SideSeqs
<1>3. \A n \in 1 .. Len(ifs) : t[n] \in Seq(SideNames)
  BY <1>1, <1>2, SideOfType
<1> HIDE DEF t
<1>4. t \in Seq(Seq(SideNames)) /\ Len(t) = Len(ifs)
  BY <1>1, <1>2, <1>3, MapSeq
<1>5. QED
  BY <1>2, <1>4 DEF t

LEMMA SidesType ==
  ASSUME NEW ifs \in Seq(BlockSet)
  PROVE  Sides(ifs) \in Seq(SideNames)
  BY SideSeqsType, FlattenType DEF Sides, SideSeqs

LEMMA SidesNone == Sides(<<>>) = <<>>
<1>1. [n \in DOMAIN <<>> |-> SideOf(<<>>[n])] = <<>>
  OBVIOUS
<1>2. QED
  BY <1>1, FlattenEmpty DEF Sides

LEMMA SidesAppend ==
  ASSUME NEW ifs \in Seq(BlockSet), NEW b \in BlockSet
  PROVE  Sides(Append(ifs, b)) = Sides(ifs) \o SideOf(b)
<1> DEFINE n == Len(ifs)
           u == Append(ifs, b)
           v == Append(SideSeqs(ifs), SideOf(b))
<1>1. /\ u \in Seq(BlockSet) /\ Len(u) = n + 1 /\ n \in Nat
      /\ \A i \in 1 .. n : u[i] = ifs[i]
      /\ u[n + 1] = b
  BY AppendProperties, LenProperties
<1>2. /\ SideSeqs(ifs) \in Seq(Seq(SideNames)) /\ Len(SideSeqs(ifs)) = n
      /\ \A i \in 1 .. n : SideSeqs(ifs)[i] = SideOf(ifs[i])
      /\ SideOf(b) \in Seq(SideNames)
  BY SideSeqsType, SideOfType
<1>3. /\ v \in Seq(Seq(SideNames)) /\ Len(v) = n + 1
      /\ \A i \in 1 .. n : v[i] = SideSeqs(ifs)[i]
      /\ v[n + 1] = SideOf(b)
  <2> DEFINE a == SideSeqs(ifs)
             e == SideOf(b)
  <2>1. a \in Seq(Seq(SideNames)) /\ e \in Seq(SideNames) /\ Len(a) = n
    BY <1>2
  <2> HIDE DEF a, e, n
  <2>2. /\ Append(a, e) \in Seq(Seq(SideNames)) /\ Len(Append(a, e)) = Len(a) + 1
        /\ \A i \in 1 .. Len(a) : Append(a, e)[i] = a[i]
        /\ Append(a, e)[Len(a) + 1] = e
    BY <2>1, AppendProperties
  <2>3. QED
    BY <2>1, <2>2 DEF a, e
<1> HIDE DEF u
<1>4. /\ SideSeqs(u) \in Seq(Seq(SideNames)) /\ Len(SideSeqs(u)) = n + 1
      /\ \A i \in 1 .. n + 1 : SideSeqs(u)[i] = SideOf(u[i])
  BY <1>1, SideSeqsType
<1> HIDE DEF n, v
<1>5. \A i \in 1 .. n + 1 : SideSeqs(u)[i] = v[i]
  <2> TAKE i \in 1 .. n + 1
  <2>1. i \in 1 .. n \/ i = n + 1
    BY <1>1
  <2>2. QED
    BY <1>1, <1>2, <1>3, <1>4, <2>1
<1>6. SideSeqs(u) = v
  BY <1>3, <1>4, <1>5, SeqEqual
<1>7. FlattenSeq(v) = FlattenSeq(SideSeqs(ifs)) \o SideOf(b)
  BY <1>2, FlattenAppend DEF v
<1>8. QED
  BY <1>6, <1>7 DEF Sides, SideSeqs, u
-----------------------------------------------------------------------------
(* The files being read, as they are and as the promise sees them.         *)
Views(s) == [n \in DOMAIN s |-> View(s[n])]

ViewSet == [name : STRING, next : Nat \ {0}, sides : Seq(SideNames)]

LEMMA ViewsType ==
  ASSUME NEW s \in Seq(CallSet)
  PROVE  /\ Views(s) \in Seq(ViewSet) /\ Len(Views(s)) = Len(s)
         /\ \A n \in 1 .. Len(s) : Views(s)[n] = View(s[n])
<1>1. /\ Len(s) \in Nat /\ DOMAIN s = 1 .. Len(s)
      /\ \A n \in 1 .. Len(s) : s[n] \in CallSet
  BY LenProperties, ElementOfSeq
<1>2. \A c \in CallSet : View(c) \in ViewSet
  BY SidesType DEF CallSet, BlocksSet, ViewSet, View
<1> DEFINE t == Views(s)
<1>3. /\ t = [n \in 1 .. Len(s) |-> t[n]]
      /\ \A n \in 1 .. Len(s) : t[n] = View(s[n])
  BY <1>1 DEF Views
<1>4. \A n \in 1 .. Len(s) : t[n] \in ViewSet
  BY <1>1, <1>2, <1>3
<1> HIDE DEF t
<1>5. t \in Seq(ViewSet) /\ Len(t) = Len(s)
  BY <1>1, <1>3, <1>4, MapSeq
<1>6. QED
  BY <1>3, <1>5 DEF t

LEMMA FrontAppend ==
  ASSUME NEW S, NEW s \in Seq(S), NEW e \in S
  PROVE  Front(Append(s, e)) = s /\ Last(Append(s, e)) = e
<1> DEFINE t == Append(s, e)
<1>1. /\ t \in Seq(S) /\ t # <<>> /\ Len(t) = Len(s) + 1 /\ Len(s) \in Nat
      /\ \A i \in 1 .. Len(s) : t[i] = s[i]
      /\ t[Len(s) + 1] = e
  BY AppendProperties, LenProperties
<1> HIDE DEF t
<1>2. Last(t) = e
  BY <1>1 DEF Last
<1>3. /\ Front(t) \in Seq(S) /\ Len(Front(t)) = Len(t) - 1
      /\ \A i \in 1 .. Len(t) - 1 : Front(t)[i] = t[i]
  BY <1>1, FrontLast
<1>4. Len(t) - 1 = Len(s)
  BY <1>1
<1>5. Front(t) = s
  BY <1>1, <1>3, <1>4, SeqEqual
<1>6. QED
  BY <1>2, <1>5 DEF t

LEMMA ViewsAppend ==
  ASSUME NEW s \in Seq(CallSet), NEW c \in CallSet
  PROVE  Views(Append(s, c)) = Append(Views(s), View(c))
<1> DEFINE n == Len(s)
           u == Append(s, c)
           v == Append(Views(s), View(c))
<1>1. /\ u \in Seq(CallSet) /\ Len(u) = n + 1 /\ n \in Nat
      /\ \A i \in 1 .. n : u[i] = s[i]
      /\ u[n + 1] = c
  BY AppendProperties, LenProperties
<1>2. /\ Views(s) \in Seq(ViewSet) /\ Len(Views(s)) = n
      /\ \A i \in 1 .. n : Views(s)[i] = View(s[i])
      /\ View(c) \in ViewSet
  BY ViewsType, SidesType DEF CallSet, BlocksSet, ViewSet, View
<1>3. /\ v \in Seq(ViewSet) /\ Len(v) = n + 1
      /\ \A i \in 1 .. n : v[i] = Views(s)[i]
      /\ v[n + 1] = View(c)
  BY <1>2, AppendProperties
<1> HIDE DEF u
<1>4. /\ Views(u) \in Seq(ViewSet) /\ Len(Views(u)) = n + 1
      /\ \A i \in 1 .. n + 1 : Views(u)[i] = View(u[i])
  BY <1>1, ViewsType
<1> HIDE DEF n, v
<1>5. \A i \in 1 .. n + 1 : Views(u)[i] = v[i]
  <2> TAKE i \in 1 .. n + 1
  <2>1. i \in 1 .. n \/ i = n + 1
    BY <1>1
  <2>2. QED
    BY <1>1, <1>2, <1>3, <1>4, <2>1
<1>6. Views(u) = v
  BY <1>3, <1>4, <1>5, SeqEqual
<1>7. QED
  BY <1>6 DEF u, v
-----------------------------------------------------------------------------
(* The blocks around a line: all but the innermost are on their true side. *)
LiveIn(ifs) == ifs # <<>> => Last(ifs).condition

LEMMA NoBlocks == <<>> \in BlocksSet
  BY EmptySeq DEF BlocksSet

LEMMA BlocksFront ==
  ASSUME NEW ifs \in BlocksSet, ifs # <<>>
  PROVE  /\ Front(ifs) \in BlocksSet /\ LiveIn(Front(ifs))
         /\ Last(ifs) \in BlockSet /\ ifs = Append(Front(ifs), Last(ifs))
<1> DEFINE n == Len(ifs)
           s == Front(ifs)
<1>1. ifs \in Seq(BlockSet) /\ \A k \in 1 .. n - 1 : ifs[k].condition
  BY DEF BlocksSet
<1>2. /\ Last(ifs) \in BlockSet /\ ifs = Append(s, Last(ifs))
      /\ s \in Seq(BlockSet) /\ Len(s) = n - 1 /\ n \in Nat \ {0}
      /\ \A k \in 1 .. n - 1 : s[k] = ifs[k]
  BY Zenon, <1>1, FrontLast
<1> HIDE DEF n, s
<1>3. \A k \in 1 .. Len(s) : s[k].condition
  BY <1>1, <1>2
<1>4. s \in BlocksSet
  <2>1. \A k \in 1 .. Len(s) - 1 : k \in 1 .. Len(s)
    BY <1>2
  <2>2. QED
    BY <1>2, <1>3, <2>1 DEF BlocksSet
<1>5. LiveIn(s)
  <2> SUFFICES ASSUME s # <<>>
               PROVE  Last(s).condition
    BY DEF LiveIn
  <2>1. Len(s) \in 1 .. Len(s)
    BY <1>2, EmptySeq, LenProperties
  <2>2. QED
    BY <1>3, <2>1 DEF Last
<1>6. QED
  BY <1>2, <1>4, <1>5 DEF s

LEMMA BlocksAppend ==
  ASSUME NEW ifs \in BlocksSet, LiveIn(ifs), NEW b \in BlockSet
  PROVE  Append(ifs, b) \in BlocksSet
<1> DEFINE n == Len(ifs)
           t == Append(ifs, b)
<1>1. ifs \in Seq(BlockSet) /\ n \in Nat /\ \A k \in 1 .. n - 1 : ifs[k].condition
  BY LenProperties DEF BlocksSet
<1>2. t \in Seq(BlockSet) /\ Len(t) = n + 1 /\ \A k \in 1 .. n : t[k] = ifs[k]
  BY <1>1, AppendProperties
<1>3. n # 0 => ifs[n].condition
  BY <1>1, EmptySeq DEF LiveIn, Last
<1> HIDE DEF n, t
<1>4. ASSUME NEW k \in 1 .. n
      PROVE  t[k].condition
  <2>1. CASE k = n
    BY <1>1, <1>2, <1>3, <2>1
  <2>2. CASE k # n
    <3>1. k \in 1 .. n - 1
      BY <1>1, <2>2
    <3>2. QED
      BY <1>1, <1>2, <3>1
  <2>3. QED
    BY <2>1, <2>2
<1>5. Len(t) - 1 = n
  BY <1>1, <1>2
<1>6. QED
  BY <1>2, <1>4, <1>5 DEF BlocksSet, t

(* All sides are on where the innermost is. *)
LEMMA AllSides ==
  ASSUME NEW ifs \in BlocksSet, LiveIn(ifs)
  PROVE  Sides(ifs) \in Seq({"on", "then"})
<1> DEFINE On == {"on", "then"}
           n == Len(ifs)
<1>1. /\ ifs \in Seq(BlockSet) /\ n \in Nat
      /\ \A k \in 1 .. n : ifs[k] \in BlockSet
      /\ \A k \in 1 .. n - 1 : ifs[k].condition
  BY LenProperties, ElementOfSeq DEF BlocksSet
<1>2. n # 0 => ifs[n].condition
  BY <1>1, EmptySeq DEF LiveIn, Last
<1>3. ASSUME NEW k \in 1 .. n
      PROVE  SideOf(ifs[k]) \in Seq(On)
  <2> DEFINE b == ifs[k]
  <2>1. b.condition
    <3>1. CASE k = n
      BY <1>2, <3>1, <1>1
    <3>2. CASE k # n
      <4>1. k \in 1 .. n - 1
        BY <1>1, <3>2
      <4>2. QED
        BY <1>1, <4>1
    <3>3. QED
      BY <3>1, <3>2
  <2>2. b \in BlockSet
    BY <1>1
  <2> HIDE DEF b
  <2>3. b.depth = 1
    BY <2>1, <2>2 DEF BlockSet
  <2> DEFINE side == IF b.hasElse THEN IF b.condition THEN "then" ELSE "over"
                     ELSE IF b.condition THEN "on" ELSE "off"
  <2>4. SideOf(b) = <<side>>
    BY <2>2, <2>3, SideOfType
  <2>5. side \in On
    BY <2>1
  <2> HIDE DEF side
  <2>6. SideOf(b) \in Seq(On)
    BY <2>4, <2>5
  <2>7. QED
    BY <2>6 DEF b
<1> DEFINE t == SideSeqs(ifs)
<1>4. t \in Seq(Seq(SideNames)) /\ Len(t) = n /\ \A k \in 1 .. n : t[k] = SideOf(ifs[k])
  BY <1>1, SideSeqsType
<1>5. t = [k \in 1 .. n |-> t[k]]
  <2>1. DOMAIN t = 1 .. n
    BY <1>4, LenProperties
  <2>2. t = [k \in DOMAIN t |-> t[k]]
    BY DEF SideSeqs
  <2>3. QED
    BY <2>1, <2>2
<1>6. t \in Seq(Seq(On))
  <2> HIDE DEF t, n, On
  <2>1. \A k \in 1 .. n : t[k] \in Seq(On)
    BY <1>3, <1>4
  <2>2. QED
    BY <1>1, <1>5, <2>1, MapSeq
<1>7. FlattenSeq(t) \in Seq(On)
  BY <1>6, FlattenType
<1>8. QED
  BY <1>7 DEF Sides, SideSeqs

(* What every step relies on. *)
LEMMA FileFacts ==
  ASSUME IInv, NEW name \in DOMAIN files
  PROVE  name \in STRING /\ files[name] \in Seq(LineSet)
  BY MacrosAssumption DEF IInv, TypeOK

LEMMA TopFacts ==
  ASSUME IInv
  PROVE  /\ top \in CallSet /\ top.name \in DOMAIN files
         /\ Front(stack) \in Seq(CallSet) /\ Len(Front(stack)) = Len(stack) - 1
         /\ \A d \in 1 .. Len(stack) - 1 : Front(stack)[d] = stack[d]
         /\ stack = Append(Front(stack), top)
         /\ source \in Seq(LineSet) /\ Len(source) \in Nat
         /\ LineNo = top.next
         /\ Reading => line \in LineSet /\ top.next \in 1 .. Len(source)
<1>1. stack \in Seq(CallSet) /\ stack # <<>> /\ Len(stack) \in 1 .. OpenMax
  BY EmptySeq DEF IInv, TypeOK
<1>2. /\ top \in CallSet
      /\ Front(stack) \in Seq(CallSet) /\ Len(Front(stack)) = Len(stack) - 1
      /\ \A d \in 1 .. Len(stack) - 1 : Front(stack)[d] = stack[d]
      /\ stack = Append(Front(stack), top)
      /\ Len(stack) \in Nat \ {0}
  BY Zenon, <1>1, FrontLast DEF top
<1>3. top = stack[Len(stack)] /\ Len(stack) \in 1 .. Len(stack)
  BY <1>2 DEF top, Last
<1>4. top.name \in DOMAIN files
  BY <1>3 DEF IInv, TypeOK
<1>5. source \in Seq(LineSet) /\ Len(source) \in Nat
  BY <1>4, FileFacts, LenProperties DEF source
<1>6. top.line_no + (IF top.ifs # <<>> THEN 1 ELSE 0) = top.next
  BY <1>3 DEF IInv, Counted
<1>7. LineNo = top.next
  BY <1>2, <1>6 DEF LineNo, InBlock, CallSet
<1>8. Reading => line \in LineSet /\ top.next \in 1 .. Len(source)
  BY <1>2, <1>5, ElementOfSeq DEF Reading, line, CallSet
<1>9. QED
  BY <1>2, <1>4, <1>5, <1>7, <1>8

LEMMA BlockFacts ==
  ASSUME IInv, InBlock
  PROVE  /\ block \in BlockSet /\ Front(top.ifs) \in BlocksSet /\ LiveIn(Front(top.ifs))
         /\ Front(top.ifs) \in Seq(BlockSet)
         /\ top.ifs = Append(Front(top.ifs), block)
         /\ Sides(top.ifs) = Sides(Front(top.ifs)) \o SideOf(block)
<1>1. top.ifs \in BlocksSet /\ top.ifs # <<>>
  BY TopFacts DEF CallSet, InBlock
<1>2. /\ block \in BlockSet /\ Front(top.ifs) \in BlocksSet /\ LiveIn(Front(top.ifs))
      /\ top.ifs = Append(Front(top.ifs), block)
  BY Zenon, <1>1, BlocksFront DEF block
<1>3. Front(top.ifs) \in Seq(BlockSet)
  BY <1>2 DEF BlocksSet
<1>4. QED
  BY <1>2, <1>3, SidesAppend

LEMMA InnermostSide ==
  ASSUME IInv, InBlock
  PROVE  /\ Sides(top.ifs) # <<>>
         /\ Last(Sides(top.ifs)) = Last(SideOf(block))
         /\ block.depth = 1 => Front(Sides(top.ifs)) = Sides(Front(top.ifs))
<1> DEFINE outer == Sides(Front(top.ifs))
           inner == SideOf(block)
<1>1. /\ outer \in Seq(SideNames) /\ inner \in Seq(SideNames) /\ Len(inner) = block.depth
      /\ block.depth \in Nat \ {0}
      /\ Sides(top.ifs) = outer \o inner
  BY BlockFacts, SidesType, SideOfType DEF BlockSet
<1>2. block.depth = 1 => inner = <<Last(inner)>>
  BY BlockFacts, SideOfType
<1> DEFINE depth == block.depth
<1> HIDE DEF outer, inner, depth
<1>3. /\ outer \o inner \in Seq(SideNames) /\ Len(outer \o inner) = Len(outer) + Len(inner)
      /\ (outer \o inner)[Len(outer) + Len(inner)] = inner[Len(inner)]
      /\ Len(outer) \in Nat
  <2>1. /\ outer \o inner \in Seq(SideNames) /\ Len(outer \o inner) = Len(outer) + Len(inner)
        /\ \A i \in 1 .. Len(outer) + Len(inner) :
             (outer \o inner)[i] = IF i <= Len(outer) THEN outer[i] ELSE inner[i - Len(outer)]
    BY <1>1, ConcatProperties
  <2>2. Len(outer) \in Nat /\ Len(inner) \in Nat \ {0}
    BY <1>1, LenProperties
  <2> DEFINE n == Len(outer) + Len(inner)
  <2>3. n \in 1 .. n /\ ~(n <= Len(outer)) /\ n - Len(outer) = Len(inner)
    BY <2>2
  <2>4. (outer \o inner)[n] = inner[Len(inner)]
    BY <2>1, <2>3
  <2>5. QED
    BY <2>1, <2>2, <2>4
<1>4. Sides(top.ifs) # <<>> /\ Last(Sides(top.ifs)) = Last(inner)
  <2> DEFINE u == outer \o inner
  <2>1. u \in Seq(SideNames) /\ Len(u) = Len(outer) + depth /\ u[Len(u)] = inner[Len(inner)]
    BY <1>1, <1>3 DEF depth
  <2>2. Len(u) # 0
    BY <1>1, <1>3, <2>1 DEF depth
  <2> HIDE DEF u
  <2>3. u # <<>> /\ Last(u) = Last(inner)
    BY <2>1, <2>2, EmptySeq DEF Last
  <2>4. QED
    BY <1>1, <2>3 DEF u
<1>5. ASSUME block.depth = 1
      PROVE  Front(Sides(top.ifs)) = outer
  <2> DEFINE e == Last(inner)
  <2>1. inner = <<e>>
    BY <1>2, <1>5
  <2>2. e \in SideNames
    BY <1>1, <1>5, EmptySeq, FrontLast
  <2> HIDE DEF e
  <2>3. outer \o inner = Append(outer, e)
    BY <1>1, <2>1, <2>2, AppendIsConcat
  <2>4. Front(Append(outer, e)) = outer
    BY <1>1, <2>2, FrontAppend
  <2>5. QED
    BY <1>1, <2>3, <2>4
<1>6. QED
  BY <1>4, <1>5 DEF outer, inner

LEMMA HintedFacts ==
  ASSUME IInv
  PROVE  /\ Hinted \in BlocksSet
         /\ Hinted = <<>> <=> ~InBlock
         /\ Sides(Hinted) = Sides(top.ifs)
         /\ InBlock => Last(Hinted) = [block EXCEPT !.hinted = @ \/ Live]
<1>1. CASE ~InBlock
  BY <1>1, TopFacts DEF Hinted, InBlock, CallSet
<1>2. CASE InBlock /\ ~Live
  <2>1. Hinted = top.ifs /\ Last(Hinted) = block
    BY <1>2 DEF Hinted, block
  <2>2. [block EXCEPT !.hinted = @ \/ Live] = block
    BY <1>2, BlockFacts DEF BlockSet
  <2>3. QED
    BY <1>2, <2>1, <2>2, TopFacts DEF InBlock, CallSet
<1>3. CASE InBlock /\ Live
  <2> DEFINE new == [block EXCEPT !.hinted = TRUE]
  <2>1. Hinted = Append(Front(top.ifs), new)
    BY <1>3 DEF Hinted
  <2>2. /\ new \in BlockSet /\ SideOf(new) = SideOf(block)
        /\ new = [block EXCEPT !.hinted = @ \/ Live]
    BY <1>3, BlockFacts DEF BlockSet, SideOf
  <2> HIDE DEF new
  <2>3. /\ Hinted \in BlocksSet /\ Hinted # <<>> /\ Last(Hinted) = new
        /\ Sides(Hinted) = Sides(Front(top.ifs)) \o SideOf(new)
    <3> DEFINE front == Front(top.ifs)
    <3>1. front \in Seq(BlockSet) /\ front \in BlocksSet /\ LiveIn(front)
      BY <1>3, BlockFacts
    <3> HIDE DEF front
    <3>2. Append(front, new) \in BlocksSet /\ Append(front, new) # <<>>
      <4>1. new \in BlockSet
        BY <2>2
      <4>2. QED
        BY <3>1, <4>1, AppendProperties, BlocksAppend
    <3>3. Last(Append(front, new)) = new
      BY <2>2, <3>1, FrontAppend
    <3>4. Sides(Append(front, new)) = Sides(front) \o SideOf(new)
      BY <2>2, <3>1, SidesAppend
    <3>5. QED
      BY <2>1, <3>2, <3>3, <3>4 DEF front
  <2>4. QED
    BY <1>3, <2>2, <2>3, BlockFacts
<1>4. QED
  BY <1>1, <1>2, <1>3

LEMMA LiveHinted ==
  ASSUME IInv, Live
  PROVE  LiveIn(Hinted)
<1>1. Hinted = <<>> <=> ~InBlock
  BY HintedFacts
<1>2. CASE InBlock
  <2>1. Last(Hinted) = [block EXCEPT !.hinted = @ \/ Live] /\ block \in BlockSet /\ block.condition
    BY <1>2, HintedFacts, BlockFacts DEF Live
  <2>2. Last(Hinted).condition = block.condition
    BY <2>1 DEF BlockSet
  <2>3. QED
    BY <2>1, <2>2 DEF LiveIn
<1>3. QED
  BY <1>1, <1>2 DEF LiveIn

LEMMA HintFacts ==
  ASSUME IInv
  PROVE  NumberedLines(Hint) /\ Texts(Hint) = <<>>
<1>1. CASE Hint = <<>>
  BY <1>1, NumberedNone, TextsNone
<1>2. CASE Hint # <<>>
  <2>1. Hint = <<FileLine(top.name, top.next + 1, top.next, TRUE)>>
    BY <1>2, TopFacts DEF Hint
  <2>2. top.name \in STRING /\ top.next \in Nat
    BY TopFacts DEF CallSet
  <2>3. QED
    BY <2>1, <2>2, NumberedFileLine, TextsOfFileLine
<1>3. QED
  BY <1>1, <1>2

(* The top of the stack replaced by another call. *)
StackOK ==
  /\ stack \in Seq(CallSet)
  /\ Len(stack) \in 1 .. OpenMax
  /\ \A d \in 1 .. Len(stack) : stack[d].name \in DOMAIN files
  /\ Counted

CallCounts(call, waits) ==
  call.line_no + (IF waits \/ call.ifs # <<>> THEN 1 ELSE 0) = call.next

LEMMA ViewsTop ==
  ASSUME IInv
  PROVE  /\ Front(Views(stack)) = Views(Front(stack))
         /\ Last(Views(stack)) = View(top)
         /\ Views(stack) \in Seq(ViewSet) /\ Views(stack) # <<>>
         /\ Len(Views(stack)) = Len(stack)
<1>1. Views(stack) = Append(Views(Front(stack)), View(top))
  BY TopFacts, ViewsAppend
<1>2. Views(Front(stack)) \in Seq(ViewSet) /\ View(top) \in ViewSet
  BY TopFacts, ViewsType, SidesType DEF CallSet, BlocksSet, ViewSet, View
<1>3. QED
  BY <1>1, <1>2, FrontAppend, AppendProperties, ViewsType DEF IInv, TypeOK

LEMMA ReplaceTop ==
  ASSUME IInv, NEW call \in CallSet, call.name = top.name, CallCounts(call, FALSE),
         stack' = Front(stack) \o <<call>>, files' = files
  PROVE  /\ StackOK'
         /\ Views(stack') = Front(Views(stack)) \o <<View(call)>>
<1> DEFINE n == Len(stack)
<1>1. /\ n \in 1 .. OpenMax /\ n \in Nat \ {0} /\ top.name \in DOMAIN files
      /\ Front(stack) \in Seq(CallSet) /\ Len(Front(stack)) = n - 1
      /\ \A d \in 1 .. n - 1 : Front(stack)[d] = stack[d]
  BY TopFacts, MacrosAssumption DEF IInv, TypeOK
<1>2. stack' = Append(Front(stack), call)
  BY <1>1, AppendIsConcat
<1>3. /\ stack' \in Seq(CallSet) /\ Len(stack') = n
      /\ \A d \in 1 .. n - 1 : stack'[d] = stack[d]
      /\ stack'[n] = call
  <2> DEFINE s == Front(stack)
             t == Append(s, call)
  <2>1. s \in Seq(CallSet) /\ Len(s) = n - 1 /\ \A d \in 1 .. n - 1 : s[d] = stack[d]
    BY <1>1
  <2> HIDE DEF s
  <2>2. /\ t \in Seq(CallSet) /\ Len(t) = Len(s) + 1
        /\ \A d \in 1 .. Len(s) : t[d] = s[d]
        /\ t[Len(s) + 1] = call
    BY <2>1, AppendProperties
  <2> HIDE DEF t
  <2>3. Len(s) + 1 = n
    BY <1>1, <2>1
  <2>4. stack' = t
    BY <1>2 DEF s, t
  <2> HIDE DEF n
  <2>5. QED
    BY <2>1, <2>2, <2>3, <2>4
<1>4. \A d \in 1 .. n : stack'[d].name \in DOMAIN files
  <2> TAKE d \in 1 .. n
  <2>1. CASE d = n
    BY <1>1, <1>3, <2>1
  <2>2. CASE d # n
    <3>1. stack'[d] = stack[d] /\ d \in 1 .. Len(stack)
      BY <1>1, <1>3, <2>2
    <3>2. QED
      BY <3>1 DEF IInv, TypeOK
  <2>3. QED
    BY <2>1, <2>2
<1>5. Counted'
  <2> SUFFICES ASSUME NEW d \in 1 .. n
               PROVE  stack'[d].line_no + (IF d < n \/ stack'[d].ifs # <<>> THEN 1 ELSE 0)
                        = stack'[d].next
    BY <1>3 DEF Counted
  <2>1. CASE d = n
    BY <1>1, <1>3, <2>1 DEF CallCounts
  <2>2. CASE d # n
    <3>1. stack'[d] = stack[d] /\ d \in 1 .. Len(stack)
      BY <1>1, <1>3, <2>2
    <3>2. QED
      BY <3>1 DEF IInv, Counted
  <2>3. QED
    BY <2>1, <2>2
<1>6. Views(stack') = Append(Views(Front(stack)), View(call))
  BY <1>1, <1>2, ViewsAppend
<1>7. Views(stack') = Front(Views(stack)) \o <<View(call)>>
  <2>1. Views(Front(stack)) \in Seq(ViewSet) /\ View(call) \in ViewSet
    BY <1>1, ViewsType, SidesType DEF CallSet, BlocksSet, ViewSet, View
  <2>2. QED
    BY <1>6, <2>1, ViewsTop, AppendIsConcat
<1>8. QED
  BY <1>1, <1>3, <1>4, <1>5, <1>7 DEF StackOK

LEMMA OnwardKeeps ==
  ASSUME IInv, NEW more \in Nat, NEW ifs \in BlocksSet,
         Onward(more, ifs), files' = files
  PROVE  /\ StackOK'
         /\ Views(stack') =
              Front(Views(stack)) \o <<[name |-> top.name, next |-> top.next + 1 + more,
                                        sides |-> Sides(ifs)]>>
<1> DEFINE call == [top EXCEPT !.next = @ + 1 + more, !.ifs = ifs,
                               !.line_no = LineNo + more + IF ifs = <<>> THEN 1 ELSE 0]
<1>1. top \in CallSet /\ LineNo = top.next /\ top.next \in Nat \ {0}
  BY TopFacts DEF CallSet
<1>2. /\ call.name = top.name /\ call.next = top.next + 1 + more /\ call.ifs = ifs
      /\ call.line_no = top.next + more + IF ifs = <<>> THEN 1 ELSE 0
  BY <1>1 DEF CallSet
<1>3. call \in CallSet
  <2>1. top.next + 1 + more \in Nat \ {0}
    BY <1>1
  <2>2. top.next + more + (IF ifs = <<>> THEN 1 ELSE 0) \in Nat \ {0}
    BY <1>1
  <2>3. LineNo + more + (IF ifs = <<>> THEN 1 ELSE 0) \in Nat \ {0}
    BY <1>1, <2>2
  <2> DEFINE n == top.next + 1 + more
             k == LineNo + more + IF ifs = <<>> THEN 1 ELSE 0
  <2>4. call = [top EXCEPT !.next = n, !.ifs = ifs, !.line_no = k]
    OBVIOUS
  <2> HIDE DEF n, k, call
  <2>5. QED
    BY <1>1, <2>1, <2>3, <2>4 DEF CallSet, n, k
<1>4. CallCounts(call, FALSE)
  <2> HIDE DEF call
  <2>1. CASE ifs = <<>>
    BY <1>1, <1>2, <2>1 DEF CallCounts
  <2>2. CASE ifs # <<>>
    BY <1>1, <1>2, <2>2 DEF CallCounts
  <2>3. QED
    BY <2>1, <2>2
<1>5. View(call) = [name |-> top.name, next |-> top.next + 1 + more, sides |-> Sides(ifs)]
  BY <1>2 DEF View
<1>6. stack' = Front(stack) \o <<call>>
  BY DEF Onward
<1> HIDE DEF call
<1>7. QED
  BY <1>2, <1>3, <1>4, <1>5, <1>6, ReplaceTop

LEMMA PrintsKeeps ==
  ASSUME IInv, NEW lines, NumberedLines(lines), Prints(lines)
  PROVE  /\ output' \in Seq(PrintedSet) /\ OneMore'
         /\ Texts(output') = Texts(output) \o Texts(lines)
<1>1. NumberedLines(output)
  BY LenProperties DEF IInv, TypeOK, OneMore, NumberedLines
<1>2. NumberedLines(Hint) /\ Texts(Hint) = <<>>
  BY HintFacts
<1>3. NumberedLines(output \o Hint) /\ NumberedLines((output \o Hint) \o lines)
  BY <1>1, <1>2, NumberedConcat
<1>4. output' = (output \o Hint) \o lines
  <2>1. output' = output \o Hint \o lines
    BY DEF Prints
  <2>2. QED
    BY <2>1
<1>5. output' \in Seq(PrintedSet) /\ OneMore'
  <2>1. NumberedLines(output')
    BY <1>3, <1>4
  <2>2. QED
    BY <2>1, LenProperties DEF NumberedLines, OneMore
<1>6. /\ Texts(output \o Hint) = Texts(output) \o Texts(Hint)
      /\ Texts(output) \in Seq(LineSet)
      /\ Texts((output \o Hint) \o lines) = Texts(output \o Hint) \o Texts(lines)
  BY <1>1, <1>2, <1>3, TextsConcat DEF NumberedLines
<1>7. Texts(output) \o <<>> = Texts(output)
  BY <1>6, ConcatEmptySeq
<1>8. QED
  BY <1>2, <1>4, <1>5, <1>6, <1>7

(* A line printed comes out as it is, with the number of the next one.     *)
LEMMA TextLinesFacts ==
  ASSUME IInv, NEW lines \in Seq(LineSet)
  PROVE  NumberedLines(TextLines(lines)) /\ Texts(TextLines(lines)) = lines
<1> DEFINE t == TextLines(lines)
<1>1. /\ Len(lines) \in Nat /\ DOMAIN lines = 1 .. Len(lines)
      /\ \A k \in 1 .. Len(lines) : lines[k] \in LineSet
  BY LenProperties, ElementOfSeq
<1>2. top.name \in STRING /\ top.next \in Nat \ {0} /\ LineNo = top.next
  BY TopFacts DEF CallSet
<1>3. /\ t = [k \in 1 .. Len(lines) |-> t[k]]
      /\ \A k \in 1 .. Len(lines) :
           t[k] = [kind |-> "line", name |-> top.name, at |-> top.next,
                   k |-> k - 1, n |-> top.next + 1, text |-> lines[k]]
  BY <1>1, <1>2 DEF TextLines
<1>4. \A k \in 1 .. Len(lines) :
        t[k] \in PrintedSet /\ t[k].n = t[k].at + 1 /\ TextOf(t[k]) = <<lines[k]>>
  <2> TAKE k \in 1 .. Len(lines)
  <2>1. t[k] = [kind |-> "line", name |-> top.name, at |-> top.next,
                k |-> k - 1, n |-> top.next + 1, text |-> lines[k]]
    BY <1>3
  <2>2. k - 1 \in Nat /\ lines[k] \in LineSet /\ top.next + 1 \in Nat
    BY <1>1, <1>2
  <2> HIDE DEF t
  <2>3. t[k] \in PrintedSet
    BY <1>2, <2>1, <2>2 DEF PrintedSet
  <2>4. TextOf(t[k]) = <<lines[k]>>
    BY <2>1 DEF TextOf
  <2>5. QED
    BY <2>1, <2>3, <2>4
<1> HIDE DEF t
<1>5. t \in Seq(PrintedSet) /\ Len(t) = Len(lines) /\ DOMAIN t = DOMAIN lines
  <2>1. t \in Seq(PrintedSet) /\ Len(t) = Len(lines)
    BY <1>1, <1>3, <1>4, MapSeq
  <2>2. QED
    BY <1>1, <2>1, LenProperties
<1>6. NumberedLines(t)
  BY <1>4, <1>5 DEF NumberedLines
<1>7. [k \in DOMAIN t |-> TextOf(t[k])] = [k \in DOMAIN lines |-> <<lines[k]>>]
  BY <1>1, <1>4, <1>5
<1>8. FlattenSeq([k \in DOMAIN lines |-> <<lines[k]>>]) = lines
  BY FlattenSingles
<1>9. QED
  BY <1>6, <1>7, <1>8 DEF Texts, t
-----------------------------------------------------------------------------
(* What the promise sees of a line. *)
LEMMA PromiseEnds ==
  /\ \A s : Promise!Front(s) = Front(s)
  /\ \A s : Promise!Last(s) = Last(s)
  BY Zenon DEF Promise!Front, Front, Promise!Last, Last

LEMMA PromiseFacts ==
  ASSUME IInv
  PROVE  /\ Promise!top = View(top) /\ Promise!source = source /\ Promise!line = line
         /\ Promise!Reading <=> Reading
         /\ Promise!Counts <=> Live
         /\ Promise!top.next = top.next /\ Promise!top.sides = Sides(top.ifs)
<1>1. Promise!top = View(top)
  BY Zenon, ViewsTop, PromiseEnds DEF Promise!top, Views
<1>2. Promise!source = source
  BY <1>1 DEF Promise!source, source, View
<1>3. Promise!line = line
  BY <1>1, <1>2 DEF Promise!line, line, View
<1>4. Promise!Reading <=> Reading
  BY <1>1, <1>2 DEF Promise!Reading, Reading, View
<1>5. Promise!Counts <=> \A n \in DOMAIN Sides(top.ifs) : Sides(top.ifs)[n] \in {"on", "then"}
  <2>1. Promise!top.sides = Sides(top.ifs)
    BY <1>1 DEF View
  <2>2. QED
    BY Zenon, <2>1 DEF Promise!Counts
<1>6. Live => Promise!Counts
  <2> HAVE Live
  <2>1. top.ifs \in BlocksSet /\ LiveIn(top.ifs)
    BY TopFacts DEF CallSet, Live, InBlock, block, LiveIn
  <2>2. Sides(top.ifs) \in Seq({"on", "then"})
    BY <2>1, AllSides
  <2>3. \A n \in DOMAIN Sides(top.ifs) : Sides(top.ifs)[n] \in {"on", "then"}
    BY <2>2, LenProperties, ElementOfSeq
  <2>4. QED
    BY <1>5, <2>3
<1>7. ~Live => ~Promise!Counts
  <2> HAVE ~Live
  <2> DEFINE sides == Sides(top.ifs)
  <2>1. InBlock /\ ~block.condition
    BY DEF Live
  <2>2. sides # <<>> /\ Last(sides) = Last(SideOf(block))
    BY <2>1, InnermostSide
  <2>3. Last(SideOf(block)) \notin {"on", "then"}
    BY <2>1, BlockFacts, SideOfType
  <2>4. sides \in Seq(SideNames)
    BY TopFacts, SidesType DEF CallSet, BlocksSet
  <2> HIDE DEF sides
  <2>5. Len(sides) \in DOMAIN sides
    BY <2>2, <2>4, LenProperties, EmptySeq
  <2>6. QED
    BY <1>5, <2>2, <2>3, <2>5 DEF Last, sides
<1>8. Promise!top.next = top.next /\ Promise!top.sides = Sides(top.ifs)
  BY <1>1 DEF View
<1>9. QED
  BY <1>1, <1>2, <1>3, <1>4, <1>6, <1>7, <1>8

LEMMA OnwardBehind ==
  ASSUME IInv, NEW more \in Nat, NEW ifs \in BlocksSet,
         Onward(more, ifs), files' = files
  PROVE  Promise!Behind(top.next + 1 + more, Sides(ifs))
<1>1. [View(top) EXCEPT !.next = top.next + 1 + more, !.sides = Sides(ifs)] =
        [name |-> top.name, next |-> top.next + 1 + more, sides |-> Sides(ifs)]
  <2> DEFINE n == top.next + 1 + more
             s == Sides(ifs)
  <2> HIDE DEF n, s
  <2>1. [View(top) EXCEPT !.next = n, !.sides = s] =
          [[View(top) EXCEPT !.next = n] EXCEPT !.sides = s]
    BY DEF View
  <2>2. [View(top) EXCEPT !.next = n] =
          [name |-> top.name, next |-> n, sides |-> Sides(top.ifs)]
    BY DEF View
  <2>3. [[name |-> top.name, next |-> n, sides |-> Sides(top.ifs)] EXCEPT !.sides = s] =
          [name |-> top.name, next |-> n, sides |-> s]
    OBVIOUS
  <2>4. [View(top) EXCEPT !.next = n, !.sides = s] =
          [name |-> top.name, next |-> n, sides |-> s]
    BY Zenon, <2>1, <2>2, <2>3
  <2>5. QED
    BY <2>4 DEF n, s
<1>2. Views(stack') =
        Front(Views(stack)) \o <<[Promise!top EXCEPT !.next = top.next + 1 + more,
                                                     !.sides = Sides(ifs)]>>
  BY <1>1, OnwardKeeps, PromiseFacts
<1>3. QED
  BY Zenon, <1>2, PromiseEnds DEF Promise!Behind, Views

LEMMA OnwardOne ==
  ASSUME IInv, Reading, NEW ifs \in BlocksSet, Onward(0, ifs), files' = files
  PROVE  Promise!Behind(Promise!top.next + 1, Sides(ifs))
<1>1. Promise!Behind(top.next + 1 + 0, Sides(ifs))
  BY OnwardBehind
<1>2. top.next + 1 + 0 = Promise!top.next + 1
  BY TopFacts, PromiseFacts DEF CallSet
<1>3. QED
  BY <1>1, <1>2
-----------------------------------------------------------------------------
(* The steps that handle a line. *)
Outcomes == {"running", "done", "error", "aborted"}

LEMMA InvariantKept ==
  ASSUME IInv, files' = files, StackOK', SymbolsOK(symbols'), MacrosOK(macros'),
         output' \in Seq(PrintedSet), OneMore', outcome' \in Outcomes, misread' \in BOOLEAN
  PROVE  IInv'
<1>1. \A name \in DOMAIN files' : files'[name] \in Seq(LineSet)
  BY DEF IInv, TypeOK
<1>2. stack' \in Seq(CallSet) /\ Len(stack') \in 1 .. OpenMax /\ Counted'
      /\ \A d \in 1 .. Len(stack') : stack'[d].name \in DOMAIN files'
  BY Zenon DEF StackOK
<1>3. TypeOK'
  BY Zenon, <1>1, <1>2 DEF TypeOK, SymbolsOK, MacrosOK, Outcomes
<1>4. files' \in Files
  BY DEF IInv
<1>5. QED
  BY Zenon, <1>2, <1>3, <1>4 DEF IInv

LEMMA InvariantFacts ==
  ASSUME IInv
  PROVE  /\ SymbolsOK(symbols) /\ MacrosOK(macros) /\ outcome \in Outcomes
         /\ output \in Seq(PrintedSet) /\ OneMore
         /\ misread \in BOOLEAN
         /\ Noted => misread' \in BOOLEAN
         /\ StackOK
  BY Zenon DEF IInv, TypeOK, SymbolsOK, MacrosOK, Outcomes, Noted, StackOK

LEMMA OneLine ==
  ASSUME IInv, Reading
  PROVE  /\ line \in LineSet /\ <<line>> \in Seq(LineSet)
         /\ top.next \in Nat \ {0} /\ top.name \in STRING
  BY TopFacts DEF CallSet

LEMMA PassKeeps ==
  ASSUME IInv, Pass
  PROVE  IInv' /\ Promise!EmitLine
<1>1. /\ Reading /\ Live /\ line.op \in {"colon", "dot", "blank"} /\ Noted /\ files' = files
      /\ Prints(TextLines(<<line>>)) /\ Onward(0, Hinted)
      /\ symbols' = symbols /\ macros' = macros /\ outcome' = outcome
  BY DEF Pass, Handles
<1>2. line \in LineSet /\ <<line>> \in Seq(LineSet)
  BY <1>1, OneLine
<1>3. NumberedLines(TextLines(<<line>>)) /\ Texts(TextLines(<<line>>)) = <<line>>
  BY <1>2, TextLinesFacts
<1>4. /\ output' \in Seq(PrintedSet) /\ OneMore'
      /\ Texts(output') = Texts(output) \o <<line>>
  BY <1>1, <1>3, PrintsKeeps
<1>5. Hinted \in BlocksSet /\ Sides(Hinted) = Sides(top.ifs)
  BY HintedFacts
<1>6. StackOK'
  BY <1>1, <1>5, OnwardKeeps
<1>7. IInv'
  BY <1>1, <1>4, <1>6, InvariantFacts, InvariantKept
<1>8. Promise!Behind(Promise!top.next + 1, Promise!top.sides)
  BY <1>1, <1>5, OnwardOne, PromiseFacts
<1>9. /\ Promise!Reading /\ Promise!Counts
      /\ Promise!line = line /\ line.op \in {"insn", "colon", "dot", "blank"} /\ line.op # "insn"
  BY <1>1, PromiseFacts
<1>10. Promise!EmitLine
  BY Zenon, <1>1, <1>4, <1>8, <1>9 DEF Promise!EmitLine
<1>11. QED
  BY <1>7, <1>10

LEMMA ThisFileFacts ==
  ASSUME IInv
  PROVE  /\ NumberedLines(ThisFile(LineNo + 1)) /\ Texts(ThisFile(LineNo + 1)) = <<>>
<1>1. ThisFile(LineNo + 1) = <<FileLine(top.name, top.next + 1, top.next, FALSE)>>
  BY TopFacts DEF ThisFile
<1>2. top.name \in STRING /\ top.next \in Nat
  BY TopFacts DEF CallSet
<1>3. QED
  BY <1>1, <1>2, NumberedFileLine, TextsOfFileLine

(* The promise expands, tests and defines as the model does.               *)
LEMMA PromiseMeaning ==
  /\ \A l, syms, ms : Promise!Expansion(l, syms, ms) = Expansion(l, syms, ms)
  /\ \A l, syms : Promise!Condition(l, syms) = Condition(l, syms)
  /\ \A l, syms : Promise!Defined(syms, l) = Defined(syms, l)
  /\ \A src, first : Promise!MacroBody(src, first) = MacroBody(src, first)
  /\ \A ms, l, body : Promise!WithMacro(ms, l, body) = WithMacro(ms, l, body)
  /\ Promise!Conditions = Conditions
<1>1. \A l : Promise!MacroKey(l) = MacroKey(l)
  BY Zenon DEF Promise!MacroKey, MacroKey
<1>2. \A args, syms : Promise!Substituted(args, syms) = Substituted(args, syms)
  BY Zenon DEF Promise!Substituted, Substituted
<1>3. \A l, args : Promise!Instantiated(l, args) = Instantiated(l, args)
  <2>1. \A word, args : Promise!Replaced(word, args) = Replaced(word, args)
    BY Zenon DEF Promise!Replaced, Replaced, Promise!Parameters, Parameters
  <2>2. QED
    BY Zenon, <2>1 DEF Promise!Instantiated, Instantiated
<1>4. \A l, syms, ms : Promise!Expansion(l, syms, ms) = Expansion(l, syms, ms)
  BY Zenon, <1>1, <1>2, <1>3 DEF Promise!Expansion, Expansion
<1>5. \A l, syms : Promise!Condition(l, syms) = Condition(l, syms)
  BY Zenon DEF Promise!Condition, Condition
<1>6. \A l, syms : Promise!Defined(syms, l) = Defined(syms, l)
  BY Zenon DEF Promise!Defined, Defined
<1>7. \A src, first : Promise!MacroBody(src, first) = MacroBody(src, first)
  BY Zenon DEF Promise!MacroBody, MacroBody
<1>8. \A ms, l, body : Promise!WithMacro(ms, l, body) = WithMacro(ms, l, body)
  BY Zenon, <1>1 DEF Promise!WithMacro, WithMacro
<1>9. Promise!Conditions = Conditions
  BY DEF Promise!Conditions, Conditions
<1>10. QED
  BY <1>4, <1>5, <1>6, <1>7, <1>8, <1>9

LEMMA ParseInstructionKeeps ==
  ASSUME IInv, ParseInstruction
  PROVE  IInv' /\ Promise!EmitLine
<1> DEFINE lines == Expansion(line, symbols, macros)
           after == IF MacroKey(line) \in DOMAIN macros THEN ThisFile(LineNo + 1) ELSE <<>>
<1>1. /\ Reading /\ Live /\ line.op \in {"insn"} /\ Noted /\ files' = files
      /\ Prints(TextLines(lines) \o after) /\ Onward(0, Hinted)
      /\ symbols' = symbols /\ macros' = macros /\ outcome' = outcome
  BY Zenon DEF ParseInstruction, Handles
<1>2. lines \in Seq(LineSet)
  BY <1>1, OneLine, InvariantFacts, ExpansionType
<1>3. NumberedLines(after) /\ Texts(after) = <<>>
  BY ThisFileFacts, NumberedNone, TextsNone
<1> HIDE DEF lines, after
<1>4. NumberedLines(TextLines(lines)) /\ Texts(TextLines(lines)) = lines
  BY <1>2, TextLinesFacts
<1>5. NumberedLines(TextLines(lines) \o after)
  BY <1>3, <1>4, NumberedConcat
<1>6. Texts(TextLines(lines) \o after) = lines
  <2>1. Texts(TextLines(lines) \o after) = lines \o <<>>
    BY <1>3, <1>4, TextsConcat DEF NumberedLines
  <2>2. QED
    BY <1>2, <2>1, ConcatEmptySeq
<1>7. /\ output' \in Seq(PrintedSet) /\ OneMore'
      /\ Texts(output') = Texts(output) \o lines
  BY <1>1, <1>5, <1>6, PrintsKeeps
<1>8. Hinted \in BlocksSet /\ Sides(Hinted) = Sides(top.ifs)
  BY HintedFacts
<1>9. StackOK'
  BY <1>1, <1>8, OnwardKeeps
<1>10. IInv'
  BY <1>1, <1>7, <1>9, InvariantFacts, InvariantKept
<1>11. Promise!Behind(Promise!top.next + 1, Promise!top.sides)
  BY <1>1, <1>8, OnwardOne, PromiseFacts
<1>12. /\ Promise!Reading /\ Promise!Counts
       /\ Promise!line = line /\ line.op \in {"insn", "colon", "dot", "blank"} /\ line.op = "insn"
       /\ Promise!Expansion(line, symbols, macros) = lines
  BY <1>1, PromiseFacts, PromiseMeaning DEF lines
<1>13. Promise!EmitLine
  BY Zenon, <1>1, <1>7, <1>11, <1>12 DEF Promise!EmitLine
<1>14. QED
  BY <1>10, <1>13

LEMMA PrintsNothing ==
  ASSUME IInv, NEW lines, NumberedLines(lines), Texts(lines) = <<>>, Prints(lines)
  PROVE  output' \in Seq(PrintedSet) /\ OneMore' /\ Texts(output') = Texts(output)
<1>1. /\ output' \in Seq(PrintedSet) /\ OneMore'
      /\ Texts(output') = Texts(output) \o <<>>
  BY PrintsKeeps
<1>2. Texts(output) \in Seq(LineSet)
  BY InvariantFacts, TextsConcat
<1>3. QED
  BY <1>1, <1>2, ConcatEmptySeq

LEMMA DefineKeeps ==
  ASSUME IInv, Define
  PROVE  IInv' /\ Promise!Define
<1>1. /\ Reading /\ Live /\ line.op = "define" /\ Noted /\ files' = files
      /\ Prints(ThisFile(LineNo + 1)) /\ Onward(0, Hinted)
      /\ symbols' = Defined(symbols, line) /\ macros' = macros /\ outcome' = outcome
  BY Zenon DEF Define, Handles
<1>2. /\ output' \in Seq(PrintedSet) /\ OneMore' /\ Texts(output') = Texts(output)
  BY <1>1, ThisFileFacts, PrintsNothing
<1>3. Hinted \in BlocksSet /\ Sides(Hinted) = Sides(top.ifs)
  BY HintedFacts
<1>4. StackOK'
  BY <1>1, <1>3, OnwardKeeps
<1>5. line.args[1] \in STRING
  <2>1. /\ files \in Files /\ top.name \in DOMAIN files /\ line = files[top.name][top.next]
        /\ top.next \in DOMAIN files[top.name]
    BY <1>1, TopFacts, LenProperties DEF IInv, line, source
  <2>2. Len(line.args) = 1
    BY <1>1, <2>1, MacrosAssumption
  <2>3. line.args \in Seq(STRING)
    BY <1>1, OneLine DEF LineSet
  <2>4. QED
    BY <2>2, <2>3, ElementOfSeq
<1>6. SymbolsOK(symbols')
  BY <1>1, <1>5, InvariantFacts DEF SymbolsOK, Defined
<1>7. IInv'
  BY <1>1, <1>2, <1>4, <1>6, InvariantFacts, InvariantKept
<1>8. Promise!Behind(Promise!top.next + 1, Promise!top.sides)
  BY <1>1, <1>3, OnwardOne, PromiseFacts
<1>9. /\ Promise!Reading /\ Promise!Counts
      /\ Promise!line = line /\ symbols' = Promise!Defined(symbols, line)
  BY <1>1, PromiseFacts, PromiseMeaning
<1>10. Promise!Define
  BY Zenon, <1>1, <1>2, <1>8, <1>9 DEF Promise!Define
<1>11. QED
  BY <1>7, <1>10

LEMMA DefineMacroKeeps ==
  ASSUME IInv, DefineMacro
  PROVE  IInv' /\ Promise!DefineMacro
<1> DEFINE body == MacroBody(source, top.next + 1)
           more == Len(body) + 1
           said == <<FileLine(top.name, LineNo + more + 1, top.next + more, FALSE)>>
<1>1. /\ Reading /\ Live /\ line.op = "macro" /\ Noted /\ files' = files
      /\ Prints(said) /\ Onward(more, Hinted)
      /\ macros' = WithMacro(macros, line, body) /\ symbols' = symbols /\ outcome' = outcome
  BY Zenon DEF DefineMacro, Handles
<1>2. body \in Seq(LineSet) /\ Len(body) \in Nat
  <2> DEFINE first == top.next + 1
  <2>1. source \in Seq(LineSet) /\ first \in 1 .. Len(source) + 1
    BY <1>1, TopFacts
  <2> HIDE DEF first
  <2>2. MacroBody(source, first) \in Seq(LineSet) /\ Len(MacroBody(source, first)) \in Nat
    BY <2>1, MacroBodyType
  <2>3. QED
    BY <2>2 DEF first
<1> HIDE DEF body
<1>3. more \in Nat /\ top.next + more \in Nat /\ top.name \in STRING
  BY <1>1, <1>2, OneLine
<1>4. LineNo + more + 1 = (top.next + more) + 1
  BY <1>2, TopFacts
<1>5. NumberedLines(said) /\ Texts(said) = <<>>
  <2> DEFINE at == top.next + more
  <2>1. said = <<FileLine(top.name, at + 1, at, FALSE)>>
    BY <1>4
  <2>2. at \in Nat
    BY <1>3
  <2> HIDE DEF at, said
  <2>3. QED
    BY <1>3, <2>1, <2>2, NumberedFileLine, TextsOfFileLine
<1>6. /\ output' \in Seq(PrintedSet) /\ OneMore' /\ Texts(output') = Texts(output)
  BY <1>1, <1>5, PrintsNothing
<1>7. Hinted \in BlocksSet /\ Sides(Hinted) = Sides(top.ifs)
  BY HintedFacts
<1>8. StackOK'
  BY <1>1, <1>3, <1>7, OnwardKeeps
<1>9. MacrosOK(macros')
  BY <1>1, <1>2, InvariantFacts DEF MacrosOK, WithMacro
<1>10. IInv'
  BY <1>1, <1>6, <1>8, <1>9, InvariantFacts, InvariantKept
<1>11. Promise!Behind(Promise!top.next + Len(body) + 2, Promise!top.sides)
  <2>1. Promise!Behind(top.next + 1 + more, Sides(Hinted))
    BY <1>1, <1>3, <1>7, OnwardBehind
  <2>2. top.next + 1 + more = Promise!top.next + Len(body) + 2
    BY <1>1, <1>2, OneLine, PromiseFacts
  <2>3. Sides(Hinted) = Promise!top.sides
    BY <1>7, PromiseFacts
  <2>4. QED
    BY <2>1, <2>2, <2>3
<1>12. /\ Promise!Reading /\ Promise!Counts /\ Promise!line = line
       /\ Promise!MacroBody(Promise!source, Promise!top.next + 1) = body
       /\ macros' = Promise!WithMacro(macros, line, body)
  BY <1>1, PromiseFacts, PromiseMeaning DEF body
<1>13. Promise!DefineMacro
  BY Zenon, <1>1, <1>6, <1>11, <1>12 DEF Promise!DefineMacro
<1>14. QED
  BY <1>10, <1>13

LEMMA OpenBlockKeeps ==
  ASSUME IInv, OpenBlock
  PROVE  IInv' /\ Promise!OpenBlock
<1> DEFINE holds == Condition(line, symbols) = "true"
           side == IF holds THEN "on" ELSE "off"
           new == Append(Hinted, If(holds))
<1>1. /\ Reading /\ Live /\ line.op \in Conditions /\ Noted /\ files' = files
      /\ Condition(line, symbols) \in {"true", "false"}
      /\ Prints(<<>>) /\ Onward(0, new)
      /\ symbols' = symbols /\ macros' = macros /\ outcome' = outcome
  BY Zenon DEF OpenBlock, Handles
<1>2. /\ output' \in Seq(PrintedSet) /\ OneMore' /\ Texts(output') = Texts(output)
  BY <1>1, NumberedNone, TextsNone, PrintsNothing
<1>3. Hinted \in BlocksSet /\ Sides(Hinted) = Sides(top.ifs)
  BY HintedFacts
<1>4. If(holds) \in BlockSet /\ SideOf(If(holds)) = <<side>>
  <2>1. If(holds) \in BlockSet
    BY DEF If, BlockSet
  <2>2. If(holds).depth = 1 /\ If(holds).hasElse = FALSE /\ If(holds).condition = holds
    BY DEF If
  <2> HIDE DEF holds
  <2>3. QED
    BY <2>1, <2>2, SideOfType
<1> HIDE DEF holds
<1>5. new \in BlocksSet /\ Sides(new) = Sides(top.ifs) \o <<side>>
  <2> DEFINE b == If(holds)
  <2>1. b \in BlockSet
    BY <1>4
  <2> HIDE DEF b
  <2>2. Append(Hinted, b) \in BlocksSet /\ Sides(Append(Hinted, b)) = Sides(Hinted) \o SideOf(b)
    <3>1. Append(Hinted, b) \in BlocksSet
      BY <1>1, <1>3, <2>1, LiveHinted, BlocksAppend
    <3>2. Hinted \in Seq(BlockSet)
      BY <1>3 DEF BlocksSet
    <3>3. QED
      BY <2>1, <3>1, <3>2, SidesAppend
  <2>3. QED
    BY <1>3, <1>4, <2>2 DEF b
<1> HIDE DEF new
<1>6. StackOK'
  BY <1>1, <1>5, OnwardKeeps
<1>7. IInv'
  BY <1>1, <1>2, <1>6, InvariantFacts, InvariantKept
<1>8. Promise!Behind(Promise!top.next + 1, Append(Promise!top.sides, side))
  <2> DEFINE sides == Sides(top.ifs)
  <2>1. sides \in Seq(SideNames) /\ side \in SideNames
    BY SidesType, TopFacts DEF CallSet, BlocksSet, SideNames
  <2>2. Promise!Behind(Promise!top.next + 1, sides \o <<side>>)
    BY <1>1, <1>5, OnwardOne
  <2>3. Promise!top.sides = sides
    BY PromiseFacts
  <2> HIDE DEF sides, side
  <2>4. Append(sides, side) = sides \o <<side>>
    BY <2>1, AppendIsConcat
  <2>5. Promise!Behind(Promise!top.next + 1, Append(sides, side))
    BY <2>2, <2>4
  <2>6. QED
    BY <2>3, <2>5
<1>9. /\ Promise!Reading /\ Promise!Counts /\ Promise!line = line
      /\ line.op \in Promise!Conditions
      /\ Promise!Condition(line, symbols) = Condition(line, symbols)
  BY <1>1, PromiseFacts, PromiseMeaning
<1>10. Promise!OpenBlock
  BY Zenon, <1>1, <1>2, <1>8, <1>9 DEF Promise!OpenBlock, holds
<1>11. QED
  BY <1>7, <1>10

LEMMA TwoMore ==
  ASSUME NEW S, NEW s \in Seq(S), NEW a \in S, NEW b \in S
  PROVE  s \o <<a, b>> = Append(Append(s, a), b)
<1> DEFINE two == <<a, b>>
           u == s \o two
           t == Append(s, a)
           v == Append(t, b)
<1>1. two \in Seq(S) /\ Len(two) = 2 /\ two[1] = a /\ two[2] = b
  OBVIOUS
<1> HIDE DEF two
<1>2. /\ u \in Seq(S) /\ Len(u) = Len(s) + Len(two) /\ Len(s) \in Nat
      /\ \A i \in 1 .. Len(s) + Len(two) : u[i] = IF i <= Len(s) THEN s[i] ELSE two[i - Len(s)]
  BY <1>1, ConcatProperties, LenProperties
<1>3. /\ t \in Seq(S) /\ Len(t) = Len(s) + 1
      /\ \A i \in 1 .. Len(s) : t[i] = s[i]
      /\ t[Len(s) + 1] = a
  BY AppendProperties
<1> HIDE DEF t
<1>4. /\ v \in Seq(S) /\ Len(v) = Len(t) + 1
      /\ \A i \in 1 .. Len(t) : v[i] = t[i]
      /\ v[Len(t) + 1] = b
  BY <1>3, AppendProperties
<1> HIDE DEF u, v
<1>5. Len(u) = Len(s) + 2 /\ Len(v) = Len(s) + 2
  BY <1>1, <1>2, <1>3, <1>4
<1>6. ASSUME NEW i \in 1 .. Len(s) + 2
      PROVE  u[i] = v[i]
  <2>1. CASE i <= Len(s)
    BY <1>1, <1>2, <1>3, <1>4, <2>1
  <2>2. CASE i = Len(s) + 1
    <3>1. u[i] = two[1]
      BY <1>1, <1>2, <2>2
    <3>2. v[i] = a
      BY <1>2, <1>3, <1>4, <2>2
    <3>3. QED
      BY <1>1, <3>1, <3>2
  <2>3. CASE i = Len(s) + 2
    <3>1. u[i] = two[2]
      BY <1>1, <1>2, <2>3
    <3>2. v[i] = b
      BY <1>2, <1>3, <1>4, <2>3
    <3>3. QED
      BY <1>1, <3>1, <3>2
  <2>4. QED
    BY <1>2, <2>1, <2>2, <2>3
<1>7. u = v
  BY <1>2, <1>4, <1>5, <1>6, SeqEqual
<1>8. QED
  BY <1>7 DEF u, v, two, t

(* A file begins to be read while the one that includes it waits.          *)
LEMMA PushKeeps ==
  ASSUME IInv, Len(stack) < OpenMax, files' = files,
         NEW call \in CallSet, call.name = top.name, CallCounts(call, TRUE),
         NEW new \in CallSet, new.name \in DOMAIN files, CallCounts(new, FALSE),
         stack' = Front(stack) \o <<call, new>>
  PROVE  /\ StackOK'
         /\ Views(stack') = Front(Views(stack)) \o <<View(call), View(new)>>
<1> DEFINE n == Len(stack)
           s == Front(stack)
           t == Append(s, call)
           u == Append(t, new)
<1>1. /\ n \in Nat \ {0} /\ n + 1 \in 1 .. OpenMax /\ top.name \in DOMAIN files
      /\ s \in Seq(CallSet) /\ Len(s) = n - 1
      /\ \A d \in 1 .. n - 1 : s[d] = stack[d]
  BY TopFacts, MacrosAssumption DEF IInv, TypeOK
<1>2. stack' = u
  BY <1>1, TwoMore
<1> HIDE DEF s, n
<1>3. /\ t \in Seq(CallSet) /\ Len(t) = Len(s) + 1
      /\ \A d \in 1 .. Len(s) : t[d] = s[d]
      /\ t[Len(s) + 1] = call
  BY <1>1, AppendProperties
<1> HIDE DEF t
<1>4. /\ u \in Seq(CallSet) /\ Len(u) = Len(t) + 1
      /\ \A d \in 1 .. Len(t) : u[d] = t[d]
      /\ u[Len(t) + 1] = new
  BY <1>3, AppendProperties
<1> HIDE DEF u
<1>5. /\ Len(s) + 1 = n /\ Len(t) = n /\ Len(u) = n + 1
  BY <1>1, <1>3, <1>4
<1>6. /\ \A d \in 1 .. n - 1 : u[d] = stack[d]
      /\ u[n] = call /\ u[n + 1] = new
  BY <1>1, <1>3, <1>4, <1>5
<1>7. \A d \in 1 .. n + 1 : u[d].name \in DOMAIN files
  <2> TAKE d \in 1 .. n + 1
  <2>1. CASE d = n + 1
    BY <1>6, <2>1
  <2>2. CASE d = n
    BY <1>1, <1>6, <2>2
  <2>3. CASE d \in 1 .. n - 1
    <3>1. u[d] = stack[d] /\ d \in 1 .. Len(stack)
      BY <1>1, <1>6, <2>3 DEF n
    <3>2. QED
      BY <3>1 DEF IInv, TypeOK
  <2>4. QED
    BY <1>1, <2>1, <2>2, <2>3
<1>8. Counted'
  <2> SUFFICES ASSUME NEW d \in 1 .. n + 1
               PROVE  u[d].line_no + (IF d < n + 1 \/ u[d].ifs # <<>> THEN 1 ELSE 0) = u[d].next
    BY <1>2, <1>5 DEF Counted
  <2>1. CASE d = n + 1
    BY <1>1, <1>6, <2>1 DEF CallCounts
  <2>2. CASE d = n
    BY <1>1, <1>6, <2>2 DEF CallCounts
  <2>3. CASE d \in 1 .. n - 1
    <3>1. u[d] = stack[d] /\ d \in 1 .. Len(stack) /\ d < Len(stack) /\ d < n + 1
      BY <1>1, <1>6, <2>3 DEF n
    <3>2. QED
      BY <3>1 DEF IInv, Counted
  <2>4. QED
    BY <1>1, <2>1, <2>2, <2>3
<1>9. Views(stack') = Front(Views(stack)) \o <<View(call), View(new)>>
  <2> DEFINE a == Views(s)
             b == View(call)
             c == View(new)
  <2>1. Views(stack') = Append(Append(a, b), c)
    BY <1>1, <1>2, <1>3, ViewsAppend DEF t, u
  <2>2. a \in Seq(ViewSet) /\ b \in ViewSet /\ c \in ViewSet
    BY <1>1, ViewsType, SidesType DEF CallSet, BlocksSet, ViewSet, View
  <2>3. a = Front(Views(stack))
    BY ViewsTop DEF s
  <2> HIDE DEF a, b, c
  <2>4. a \o <<b, c>> = Append(Append(a, b), c)
    BY <2>2, TwoMore
  <2>5. QED
    BY <2>1, <2>3, <2>4 DEF b, c
<1>10. QED
  BY <1>1, <1>2, <1>4, <1>5, <1>7, <1>8, <1>9 DEF StackOK

LEMMA IncludeKeeps ==
  ASSUME IInv, Include
  PROVE  IInv' /\ Promise!Include
<1> DEFINE call == [top EXCEPT !.next = @ + 1, !.line_no = LineNo, !.ifs = Hinted]
           new == Input(line.name)
           said == <<FileLine(line.name, 1, 0, FALSE)>>
<1>1. /\ Reading /\ Live /\ line.op = "include" /\ Noted /\ files' = files /\ CanOpen
      /\ Prints(said) /\ stack' = Front(stack) \o <<call, new>>
      /\ symbols' = symbols /\ macros' = macros /\ outcome' = outcome
  BY Zenon DEF Include, Handles
<1>2. line.name \in DOMAIN files /\ line.name \in STRING /\ Len(stack) < OpenMax
  BY <1>1, FileFacts DEF CanOpen
<1>3. NumberedLines(said) /\ Texts(said) = <<>>
  <2>1. FileLine(line.name, 0 + 1, 0, FALSE) = FileLine(line.name, 1, 0, FALSE)
    OBVIOUS
  <2>2. NumberedLines(<<FileLine(line.name, 0 + 1, 0, FALSE)>>)
    BY <1>2, NumberedFileLine
  <2>3. QED
    BY <2>1, <2>2, TextsOfFileLine
<1>4. /\ output' \in Seq(PrintedSet) /\ OneMore' /\ Texts(output') = Texts(output)
  BY <1>1, <1>3, PrintsNothing
<1>5. Hinted \in BlocksSet /\ Sides(Hinted) = Sides(top.ifs)
  BY HintedFacts
<1>6. top \in CallSet /\ top.next \in Nat \ {0} /\ LineNo = top.next
  BY TopFacts DEF CallSet
<1>7. /\ call.name = top.name /\ call.next = top.next + 1 /\ call.line_no = top.next
      /\ call.ifs = Hinted
  BY <1>6 DEF CallSet
<1>8. call \in CallSet
  <2> DEFINE n == top.next + 1
             ifs == Hinted
             k == LineNo
  <2>1. n \in Nat \ {0} /\ k \in Nat \ {0} /\ ifs \in BlocksSet
    BY <1>5, <1>6
  <2>2. call = [top EXCEPT !.next = n, !.line_no = k, !.ifs = ifs]
    OBVIOUS
  <2> HIDE DEF n, k, ifs, call
  <2>3. QED
    BY <1>6, <2>1, <2>2 DEF CallSet
<1>9. new \in CallSet /\ CallCounts(new, FALSE) /\ View(new) = Promise!Begin(line.name)
  BY <1>2, NoBlocks, SidesNone DEF CallSet, Input, CallCounts, View, Promise!Begin
<1>10. CallCounts(call, TRUE)
  BY <1>6, <1>7 DEF CallCounts
<1>11. new.name = line.name
  BY DEF Input
<1>12. View(call) = [Promise!top EXCEPT !.next = @ + 1]
  <2>1. View(call) = [name |-> top.name, next |-> top.next + 1, sides |-> Sides(top.ifs)]
    BY <1>5, <1>7 DEF View
  <2>2. View(top).next = top.next
    BY DEF View
  <2>3. [View(top) EXCEPT !.next = top.next + 1] =
          [name |-> top.name, next |-> top.next + 1, sides |-> Sides(top.ifs)]
    BY DEF View
  <2>4. QED
    BY <2>1, <2>2, <2>3, PromiseFacts
<1> HIDE DEF call, new
<1>13. /\ StackOK'
       /\ Views(stack') = Front(Views(stack)) \o <<View(call), View(new)>>
  BY <1>1, <1>2, <1>7, <1>8, <1>9, <1>10, <1>11, PushKeeps
<1>14. IInv'
  BY <1>1, <1>4, <1>13, InvariantFacts, InvariantKept
<1>15. /\ Promise!Reading /\ Promise!Counts /\ Promise!line = line
       /\ Len(Views(stack)) < OpenMax
  BY <1>1, <1>2, PromiseFacts, ViewsTop
<1>16. Promise!Include
  BY Zenon, <1>1, <1>2, <1>4, <1>9, <1>12, <1>13, <1>15, PromiseEnds DEF Promise!Include, Views
<1>17. QED
  BY <1>14, <1>16

LEMMA StackStays ==
  ASSUME IInv, stack' = stack, files' = files
  PROVE  StackOK'
  BY InvariantFacts DEF StackOK, Counted

(* The promise fails and nothing but the outcome changes.                  *)
LEMMA PromiseFails ==
  ASSUME IInv, files' = files, stack' = stack, symbols' = symbols, macros' = macros,
         Texts(output') = Texts(output), NEW how, outcome' = how
  PROVE  Promise!Fails(how)
  BY DEF Promise!Fails

LEMMA ThrowKeeps ==
  ASSUME IInv, Throw
  PROVE  IInv' /\ (misread' \/ Promise!Refuse \/ Promise!Abort)
<1>1. /\ Reading /\ Live /\ Noted /\ files' = files /\ Prints(<<>>)
      /\ line.op \in Conditions \cup {"include", "else", "endif", "endmacro", "unknown"}
      /\ InBlock => Found \notin {"else", "endif"}
      /\ outcome' = CASE line.op \in Conditions -> Condition(line, symbols)
                      [] line.op \notin Conditions -> "error"
      /\ line.op \in Conditions => outcome' \in {"error", "aborted"}
      /\ line.op = "include" => ~CanOpen
      /\ stack' = stack /\ symbols' = symbols /\ macros' = macros
  BY Zenon DEF Throw, Handles
<1>2. /\ output' \in Seq(PrintedSet) /\ OneMore' /\ Texts(output') = Texts(output)
  BY <1>1, NumberedNone, TextsNone, PrintsNothing
<1>3. /\ line.op \in Conditions => outcome' = Condition(line, symbols)
      /\ line.op \notin Conditions => outcome' = "error"
  BY <1>1
<1>4. outcome' \in Outcomes
  BY <1>1, <1>3 DEF Outcomes
<1>5. StackOK'
  BY <1>1, StackStays
<1>6. IInv'
  BY <1>1, <1>2, <1>4, <1>5, InvariantFacts, InvariantKept
<1>7. ASSUME ~misread'
      PROVE  Promise!Refuse \/ Promise!Abort
  <2>1. /\ Promise!Reading /\ Promise!Counts /\ Promise!line = line
        /\ Promise!Conditions = Conditions
        /\ Promise!Condition(line, symbols) = Condition(line, symbols)
        /\ Promise!top.sides = Sides(top.ifs)
    BY <1>1, PromiseFacts, PromiseMeaning
  <2>2. outcome' = "error" => Promise!Fails("error")
    BY <1>1, <1>2, PromiseFails
  <2>3. CASE line.op \in Conditions
    <3>1. CASE outcome' = "error"
      BY Zenon, <1>3, <2>1, <2>2, <2>3, <3>1 DEF Promise!Refuse
    <3>2. CASE outcome' = "aborted"
      <4>1. Promise!Fails("aborted")
        BY <1>1, <1>2, <3>2, PromiseFails
      <4>2. QED
        BY Zenon, <1>3, <2>1, <2>3, <3>2, <4>1 DEF Promise!Abort
    <3>3. QED
      BY <1>1, <2>3, <3>1, <3>2
  <2>4. CASE line.op \in {"else", "endif"}
    <3>1. ~InBlock
      BY <1>1, <1>7, <2>4 DEF Noted, Confused
    <3>2. Sides(top.ifs) = <<>>
      BY <3>1, SidesNone DEF InBlock
    <3>3. Promise!Fails("error")
      BY <1>3, <2>2, <2>4 DEF Conditions
    <3>4. QED
      BY <2>1, <2>4, <3>2, <3>3 DEF Promise!Refuse
  <2>5. CASE line.op \in {"endmacro", "unknown"}
    <3>1. Promise!Fails("error")
      BY <1>3, <2>2, <2>5 DEF Conditions
    <3>2. QED
      BY <2>1, <2>5, <3>1 DEF Promise!Refuse
  <2>6. CASE line.op = "include"
    <3>1. Promise!Fails("error")
      BY <1>3, <2>2, <2>6 DEF Conditions
    <3>2. line.name \notin DOMAIN files \/ Len(Views(stack)) = OpenMax
      <4>1. line.name \notin DOMAIN files \/ ~(Len(stack) < OpenMax)
        BY <1>1, <2>6 DEF CanOpen
      <4>2. Len(stack) \in 1 .. OpenMax /\ OpenMax \in Nat
        BY MacrosAssumption DEF IInv, TypeOK
      <4>3. QED
        BY <4>1, <4>2, ViewsTop
    <3>3. QED
      BY Zenon, <2>1, <2>6, <3>1, <3>2 DEF Promise!Refuse, Views
  <2>7. QED
    BY <1>1, <2>3, <2>4, <2>5, <2>6
<1>8. QED
  BY <1>6, <1>7
-----------------------------------------------------------------------------
(* The loops of the blocks. *)
LEMMA ElseAgainKeeps ==
  ASSUME IInv, ElseAgain
  PROVE  IInv' /\ (misread' \/ Promise!Refuse)
<1>1. /\ Reading /\ InBlock /\ Found = "else" /\ Noted /\ files' = files /\ Prints(<<>>)
      /\ ~Live => block.depth = 1
      /\ block.hasElse /\ outcome' = "error"
      /\ stack' = stack /\ symbols' = symbols /\ macros' = macros
  BY Zenon DEF ElseAgain, InLoop
<1>2. /\ output' \in Seq(PrintedSet) /\ OneMore' /\ Texts(output') = Texts(output)
  BY <1>1, NumberedNone, TextsNone, PrintsNothing
<1>3. StackOK'
  BY <1>1, StackStays
<1>4. IInv'
  BY <1>1, <1>2, <1>3, InvariantFacts, InvariantKept DEF Outcomes
<1>5. ASSUME ~misread'
      PROVE  Promise!Refuse
  <2>1. line.op = "else"
    BY <1>1, <1>5 DEF Noted, Confused
  <2>2. block \in BlockSet /\ block.depth = 1
    BY <1>1, BlockFacts DEF Live, BlockSet
  <2>3. Last(SideOf(block)) \in {"then", "over"}
    BY <1>1, <2>2, SideOfType
  <2>4. Last(Promise!top.sides) \in {"then", "over"}
    BY <1>1, <2>3, InnermostSide, PromiseFacts
  <2>5. Promise!Fails("error")
    BY <1>1, <1>2, PromiseFails
  <2>6. Promise!Reading /\ Promise!line = line
    BY <1>1, PromiseFacts
  <2>7. QED
    BY Zenon, <2>1, <2>4, <2>5, <2>6, PromiseEnds DEF Promise!Refuse
<1>6. QED
  BY <1>4, <1>5

LEMMA ElseKeeps ==
  ASSUME IInv, Else
  PROVE  IInv' /\ (misread' \/ Promise!Else)
<1> DEFINE new == [Last(Hinted) EXCEPT !.hasElse = TRUE, !.condition = ~Live]
           outer == Front(top.ifs)
           ifs == Append(outer, new)
           side == IF Live THEN "over" ELSE "then"
<1>1. /\ Reading /\ InBlock /\ Found = "else" /\ Noted /\ files' = files /\ Prints(<<>>)
      /\ ~Live => block.depth = 1
      /\ ~block.hasElse /\ outcome' = outcome /\ Onward(0, ifs)
      /\ symbols' = symbols /\ macros' = macros
  BY Zenon DEF Else, InLoop
<1>2. /\ output' \in Seq(PrintedSet) /\ OneMore' /\ Texts(output') = Texts(output)
  BY <1>1, NumberedNone, TextsNone, PrintsNothing
<1>3. /\ block \in BlockSet /\ block.depth = 1 /\ block.condition \in BOOLEAN
      /\ Live <=> block.condition
      /\ outer \in Seq(BlockSet) /\ outer \in BlocksSet /\ LiveIn(outer)
  BY <1>1, BlockFacts DEF Live, BlockSet
<1>4. new \in BlockSet /\ SideOf(new) = <<side>>
  <2> DEFINE hinted == Last(Hinted)
             goes == ~Live
  <2>1. hinted = [block EXCEPT !.hinted = @ \/ Live]
    BY <1>1, HintedFacts
  <2>2. hinted \in BlockSet /\ hinted.depth = 1
    BY <1>3, <2>1 DEF BlockSet
  <2>3. goes \in BOOLEAN /\ (goes <=> ~Live)
    BY DEF Live
  <2>4. new = [hinted EXCEPT !.hasElse = TRUE, !.condition = goes]
    OBVIOUS
  <2> HIDE DEF hinted, goes, new
  <2>5. new \in BlockSet
    BY <2>2, <2>3, <2>4 DEF BlockSet
  <2>6. new.depth = 1 /\ new.hasElse = TRUE /\ new.condition = goes
    BY <2>2, <2>4 DEF BlockSet
  <2>7. QED
    BY <2>3, <2>5, <2>6, SideOfType
<1> HIDE DEF new, outer
<1>5. ifs \in BlocksSet /\ Sides(ifs) = Sides(outer) \o <<side>>
  <2>1. ifs \in BlocksSet
    BY <1>3, <1>4, BlocksAppend
  <2>2. Sides(ifs) = Sides(outer) \o SideOf(new)
    BY <1>3, <1>4, SidesAppend
  <2>3. QED
    BY <1>4, <2>1, <2>2
<1> HIDE DEF ifs
<1>6. StackOK'
  BY <1>1, <1>5, OnwardKeeps
<1>7. IInv'
  BY <1>1, <1>2, <1>6, InvariantFacts, InvariantKept
<1>8. ASSUME ~misread'
      PROVE  Promise!Else
  <2>1. line.op = "else"
    BY <1>1, <1>8 DEF Noted, Confused
  <2>2. Last(SideOf(block)) = IF Live THEN "on" ELSE "off"
    BY <1>1, <1>3, SideOfType
  <2>3. /\ Promise!top.sides # <<>> /\ Last(Promise!top.sides) = Last(SideOf(block))
        /\ Front(Promise!top.sides) = Sides(outer)
    BY <1>1, <1>3, InnermostSide, PromiseFacts DEF outer
  <2> DEFINE was == Last(Promise!top.sides)
  <2>4. was \in {"on", "off", "dead"}
    BY <2>2, <2>3
  <2>5. side = CASE was = "on" -> "over" [] was = "off" -> "then" [] was = "dead" -> "dead"
    BY <2>2, <2>3
  <2>6. Promise!Behind(Promise!top.next + 1, Append(Front(Promise!top.sides), side))
    <3> DEFINE sides == Sides(outer)
    <3>1. sides \in Seq(SideNames) /\ side \in SideNames
      BY <1>3, SidesType DEF SideNames
    <3>2. Promise!Behind(Promise!top.next + 1, sides \o <<side>>)
      BY <1>1, <1>5, OnwardOne
    <3>3. Front(Promise!top.sides) = sides
      BY <2>3
    <3> HIDE DEF sides, side
    <3>4. Append(sides, side) = sides \o <<side>>
      BY <3>1, AppendIsConcat
    <3>5. Promise!Behind(Promise!top.next + 1, Append(sides, side))
      BY <3>2, <3>4
    <3>6. QED
      BY <3>3, <3>5
  <2>7. /\ Promise!Reading /\ Promise!line = line
        /\ Promise!Last(Promise!top.sides) = was
        /\ Promise!Front(Promise!top.sides) = Front(Promise!top.sides)
    BY <1>1, PromiseFacts, PromiseEnds
  <2> HIDE DEF side, was
  <2>8. Promise!Behind(Promise!top.next + 1, Append(Promise!Front(Promise!top.sides),
          CASE was = "on" -> "over" [] was = "off" -> "then" [] was = "dead" -> "dead"))
    BY <2>5, <2>6, <2>7
  <2>9. QED
    BY Zenon, <1>1, <1>2, <2>1, <2>3, <2>4, <2>7, <2>8 DEF Promise!Else
<1>9. QED
  BY <1>7, <1>8

LEMMA EndLiveKeeps ==
  ASSUME IInv, EndLive
  PROVE  IInv' /\ (misread' \/ Promise!EndBlock)
<1>1. /\ Reading /\ InBlock /\ Live /\ Found = "endif" /\ Noted /\ files' = files
      /\ Prints(<<>>) /\ outcome' = outcome /\ Onward(0, Front(top.ifs))
      /\ symbols' = symbols /\ macros' = macros
  BY Zenon DEF EndLive, InLoop
<1>2. /\ output' \in Seq(PrintedSet) /\ OneMore' /\ Texts(output') = Texts(output)
  BY <1>1, NumberedNone, TextsNone, PrintsNothing
<1>3. Front(top.ifs) \in BlocksSet /\ block.depth = 1
  BY <1>1, BlockFacts DEF Live, BlockSet
<1>4. StackOK'
  BY <1>1, <1>3, OnwardKeeps
<1>5. IInv'
  BY <1>1, <1>2, <1>4, InvariantFacts, InvariantKept
<1>6. ASSUME ~misread'
      PROVE  Promise!EndBlock
  <2>1. line.op = "endif"
    BY <1>1, <1>6 DEF Noted, Confused
  <2>2. Promise!top.sides # <<>> /\ Front(Promise!top.sides) = Sides(Front(top.ifs))
    BY <1>1, <1>3, InnermostSide, PromiseFacts
  <2>3. Promise!Behind(Promise!top.next + 1, Front(Promise!top.sides))
    BY <1>1, <1>3, <2>2, OnwardOne
  <2>4. /\ Promise!Reading /\ Promise!line = line
        /\ Promise!Front(Promise!top.sides) = Front(Promise!top.sides)
    BY <1>1, PromiseFacts, PromiseEnds
  <2>5. Promise!Behind(Promise!top.next + 1, Promise!Front(Promise!top.sides))
    BY <2>3, <2>4
  <2>6. QED
    BY Zenon, <1>1, <1>2, <2>1, <2>2, <2>4, <2>5 DEF Promise!EndBlock
<1>7. QED
  BY <1>5, <1>6

(* The side of a block in front of those its loop only counts.             *)
FirstSide(b) ==
  IF b.hasElse THEN IF b.condition THEN "then" ELSE "over"
  ELSE IF b.condition THEN "on" ELSE "off"

LEMMA SideOfAt ==
  ASSUME NEW b \in BlockSet
  PROVE  \A i \in 1 .. b.depth : SideOf(b)[i] = IF i = 1 THEN FirstSide(b) ELSE "dead"
<1> DEFINE first == FirstSide(b)
           one == <<first>>
           k == b.depth - 1
           dead == [n \in 1 .. k |-> "dead"]
<1>1. b.depth \in Nat \ {0}
  BY DEF BlockSet
<1>2. dead \in Seq(SideNames) /\ Len(dead) = k /\ \A i \in 1 .. k : dead[i] = "dead"
  <2>1. k \in Nat /\ dead = [i \in 1 .. k |-> dead[i]] /\ \A i \in 1 .. k : dead[i] \in SideNames
    BY <1>1 DEF SideNames
  <2>2. \A i \in 1 .. k : dead[i] = "dead"
    OBVIOUS
  <2> HIDE DEF k, dead
  <2>3. dead \in Seq(SideNames) /\ Len(dead) = k
    BY <2>1, MapSeq
  <2>4. QED
    BY <2>2, <2>3
<1>3. SideOf(b) = one \o dead
  BY Zenon DEF SideOf, FirstSide
<1>4. first \in SideNames
  BY Zenon DEF SideNames, FirstSide
<1> HIDE DEF first, dead, k
<1>5. one \in Seq(SideNames) /\ Len(one) = 1 /\ one[1] = first
  BY <1>4, SMT
<1> HIDE DEF one
<1>6. \A i \in 1 .. 1 + k : (one \o dead)[i] = IF i <= 1 THEN one[i] ELSE dead[i - 1]
  <2>1. \A i \in 1 .. Len(one) + Len(dead) :
          (one \o dead)[i] = IF i <= Len(one) THEN one[i] ELSE dead[i - Len(one)]
    BY <1>2, <1>5, ConcatProperties
  <2>2. QED
    BY <1>2, <1>5, <2>1
<1>7. k \in Nat /\ 1 + k = b.depth
  BY <1>1 DEF k
<1>8. \A i \in 1 .. 1 + k : (one \o dead)[i] = IF i = 1 THEN first ELSE "dead"
  <2> TAKE i \in 1 .. 1 + k
  <2>1. (one \o dead)[i] = IF i <= 1 THEN one[i] ELSE dead[i - 1]
    BY <1>6
  <2>2. CASE i = 1
    BY <1>5, <2>1, <2>2
  <2>3. CASE i # 1
    <3>1. i - 1 \in 1 .. k /\ ~(i <= 1)
      BY <1>7, <2>3
    <3>2. QED
      BY <1>2, <2>1, <2>3, <3>1
  <2>4. QED
    BY <2>2, <2>3
<1>9. QED
  BY <1>3, <1>7, <1>8 DEF first

LEMMA ConcatAppend ==
  ASSUME NEW S, NEW s \in Seq(S), NEW t \in Seq(S), NEW e \in S
  PROVE  s \o Append(t, e) = Append(s \o t, e)
<1> DEFINE one == <<e>>
<1>1. one \in Seq(S)
  OBVIOUS
<1>2. Append(t, e) = t \o one
  BY AppendIsConcat
<1>3. s \o t \in Seq(S)
  BY ConcatProperties
<1> DEFINE u == s \o t
<1>4. u \in Seq(S)
  BY <1>3
<1> HIDE DEF one, u
<1>5. Append(u, e) = u \o one
  BY <1>4, AppendIsConcat DEF one
<1>6. s \o (t \o one) = (s \o t) \o one
  BY <1>1, ConcatAssociative
<1>7. QED
  BY <1>2, <1>5, <1>6 DEF u

(* A loop that counts one more block has one more dead side around it.     *)
LEMMA DeeperSides ==
  ASSUME NEW ifs \in Seq(BlockSet), NEW b \in BlockSet, NEW c \in BlockSet,
         c.depth = b.depth + 1, FirstSide(c) = FirstSide(b)
  PROVE  Sides(Append(ifs, c)) = Append(Sides(Append(ifs, b)), "dead")
<1> DEFINE u == SideOf(b)
           v == SideOf(c)
           n == b.depth
           d == "dead"
           w == Append(u, d)
<1>1. /\ u \in Seq(SideNames) /\ Len(u) = n /\ n \in Nat \ {0}
      /\ v \in Seq(SideNames) /\ Len(v) = n + 1
      /\ d \in SideNames
  BY SideOfType DEF BlockSet, SideNames
<1>2. /\ \A i \in 1 .. n : u[i] = IF i = 1 THEN FirstSide(b) ELSE d
      /\ \A i \in 1 .. n + 1 : v[i] = IF i = 1 THEN FirstSide(b) ELSE d
  BY SideOfAt
<1> HIDE DEF u, v, n, d
<1>3. /\ w \in Seq(SideNames) /\ Len(w) = Len(u) + 1
      /\ \A i \in 1 .. Len(u) : w[i] = u[i]
      /\ w[Len(u) + 1] = d
  BY <1>1, AppendProperties
<1>4. Len(w) = n + 1 /\ (\A i \in 1 .. n : w[i] = u[i]) /\ w[n + 1] = d
  BY <1>1, <1>3
<1> HIDE DEF w
<1>5. ASSUME NEW i \in 1 .. n + 1
      PROVE  v[i] = w[i]
  <2>1. CASE i = n + 1
    BY <1>1, <1>2, <1>4, <2>1
  <2>2. CASE i # n + 1
    <3>1. i \in 1 .. n
      BY <1>1, <2>2
    <3>2. QED
      BY <1>2, <1>4, <3>1
  <2>3. QED
    BY <2>1, <2>2
<1>6. v = w
  BY <1>1, <1>3, <1>4, <1>5, SeqEqual
<1>7. Sides(Append(ifs, c)) = Sides(ifs) \o v /\ Sides(Append(ifs, b)) = Sides(ifs) \o u
  BY SidesAppend DEF u, v
<1>8. Sides(ifs) \in Seq(SideNames)
  BY SidesType
<1> DEFINE s == Sides(ifs)
<1>9. s \o Append(u, d) = Append(s \o u, d)
  <2> HIDE DEF s
  <2>1. s \in Seq(SideNames)
    BY <1>8 DEF s
  <2>2. QED
    BY <1>1, <2>1, ConcatAppend
<1>10. QED
  BY <1>6, <1>7, <1>9 DEF w, d

LEMMA SkipKeeps ==
  ASSUME IInv, Skip
  PROVE  IInv' /\ (misread' \/ Promise!Else \/ Promise!EndBlock \/ Promise!PassOver)
<1> DEFINE found == Found
           deep == Depth(found)
           outer == Front(top.ifs)
           new == [block EXCEPT !.depth = deep]
           ifs == IF deep = 0 THEN outer ELSE Append(outer, new)
           sides == Promise!top.sides
<1>1. /\ Reading /\ InBlock /\ ~Live /\ Noted /\ files' = files /\ Prints(<<>>)
      /\ Found = "else" => block.depth > 1
      /\ outcome' = outcome /\ Onward(0, ifs)
      /\ symbols' = symbols /\ macros' = macros
  BY Zenon DEF Skip, InLoop
<1>2. /\ output' \in Seq(PrintedSet) /\ OneMore' /\ Texts(output') = Texts(output)
  BY <1>1, NumberedNone, TextsNone, PrintsNothing
<1>3. /\ block \in BlockSet /\ ~block.condition /\ block.depth \in Nat \ {0}
      /\ outer \in Seq(BlockSet) /\ outer \in BlocksSet /\ LiveIn(outer)
      /\ top.ifs = Append(outer, block)
  BY <1>1, BlockFacts DEF Live, BlockSet
<1>4. /\ found \in {"ifdef", "ifndef"} => deep = block.depth + 1
      /\ found = "endif" => deep = block.depth - 1
      /\ found \notin {"ifdef", "ifndef", "endif"} => deep = block.depth
  BY DEF Depth
<1>5. deep \in Nat
  BY <1>3, <1>4
<1> HIDE DEF deep
<1>6. deep # 0 => /\ new \in BlockSet /\ new.depth = deep
                  /\ FirstSide(new) = FirstSide(block)
  <2> HAVE deep # 0
  <2>1. new \in BlockSet
    BY <1>3, <1>5 DEF BlockSet
  <2>2. /\ new.depth = deep /\ new.hasElse = block.hasElse
        /\ new.condition = block.condition
    BY <1>3 DEF BlockSet
  <2>3. QED
    BY <2>1, <2>2 DEF FirstSide
<1>7. deep = block.depth => new = block
  BY <1>3 DEF BlockSet
<1> HIDE DEF new, outer
<1>8. ifs \in BlocksSet /\ ifs \in Seq(BlockSet)
  <2>1. ifs \in BlocksSet
    BY <1>3, <1>6, BlocksAppend
  <2>2. QED
    BY <2>1 DEF BlocksSet
<1> HIDE DEF ifs
<1>9. StackOK'
  BY <1>1, <1>8, OnwardKeeps
<1>10. IInv'
  BY <1>1, <1>2, <1>9, InvariantFacts, InvariantKept
<1>11. Promise!Behind(Promise!top.next + 1, Sides(ifs))
  BY <1>1, <1>8, OnwardOne
<1>12. /\ Promise!Reading /\ ~Promise!Counts /\ Promise!line = line
       /\ Promise!Conditions = Conditions
       /\ sides = Sides(top.ifs) /\ sides # <<>> /\ sides \in Seq(SideNames)
       /\ Promise!Last(sides) = Last(sides) /\ Promise!Front(sides) = Front(sides)
  <2>1. /\ Promise!Reading /\ ~Promise!Counts /\ Promise!line = line
        /\ Promise!Conditions = Conditions /\ sides = Sides(top.ifs)
    BY <1>1, PromiseFacts, PromiseMeaning
  <2>2. Sides(top.ifs) # <<>> /\ Sides(top.ifs) \in Seq(SideNames)
    BY <1>1, InnermostSide, SidesType, TopFacts DEF CallSet, BlocksSet
  <2>3. QED
    BY <2>1, <2>2, PromiseEnds
<1> HIDE DEF sides
<1>13. ASSUME ~misread'
       PROVE  Promise!Else \/ Promise!EndBlock \/ Promise!PassOver
  <2>1. line.op = found /\ found # "if"
    BY <1>1, <1>13 DEF Noted, Confused
  <2> HIDE DEF found
  <2>2. CASE found \in {"ifdef", "ifndef"}
    <3>1. deep = block.depth + 1 /\ deep # 0
      BY <1>3, <1>4, <2>2
    <3>2. ifs = Append(outer, new)
      BY <3>1 DEF ifs
    <3>3. Sides(ifs) = Append(sides, "dead")
      BY <1>3, <1>6, <1>12, <3>1, <3>2, DeeperSides
    <3>4. found \in Conditions /\ found \notin {"else", "endif"}
      BY <2>2 DEF Conditions
    <3>5. Promise!PassOver
      <4>1. Promise!Behind(Promise!top.next + 1, Append(sides, "dead"))
        BY <1>11, <3>3
      <4>2. QED
        BY Zenon, <1>1, <1>2, <1>12, <2>1, <3>4, <4>1 DEF Promise!PassOver, sides
    <3>6. QED
      BY <3>5
  <2>3. CASE found = "endif"
    <3>1. Sides(ifs) = Front(sides)
      <4>1. CASE deep = 0
        <5>1. block.depth = 1 /\ ifs = outer
          BY <1>3, <1>4, <2>3, <4>1 DEF ifs
        <5>2. QED
          BY <1>1, <1>12, <5>1, InnermostSide DEF outer
      <4>2. CASE deep # 0
        <5>1. block.depth = deep + 1 /\ ifs = Append(outer, new)
          BY <1>3, <1>4, <2>3, <4>2 DEF ifs
        <5>2. Sides(top.ifs) = Append(Sides(ifs), "dead")
          BY <1>3, <1>6, <4>2, <5>1, DeeperSides
        <5>3. Sides(ifs) \in Seq(SideNames) /\ "dead" \in SideNames
          BY <1>8, SidesType DEF SideNames
        <5>4. Front(Append(Sides(ifs), "dead")) = Sides(ifs)
          BY <5>3, FrontAppend
        <5>5. QED
          BY <1>12, <5>2, <5>4
      <4>3. QED
        BY <4>1, <4>2
    <3>2. Promise!Behind(Promise!top.next + 1, Promise!Front(sides))
      BY <1>11, <1>12, <3>1
    <3>3. Promise!EndBlock
      BY Zenon, <1>1, <1>2, <1>12, <2>1, <2>3, <3>2 DEF Promise!EndBlock, sides
    <3>4. QED
      BY <3>3
  <2>4. CASE found \notin {"ifdef", "ifndef", "endif"}
    <3>1. deep = block.depth /\ deep # 0
      BY <1>3, <1>4, <2>4
    <3>2. ifs = top.ifs
      BY <1>3, <1>7, <3>1 DEF ifs
    <3>3. Promise!Behind(Promise!top.next + 1, sides)
      BY <1>11, <1>12, <3>2
    <3>4. CASE found = "else"
      <4>1. block.depth > 1
        BY <1>1, <3>4 DEF found
      <4>2. Last(sides) = "dead"
        BY <1>1, <1>3, <1>12, <4>1, InnermostSide, SideOfType
      <4>3. sides = Append(Front(sides), "dead")
        <5>1. sides = Append(Front(sides), Last(sides))
          BY <1>12, FrontLast
        <5>2. QED
          BY <4>2, <5>1
      <4>4. Promise!Behind(Promise!top.next + 1, Append(Promise!Front(sides), "dead"))
        BY <1>12, <3>3, <4>3
      <4>5. "dead" = CASE "dead" = "on" -> "over" [] "dead" = "off" -> "then"
                       [] "dead" = "dead" -> "dead"
        OBVIOUS
      <4> DEFINE was == Promise!Last(sides)
      <4>6. was = "dead" /\ was \in {"on", "off", "dead"}
        BY <1>12, <4>2
      <4> HIDE DEF was
      <4>7. Promise!Behind(Promise!top.next + 1, Append(Promise!Front(sides),
              CASE was = "on" -> "over" [] was = "off" -> "then" [] was = "dead" -> "dead"))
        BY <4>4, <4>5, <4>6
      <4>8. Promise!Else
        BY Zenon, <1>1, <1>2, <1>12, <2>1, <3>4, <4>6, <4>7 DEF Promise!Else, sides, was
      <4>9. QED
        BY <4>8
    <3>5. CASE found # "else"
      <4>1. found \notin Conditions /\ found \notin {"else", "endif"}
        BY <2>1, <2>4, <3>5 DEF Conditions
      <4>2. Promise!PassOver
        BY Zenon, <1>1, <1>2, <1>12, <2>1, <3>3, <4>1 DEF Promise!PassOver, sides
      <4>3. QED
        BY <4>2
    <3>6. QED
      BY <3>4, <3>5
  <2>5. QED
    BY <2>2, <2>3, <2>4
<1>14. QED
  BY <1>10, <1>13
-----------------------------------------------------------------------------
(* The end of a file. *)
LEMMA ReturnKeeps ==
  ASSUME IInv, EndOfFile, Len(stack) # 1
  PROVE  IInv' /\ Promise!EndOfFile
<1> DEFINE n == Len(stack) - 1
           above == stack[n]
           call == [above EXCEPT !.line_no = IF above.ifs = <<>> THEN @ + 1 ELSE @]
           below == SubSeq(stack, 1, n - 1)
           said == FileLine(above.name, above.line_no + 1, above.next - 1, FALSE)
           u == Append(below, call)
<1>1. /\ outcome = "running" /\ top.next > Len(source)
      /\ stack' = u /\ output' = output \o <<said>> /\ outcome' = outcome
      /\ files' = files /\ symbols' = symbols /\ macros' = macros /\ misread' = misread
  <2>1. Len(stack) - 1 - 1 = Len(stack) - 2
    BY TopFacts DEF IInv, TypeOK
  <2>2. QED
    BY Zenon, <2>1 DEF EndOfFile, Resumed
<1>2. /\ n \in Nat \ {0} /\ n + 1 = Len(stack) /\ n + 1 \in 1 .. OpenMax /\ OpenMax \in Nat
      /\ stack \in Seq(CallSet)
  BY MacrosAssumption DEF IInv, TypeOK
<1>3. /\ above \in CallSet /\ above.name \in DOMAIN files /\ above.name \in STRING
      /\ above.line_no + 1 = above.next
      /\ above.line_no \in Nat \ {0} /\ above.next \in Nat \ {0}
  <2>1. n \in 1 .. Len(stack) /\ n < Len(stack)
    BY <1>2
  <2>2. above \in CallSet /\ above.name \in DOMAIN files /\ above.line_no + 1 = above.next
    BY <2>1, <1>2, ElementOfSeq DEF IInv, TypeOK, Counted
  <2>3. QED
    BY <2>2 DEF CallSet
<1>4. NumberedLines(<<said>>) /\ Texts(<<said>>) = <<>>
  <2> DEFINE at == above.next - 1
             name == above.name
             number == above.line_no + 1
  <2>1. said = FileLine(name, number, at, FALSE)
    OBVIOUS
  <2>2. at \in Nat /\ name \in STRING /\ number = at + 1
    BY <1>3
  <2> HIDE DEF at, name, said, number
  <2>3. QED
    BY <2>1, <2>2, NumberedFileLine, TextsOfFileLine
<1> HIDE DEF said
<1>5. /\ output' \in Seq(PrintedSet) /\ OneMore' /\ Texts(output') = Texts(output)
  <2>1. NumberedLines(output)
    BY InvariantFacts, LenProperties DEF OneMore, NumberedLines
  <2>2. NumberedLines(output')
    BY <1>1, <1>4, <2>1, NumberedConcat
  <2>3. Texts(output') = Texts(output) \o <<>> /\ Texts(output) \in Seq(LineSet)
    BY <1>1, <1>4, <2>1, TextsConcat DEF NumberedLines
  <2>4. QED
    BY <2>2, <2>3, LenProperties, ConcatEmptySeq DEF NumberedLines, OneMore
<1>6. /\ call \in CallSet /\ call.name = above.name /\ CallCounts(call, FALSE)
      /\ View(call) = View(above)
  <2> DEFINE k == IF above.ifs = <<>> THEN above.line_no + 1 ELSE above.line_no
  <2>1. k \in Nat \ {0}
    BY <1>3
  <2>2. call = [above EXCEPT !.line_no = k]
    OBVIOUS
  <2>3. /\ call.name = above.name /\ call.next = above.next /\ call.ifs = above.ifs
        /\ call.line_no = k
    BY <1>3, <2>2 DEF CallSet
  <2>4. CASE above.ifs = <<>>
    <3>1. k = above.line_no + 1
      BY <2>4
    <3>2. CallCounts(call, FALSE)
      BY <1>3, <2>3, <2>4, <3>1 DEF CallCounts
    <3>3. call \in CallSet
      BY <1>3, <2>1, <2>2 DEF CallSet
    <3>4. QED
      BY <2>3, <3>2, <3>3 DEF View
  <2>5. CASE above.ifs # <<>>
    <3>1. k = above.line_no
      BY <2>5
    <3>2. CallCounts(call, FALSE)
      BY <1>3, <2>3, <2>5, <3>1 DEF CallCounts
    <3>3. call \in CallSet
      BY <1>3, <2>1, <2>2 DEF CallSet
    <3>4. QED
      BY <2>3, <3>2, <3>3 DEF View
  <2>6. QED
    BY <2>4, <2>5
<1> HIDE DEF call
<1>7. /\ below \in Seq(CallSet) /\ Len(below) = n - 1
      /\ \A d \in 1 .. n - 1 : below[d] = stack[d]
  <2> DEFINE m == n - 1
  <2>1. m \in Nat /\ m <= Len(stack)
    BY <1>2
  <2>2. \A d \in 1 .. m : stack[d] \in CallSet
    BY <1>2, <2>1, ElementOfSeq
  <2> HIDE DEF m
  <2>3. /\ SubSeq(stack, 1, m) \in Seq(CallSet)
        /\ Len(SubSeq(stack, 1, m)) = m
        /\ \A d \in 1 .. m : SubSeq(stack, 1, m)[d] = stack[d]
    <3>1. /\ SubSeq(stack, 1, m) \in Seq(CallSet)
          /\ Len(SubSeq(stack, 1, m)) = IF 1 <= m THEN m - 1 + 1 ELSE 0
          /\ \A d \in 1 .. m - 1 + 1 : SubSeq(stack, 1, m)[d] = stack[1 + d - 1]
      BY <1>2, <2>1, <2>2, SubSeqProperties
    <3>2. QED
      BY <2>1, <3>1
  <2>4. QED
    BY <2>3 DEF m
<1> HIDE DEF below
<1>8. /\ u \in Seq(CallSet) /\ Len(u) = n
      /\ \A d \in 1 .. n - 1 : u[d] = stack[d]
      /\ u[n] = call
  <2>1. /\ u \in Seq(CallSet) /\ Len(u) = Len(below) + 1
        /\ \A d \in 1 .. Len(below) : u[d] = below[d]
        /\ u[Len(below) + 1] = call
    BY <1>6, <1>7, AppendProperties
  <2> HIDE DEF u
  <2>2. Len(below) + 1 = n
    BY <1>2, <1>7
  <2>3. QED
    BY <1>7, <2>1, <2>2
<1> HIDE DEF n, u
<1>9. StackOK'
  <2>1. \A d \in 1 .. n : u[d].name \in DOMAIN files
    <3> TAKE d \in 1 .. n
    <3>1. CASE d = n
      BY <1>3, <1>6, <1>8, <3>1
    <3>2. CASE d # n
      <4>1. u[d] = stack[d] /\ d \in 1 .. Len(stack)
        BY <1>2, <1>8, <3>2
      <4>2. QED
        BY <4>1 DEF IInv, TypeOK
    <3>3. QED
      BY <3>1, <3>2
  <2>2. Counted'
    <3> SUFFICES ASSUME NEW d \in 1 .. n
                 PROVE  u[d].line_no + (IF d < n \/ u[d].ifs # <<>> THEN 1 ELSE 0) = u[d].next
      BY <1>1, <1>8 DEF Counted
    <3>1. CASE d = n
      BY <1>2, <1>6, <1>8, <3>1 DEF CallCounts
    <3>2. CASE d # n
      <4>1. u[d] = stack[d] /\ d \in 1 .. Len(stack) /\ d < n /\ d < Len(stack)
        BY <1>2, <1>8, <3>2
      <4>2. QED
        BY <4>1 DEF IInv, Counted
    <3>3. QED
      BY <3>1, <3>2
  <2>3. QED
    BY <1>1, <1>2, <1>8, <2>1, <2>2 DEF StackOK
<1>10. IInv'
  BY <1>1, <1>5, <1>9, InvariantFacts, InvariantKept
<1>11. Views(stack') = Front(Views(stack))
  <2>1. /\ Views(u) \in Seq(ViewSet) /\ Len(Views(u)) = n
        /\ \A d \in 1 .. n : Views(u)[d] = View(u[d])
    BY <1>8, ViewsType
  <2>2. /\ Front(Views(stack)) = Views(Front(stack))
        /\ Front(stack) \in Seq(CallSet) /\ Len(Front(stack)) = n
        /\ \A d \in 1 .. n : Front(stack)[d] = stack[d]
    BY ViewsTop, TopFacts DEF n
  <2>3. /\ Views(Front(stack)) \in Seq(ViewSet) /\ Len(Views(Front(stack))) = n
        /\ \A d \in 1 .. n : Views(Front(stack))[d] = View(Front(stack)[d])
    BY <2>2, ViewsType
  <2>4. \A d \in 1 .. n : View(u[d]) = View(stack[d])
    <3> TAKE d \in 1 .. n
    <3>1. CASE d = n
      BY <1>6, <1>8, <3>1
    <3>2. CASE d # n
      BY <1>2, <1>8, <3>2
    <3>3. QED
      BY <3>1, <3>2
  <2>5. Views(u) = Views(Front(stack))
    <3> DEFINE a == Views(u)
               b == Views(Front(stack))
    <3>1. /\ a \in Seq(ViewSet) /\ b \in Seq(ViewSet) /\ Len(a) = n /\ Len(b) = n
          /\ \A d \in 1 .. n : a[d] = b[d]
      BY <2>1, <2>2, <2>3, <2>4
    <3> HIDE DEF a, b
    <3>2. a = b
      BY <3>1, SeqEqual
    <3>3. QED
      BY <3>2 DEF a, b
  <2>6. QED
    BY <1>1, <2>2, <2>5
<1>12. /\ Promise!top.next > Len(Promise!source) /\ Len(Views(stack)) # 1
  BY <1>1, PromiseFacts, ViewsTop
<1>13. Promise!EndOfFile
  BY Zenon, <1>1, <1>5, <1>11, <1>12, PromiseEnds DEF Promise!EndOfFile, Views
<1>14. QED
  BY <1>10, <1>13

LEMMA DoneKeeps ==
  ASSUME IInv, EndOfFile, Len(stack) = 1
  PROVE  IInv' /\ Promise!EndOfFile
<1>1. /\ outcome = "running" /\ top.next > Len(source)
      /\ outcome' = "done" /\ stack' = stack /\ output' = output
      /\ files' = files /\ symbols' = symbols /\ macros' = macros /\ misread' = misread
  BY Zenon DEF EndOfFile, LastRead
<1>2. StackOK' /\ OneMore'
  BY <1>1, StackStays, InvariantFacts DEF OneMore
<1>3. IInv'
  BY <1>1, <1>2, InvariantFacts, InvariantKept DEF Outcomes
<1>4. Promise!top.next > Len(Promise!source) /\ Len(Views(stack)) = 1
  BY <1>1, PromiseFacts, ViewsTop
<1>5. Texts(output') = Texts(output) /\ Views(stack') = Views(stack)
  BY <1>1
<1>6. Promise!EndOfFile
  BY Zenon, <1>1, <1>4, <1>5 DEF Promise!EndOfFile, Views
<1>7. QED
  BY <1>3, <1>6
-----------------------------------------------------------------------------
LEMMA Stutters ==
  ASSUME IInv, UNCHANGED vars
  PROVE  IInv' /\ UNCHANGED Promise!vars
<1>1. /\ files' = files /\ stack' = stack /\ symbols' = symbols /\ macros' = macros
      /\ output' = output /\ outcome' = outcome /\ misread' = misread
  BY DEF vars
<1>2. StackOK' /\ OneMore'
  BY <1>1, StackStays, InvariantFacts DEF OneMore
<1>3. IInv'
  BY <1>1, <1>2, InvariantFacts, InvariantKept
<1>4. UNCHANGED Promise!vars
  BY <1>1 DEF Promise!vars
<1>5. QED
  BY <1>3, <1>4

LEMMA Initially ==
  ASSUME Init
  PROVE  IInv /\ Promise!Start
<1>1. /\ files \in Files /\ Main \in DOMAIN files /\ Main \in STRING
      /\ \A name \in DOMAIN files : files[name] \in Seq(LineSet)
  BY MacrosAssumption DEF Init
<1>2. Input(Main) \in CallSet /\ View(Input(Main)) = Promise!Begin(Main)
  BY <1>1, NoBlocks, SidesNone DEF CallSet, Input, View, Promise!Begin
<1> DEFINE first == Input(Main)
           said == FileLine(Main, 0 + 1, 0, FALSE)
<1>3. stack = <<first>> /\ output = <<said>>
  BY DEF Init
<1>4. NumberedLines(<<said>>) /\ Texts(<<said>>) = <<>>
  BY <1>1, NumberedFileLine, TextsOfFileLine
<1>5. first.line_no + (IF first.ifs # <<>> THEN 1 ELSE 0) = first.next /\ first.name = Main
  BY DEF Input
<1> HIDE DEF first, said
<1>6. stack \in Seq(CallSet) /\ Len(stack) = 1 /\ stack[1] = first
  BY <1>2, <1>3 DEF first
<1>7. Counted
  BY <1>5, <1>6 DEF Counted
<1>8. TypeOK
  <2>1. Len(stack) \in 1 .. OpenMax
    BY <1>6, MacrosAssumption
  <2>2. \A d \in 1 .. Len(stack) : stack[d].name \in DOMAIN files
    BY <1>1, <1>5, <1>6
  <2>3. output \in Seq(PrintedSet)
    BY <1>3, <1>4 DEF NumberedLines
  <2>4. /\ \A s \in DOMAIN symbols : symbols[s] \in STRING
        /\ \A k \in DOMAIN macros : macros[k] \in Seq(LineSet)
        /\ outcome \in {"running", "done", "error", "aborted"} /\ misread \in BOOLEAN
    BY DEF Init
  <2>5. QED
    BY Zenon, <1>1, <1>6, <2>1, <2>2, <2>3, <2>4 DEF TypeOK
<1>9. OneMore
  BY <1>3, <1>4, LenProperties DEF NumberedLines, OneMore
<1>10. Views(stack) = <<Promise!Begin(Main)>>
  <2>1. DOMAIN stack = 1 .. 1
    BY <1>6, LenProperties
  <2>2. Views(stack) = [n \in 1 .. 1 |-> View(stack[n])]
    BY <2>1 DEF Views
  <2>3. [n \in 1 .. 1 |-> View(stack[n])] = <<View(stack[1])>>
    OBVIOUS
  <2>4. QED
    BY <1>2, <1>6, <2>2, <2>3 DEF first
<1>11. Promise!Start
  BY Zenon, <1>3, <1>4, <1>10 DEF Promise!Start, Init, Views
<1>12. QED
  BY <1>1, <1>7, <1>8, <1>9, <1>11 DEF IInv

LEMMA EveryStep ==
  ASSUME IInv, Next
  PROVE  IInv' /\ (misread' \/ Promise!Next \/ UNCHANGED Promise!vars)
<1>1. CASE Pass
  BY <1>1, PassKeeps DEF Promise!Next
<1>2. CASE ParseInstruction
  BY <1>2, ParseInstructionKeeps DEF Promise!Next
<1>3. CASE Define
  BY <1>3, DefineKeeps DEF Promise!Next
<1>4. CASE DefineMacro
  BY <1>4, DefineMacroKeeps DEF Promise!Next
<1>5. CASE OpenBlock
  BY <1>5, OpenBlockKeeps DEF Promise!Next
<1>6. CASE Include
  BY <1>6, IncludeKeeps DEF Promise!Next
<1>7. CASE Throw
  BY <1>7, ThrowKeeps DEF Promise!Next
<1>8. CASE ElseAgain
  BY <1>8, ElseAgainKeeps DEF Promise!Next
<1>9. CASE Else
  BY <1>9, ElseKeeps DEF Promise!Next
<1>10. CASE EndLive
  BY <1>10, EndLiveKeeps DEF Promise!Next
<1>11. CASE Skip
  BY <1>11, SkipKeeps DEF Promise!Next
<1>12. CASE EndOfFile
  BY <1>12, ReturnKeeps, DoneKeeps DEF Promise!Next
<1>13. CASE Ended
  BY <1>13, Stutters DEF Ended
<1>14. QED
  BY Zenon, <1>1, <1>2, <1>3, <1>4, <1>5, <1>6, <1>7, <1>8, <1>9, <1>10, <1>11, <1>12, <1>13
     DEF Next

(* The invariant that the theorems below rest on: the types, the files are *)
(* not changed, and line_no is one off in a block and in a file that waits *)
(* for the one it includes.                                                *)
THEOREM Invariant == Spec => []IInv
<1>1. Init => IInv
  BY Initially
<1>2. IInv /\ [Next]_vars => IInv'
  BY EveryStep, Stutters
<1>3. QED
  BY <1>1, <1>2, PTL DEF Spec

(* Whatever the files say, the preprocessor's state stays well formed: at  *)
(* least one and at most OpenMax files are open, every file on the stack   *)
(* is readable, a block whose lines count is not skipping others, and all  *)
(* blocks around another one are on their true side.                       *)
THEOREM TypeCorrect == Spec => []TypeOK
<1>1. IInv => TypeOK
  BY DEF IInv
<1>2. QED
  BY <1>1, Invariant, PTL

(* line_no, counted in two loops and handed from one to the other, never   *)
(* drifts from the line that is read, however files, blocks and macros are *)
(* nested, and a .file line that does not begin a block says the number of *)
(* the next line, from which prtasm counts on.                             *)
THEOREM LinesNumbered == Spec => []Numbered
<1>1. IInv => Numbered
  BY DEF IInv, OneMore, Numbered
<1>2. QED
  BY <1>1, Invariant, PTL

(* The loops that count and call each other implement the promise: a line  *)
(* comes out, expanded with what is defined by then, if and only if every  *)
(* block around it is on its true side, and the preprocessor stops on the  *)
(* same mistakes, as long as no block misreads a line.                     *)
THEOREM SelectsRightly == Spec => Selects
<1>1. Init => IInv /\ Promise!Start
  BY Initially
<1>2. IInv /\ [Next]_vars => IInv' /\ [misread' \/ Promise!Next]_(Promise!vars)
  <2> SUFFICES ASSUME IInv, [Next]_vars
               PROVE  IInv' /\ [misread' \/ Promise!Next]_(Promise!vars)
    OBVIOUS
  <2>1. CASE Next
    BY <2>1, EveryStep
  <2>2. CASE UNCHANGED vars
    BY <2>2, Stutters
  <2>3. QED
    BY <2>1, <2>2
<1>3. QED
  BY <1>1, <1>2, PTL DEF Spec, Selects
-----------------------------------------------------------------------------
(* The .file line that holds at a line of the output. *)
FileAt(out, m, n) ==
  /\ m \in 1 .. n /\ out[m].kind = "file"
  /\ \A o \in m + 1 .. n : out[o].kind # "file"

SinceIn(out, n) == CHOOSE m \in 1 .. n :
                     /\ out[m].kind = "file"
                     /\ \A o \in m + 1 .. n : out[o].kind # "file"

Started(out) == out \in Seq(PrintedSet) /\ out # <<>> /\ out[1].kind = "file"

LEMMA OnlyOne ==
  ASSUME NEW out, NEW n \in Nat, NEW m \in 1 .. n, NEW l \in 1 .. n,
         FileAt(out, m, n), FileAt(out, l, n)
  PROVE  l = m
<1>1. /\ out[m].kind = "file" /\ \A o \in m + 1 .. n : out[o].kind # "file"
      /\ out[l].kind = "file" /\ \A o \in l + 1 .. n : out[o].kind # "file"
  BY DEF FileAt
<1>2. l \notin m + 1 .. n /\ m \notin l + 1 .. n
  BY <1>1
<1>3. QED
  BY <1>2

LEMMA SinceIs ==
  ASSUME NEW out, NEW n \in Nat, NEW m, FileAt(out, m, n)
  PROVE  SinceIn(out, n) = m
<1> DEFINE s == SinceIn(out, n)
<1>1. m \in 1 .. n
  BY DEF FileAt
<1>2. s \in 1 .. n /\ FileAt(out, s, n)
  BY DEF SinceIn, FileAt
<1> HIDE DEF s
<1>3. QED
  BY <1>1, <1>2, OnlyOne DEF s

LEMMA SinceExists ==
  ASSUME NEW out, Started(out), NEW n \in 1 .. Len(out)
  PROVE  FileAt(out, SinceIn(out, n), n) /\ SinceIn(out, n) \in Nat
<1> DEFINE D == {d \in 0 .. n - 1 : out[n - d].kind = "file"}
<1>1. n \in Nat \ {0} /\ Len(out) \in Nat /\ out[1].kind = "file"
  BY LenProperties DEF Started
<1>2. D \subseteq Nat /\ n - 1 \in D
  <2>1. n - 1 \in 0 .. n - 1 /\ n - (n - 1) = 1 /\ 0 .. n - 1 \subseteq Nat
    BY <1>1
  <2>2. QED
    BY <1>1, <2>1
<1>3. PICK d \in D : \A e \in D : d <= e
  BY <1>2, Least
<1> DEFINE m == n - d
<1>4. d \in 0 .. n - 1 /\ out[m].kind = "file" /\ m \in 1 .. n
  BY <1>1, <1>3
<1>5. ASSUME NEW o \in m + 1 .. n, out[o].kind = "file"
      PROVE  FALSE
  <2>1. n - o \in 0 .. n - 1 /\ n - (n - o) = o /\ ~(d <= n - o)
    BY <1>1, <1>4, <1>5
  <2>2. n - o \in D
    BY <1>5, <2>1
  <2>3. QED
    BY <1>3, <2>1, <2>2
<1>6. FileAt(out, m, n)
  BY <1>4, <1>5 DEF FileAt
<1>7. SinceIn(out, n) = m
  BY <1>1, <1>6, SinceIs
<1>8. QED
  BY <1>1, <1>4, <1>6, <1>7

(* What Attribution says of one line, and where prtasm believes the next   *)
(* line to come from, of which line next of the file name is read.         *)
From(o) == o.at + (IF o.hint THEN 0 ELSE 1)

AttributedAt(out, fs, n) ==
  LET o == out[n]
      s == SinceIn(out, n)
      m == out[s]
      e == m.n + n - s - 1
  IN  o.kind = "line" =>
        /\ m.name = o.name
        /\ e <= o.at + o.k + 1
        /\ (\A p \in From(m) .. o.at - 1 : ~Silent(fs[o.name][p])) =>
             e = o.at + o.k + IF m.hint THEN 1 ELSE 0

Attributed(out, fs) == \A n \in 1 .. Len(out) : AttributedAt(out, fs, n)

Heading(out, fs, name, next, live) ==
  LET s == SinceIn(out, Len(out))
      m == out[s]
      e == m.n + Len(out) - s
  IN  /\ m.name = name /\ From(m) <= next /\ e <= next + 1
      /\ (\A p \in From(m) .. next - 1 : ~Silent(fs[name][p])) =>
           live /\ e = next + IF m.hint THEN 1 ELSE 0

LEMMA Extended ==
  ASSUME NEW out, NEW t \in Seq(PrintedSet), Started(out), NEW fs, Attributed(out, fs)
  PROVE  /\ Started(out \o t) /\ Len(out \o t) = Len(out) + Len(t)
         /\ Len(out) \in Nat \ {0} /\ Len(t) \in Nat
         /\ \A i \in 1 .. Len(out) : (out \o t)[i] = out[i]
         /\ \A i \in 1 .. Len(t) : (out \o t)[Len(out) + i] = t[i]
         /\ \A i \in 1 .. Len(out) : AttributedAt(out \o t, fs, i)
<1> DEFINE new == out \o t
           a == Len(out)
           b == Len(t)
<1>1. out \in Seq(PrintedSet) /\ out # <<>> /\ out[1].kind = "file"
  BY DEF Started
<1>2. a \in Nat \ {0} /\ b \in Nat
  BY <1>1, LenProperties, EmptySeq
<1>3. /\ new \in Seq(PrintedSet) /\ Len(new) = a + b
      /\ \A i \in 1 .. a + b : new[i] = IF i <= a THEN out[i] ELSE t[i - a]
  BY <1>1, ConcatProperties
<1> HIDE DEF new
<1>4. \A i \in 1 .. a : new[i] = out[i]
  <2> TAKE i \in 1 .. a
  <2>1. i \in 1 .. a + b /\ i <= a
    BY <1>2
  <2>2. QED
    BY <1>3, <2>1
<1>5. \A i \in 1 .. b : new[a + i] = t[i]
  <2> TAKE i \in 1 .. b
  <2> DEFINE j == a + i
  <2>1. j \in 1 .. a + b /\ ~ (j <= a) /\ j - a = i
    BY <1>2
  <2> HIDE DEF j
  <2>2. QED
    BY <1>3, <2>1 DEF j
<1>6. Started(new)
  <2>1. new[1].kind = "file" /\ Len(new) # 0
    BY <1>1, <1>2, <1>3, <1>4
  <2>2. QED
    BY <1>3, <2>1, EmptySeq DEF Started
<1>7. ASSUME NEW i \in 1 .. a
      PROVE  AttributedAt(new, fs, i)
  <2> DEFINE s == SinceIn(out, i)
  <2>1. FileAt(out, s, i) /\ i \in Nat
    BY <1>2, SinceExists
  <2> HIDE DEF s
  <2>2. s \in 1 .. i /\ out[s].kind = "file" /\ \A o \in s + 1 .. i : out[o].kind # "file"
    BY <2>1 DEF FileAt
  <2>3. \A o \in 1 .. i : new[o] = out[o]
    BY <1>2, <1>4
  <2>4. \A o \in s + 1 .. i : new[o].kind # "file"
    BY <2>1, <2>2, <2>3
  <2>5. FileAt(new, s, i)
    BY <2>2, <2>3, <2>4 DEF FileAt
  <2>6. SinceIn(new, i) = s
    BY <2>1, <2>5, SinceIs
  <2>7. new[i] = out[i] /\ new[s] = out[s]
    BY <2>1, <2>2, <2>3
  <2>8. AttributedAt(out, fs, i)
    BY DEF Attributed
  <2>9. QED
    BY <2>6, <2>7, <2>8 DEF AttributedAt, s
<1>8. QED
  BY <1>2, <1>3, <1>4, <1>5, <1>6, <1>7 DEF new

(* A .file line sets the name and the number. *)
LEMMA FileLineHeads ==
  ASSUME NEW out, Started(out), NEW fs, Attributed(out, fs),
         NEW name \in STRING, NEW at \in Nat, NEW hint \in BOOLEAN,
         NEW new, new = out \o <<FileLine(name, at + 1, at, hint)>>
  PROVE  /\ Started(new) /\ Attributed(new, fs)
         /\ Heading(new, fs, name, IF hint THEN at ELSE at + 1, TRUE)
<1> DEFINE o == FileLine(name, at + 1, at, hint)
           n == Len(new)
<1>1. /\ o \in PrintedSet /\ o.kind = "file" /\ o.name = name /\ o.n = at + 1
      /\ o.at = at /\ o.hint = hint
  BY DEF FileLine, PrintedSet
<1> HIDE DEF o
<1>2. <<o>> \in Seq(PrintedSet) /\ Len(<<o>>) = 1 /\ <<o>>[1] = o
  BY <1>1
<1>3. /\ Started(new) /\ n = Len(out) + 1 /\ Len(out) \in Nat
      /\ new[n] = o
      /\ \A i \in 1 .. Len(out) : AttributedAt(new, fs, i)
  <2> DEFINE t == <<o>>
  <2>1. t \in Seq(PrintedSet) /\ Len(t) = 1 /\ t[1] = o /\ new = out \o t
    BY <1>2 DEF o
  <2> HIDE DEF t
  <2>2. /\ Started(out \o t) /\ Len(out \o t) = Len(out) + Len(t)
        /\ Len(out) \in Nat \ {0}
        /\ \A i \in 1 .. Len(t) : (out \o t)[Len(out) + i] = t[i]
        /\ \A i \in 1 .. Len(out) : AttributedAt(out \o t, fs, i)
    BY <2>1, Extended
  <2>3. 1 \in 1 .. Len(t)
    BY <2>1
  <2>4. new[Len(out) + 1] = o /\ n = Len(out) + 1
    BY <2>1, <2>2, <2>3
  <2>5. QED
    BY <2>1, <2>2, <2>4
<1> HIDE DEF n
<1>4. AttributedAt(new, fs, n)
  BY <1>1, <1>3 DEF AttributedAt
<1>5. Attributed(new, fs)
  <2>1. \A i \in 1 .. n : i \in 1 .. Len(out) \/ i = n
    BY <1>3
  <2>2. QED
    BY <1>3, <1>4, <2>1 DEF Attributed, n
<1>6. SinceIn(new, n) = n
  <2>1. n \in 1 .. n /\ n \in Nat /\ n + 1 .. n = {}
    BY <1>3
  <2>2. FileAt(new, n, n)
    BY <1>1, <1>3, <2>1 DEF FileAt
  <2>3. QED
    BY <2>1, <2>2, SinceIs
<1> DEFINE next == IF hint THEN at ELSE at + 1
           e    == o.n + n - n
<1>7. /\ e = at + 1 /\ From(o) = next /\ next <= next /\ e <= next + 1
      /\ e = next + IF o.hint THEN 1 ELSE 0
  BY <1>1, <1>3 DEF From
<1>8. Heading(new, fs, name, next, TRUE)
  <2>1. new[SinceIn(new, Len(new))] = o /\ o.n + Len(new) - SinceIn(new, Len(new)) = e
    BY <1>3, <1>6 DEF n
  <2> HIDE DEF e, next
  <2>2. QED
    BY <1>1, <1>7, <2>1 DEF Heading
<1>9. QED
  BY <1>3, <1>5, <1>8

(* Lines of text count; only one that is no part of a macro leaves the     *)
(* next line to be read the next one after it.                             *)
LEMMA TextHeads ==
  ASSUME NEW out, Started(out), NEW fs, Attributed(out, fs),
         NEW name, NEW at \in Nat \ {0}, NEW live, Heading(out, fs, name, at, live),
         NEW t \in Seq(PrintedSet),
         \A k \in 1 .. Len(t) : /\ t[k].kind = "line" /\ t[k].name = name
                                /\ t[k].at = at /\ t[k].k = k - 1
  PROVE  /\ Started(out \o t) /\ Attributed(out \o t, fs)
         /\ Len(t) = 1 => Heading(out \o t, fs, name, at + 1, live)
<1> DEFINE new == out \o t
           a   == Len(out)
           b   == Len(t)
           s   == SinceIn(out, a)
           m   == out[s]
           h   == IF m.hint THEN 1 ELSE 0
           e   == m.n + a - s
           loud(x) == \A p \in From(m) .. x - 1 : ~Silent(fs[name][p])
<1>1. /\ Started(new) /\ Len(new) = a + b /\ a \in Nat \ {0} /\ b \in Nat
      /\ \A i \in 1 .. a : new[i] = out[i]
      /\ \A i \in 1 .. b : new[a + i] = t[i]
      /\ \A i \in 1 .. a : AttributedAt(new, fs, i)
  BY Extended
<1>2. /\ FileAt(out, s, a) /\ s \in Nat
  <2>1. a \in 1 .. a
    BY <1>1
  <2>2. QED
    BY <2>1, SinceExists
<1>3. /\ m.name = name /\ From(m) <= at /\ e <= at + 1
      /\ loud(at) => live /\ e = at + h
  BY Zenon DEF Heading
<1>4. s \in 1 .. a /\ m.kind = "file" /\ \A o \in s + 1 .. a : out[o].kind # "file"
  BY <1>2 DEF FileAt
<1>5. m.n \in Nat /\ From(m) \in Nat /\ h \in Nat
  <2>1. m \in PrintedSet
    BY <1>4, ElementOfSeq DEF Started
  <2> HIDE DEF m
  <2>2. m.n \in Nat /\ m.at \in Nat
    BY <1>4, <2>1 DEF PrintedSet
  <2>3. QED
    BY <2>2 DEF From
<1> HIDE DEF new, a, b, s, m, h, loud
<1>6. e \in Int
  BY <1>1, <1>2, <1>5
<1>7. ASSUME NEW k \in 0 .. b
      PROVE  SinceIn(new, a + k) = s /\ new[s] = m
  <2>1. a + k \in Nat /\ s \in 1 .. a + k
    BY <1>1, <1>4
  <2>2. new[s] = m
    BY <1>1, <1>4 DEF m
  <2>3. ASSUME NEW o \in s + 1 .. a + k
        PROVE  new[o].kind # "file"
    <3>1. CASE o <= a
      <4>1. o \in 1 .. a /\ o \in s + 1 .. a
        BY <1>1, <1>4, <2>1, <3>1
      <4>2. QED
        BY <1>1, <1>4, <4>1
    <3>2. CASE ~ (o <= a)
      <4> DEFINE i == o - a
      <4>1. i \in 1 .. b /\ a + i = o
        BY <1>1, <1>2, <3>2
      <4> HIDE DEF i
      <4>2. new[o] = t[i] /\ t[i].kind = "line"
        BY <1>1, <4>1 DEF b
      <4>3. QED
        BY <4>2
    <3>3. QED
      BY <3>1, <3>2
  <2>4. FileAt(new, s, a + k)
    BY <1>4, <2>1, <2>2, <2>3 DEF FileAt
  <2>5. QED
    BY <2>1, <2>2, <2>4, SinceIs
<1>8. ASSUME NEW k \in 1 .. b
      PROVE  AttributedAt(new, fs, a + k)
  <2> DEFINE n == a + k
             o == new[n]
             f == m.n + n - s - 1
  <2>1. SinceIn(new, n) = s /\ new[s] = m
    <3>1. k \in 0 .. b
      BY <1>1
    <3>2. QED
      BY <1>7, <3>1
  <2>2. o.name = name /\ o.at = at /\ o.k = k - 1
    BY <1>1 DEF b
  <2>3. f = e + k - 1
    BY <1>1, <1>2, <1>5
  <2>4. f <= o.at + o.k + 1
    BY <1>3, <1>6, <2>2, <2>3
  <2>5. loud(at) => f = o.at + o.k + h
    BY <1>3, <1>5, <1>6, <2>2, <2>3
  <2> HIDE DEF n, o, f
  <2>6. QED
    BY <1>3, <2>1, <2>2, <2>4, <2>5 DEF AttributedAt, loud, n, o, f, h
<1>9. Attributed(new, fs)
  <2> SUFFICES ASSUME NEW i \in 1 .. a + b
               PROVE  AttributedAt(new, fs, i)
    BY <1>1 DEF Attributed
  <2>1. CASE i <= a
    <3>1. i \in 1 .. a
      BY <2>1, <1>1
    <3>2. QED
      BY <1>1, <3>1
  <2>2. CASE ~ (i <= a)
    <3> DEFINE k == i - a
    <3>1. k \in 1 .. b /\ i = a + k
      BY <2>2, <1>1
    <3> HIDE DEF k
    <3>2. QED
      BY <1>8, <3>1
  <2>3. QED
    BY <2>1, <2>2
<1>10. ASSUME b = 1
       PROVE  Heading(new, fs, name, at + 1, live)
  <2> DEFINE f == m.n + Len(new) - s
  <2>1. SinceIn(new, Len(new)) = s /\ new[s] = m
    <3>1. 1 \in 0 .. b
      BY <1>10
    <3>2. QED
      BY <1>1, <1>7, <1>10, <3>1
  <2>2. f = e + 1
    BY <1>1, <1>2, <1>5, <1>10
  <2>3. loud(at + 1) => loud(at)
    <3>1. \A p \in From(m) .. at - 1 : p \in From(m) .. at + 1 - 1
      BY <1>5
    <3>2. QED
      BY <3>1 DEF loud
  <2>4. From(m) <= at + 1 /\ f <= at + 1 + 1
    BY <1>3, <1>5, <1>6, <2>2
  <2>5. loud(at + 1) => live /\ f = at + 1 + h
    BY <1>3, <1>5, <1>6, <2>2, <2>3
  <2> HIDE DEF f
  <2>6. QED
    BY <1>3, <2>1, <2>4, <2>5 DEF Heading, f, loud, h
<1>11. QED
  BY <1>1, <1>9, <1>10 DEF new, b

(* A line of which nothing is printed. *)
LEMMA SilentHeads ==
  ASSUME NEW out, Started(out), NEW fs, NEW name, NEW at \in Nat \ {0},
         NEW live, NEW live2, Heading(out, fs, name, at, live),
         Silent(fs[name][at]) \/ ~live
  PROVE  Heading(out, fs, name, at + 1, live2)
<1> DEFINE a   == Len(out)
           s   == SinceIn(out, a)
           m   == out[s]
           h   == IF m.hint THEN 1 ELSE 0
           e   == m.n + a - s
           loud(x) == \A p \in From(m) .. x - 1 : ~Silent(fs[name][p])
<1>1. /\ m.name = name /\ From(m) <= at /\ e <= at + 1
      /\ loud(at) => live /\ e = at + h
  BY Zenon DEF Heading
<1>2. a \in 1 .. a /\ out \in Seq(PrintedSet)
  BY LenProperties, EmptySeq DEF Started
<1>3. s \in 1 .. a /\ m.kind = "file"
  BY <1>2, SinceExists DEF FileAt
<1>4. m.n \in Nat /\ From(m) \in Nat /\ e \in Int
  <2>1. m \in PrintedSet
    BY <1>2, <1>3, ElementOfSeq
  <2> HIDE DEF m, s, a
  <2>2. m.n \in Nat /\ m.at \in Nat
    BY <1>3, <2>1 DEF PrintedSet
  <2>3. QED
    BY <1>2, <1>3, <2>2 DEF From
<1> HIDE DEF a, s, m, h, e
<1>5. ~loud(at + 1)
  <2>1. SUFFICES ASSUME loud(at + 1)
                 PROVE  FALSE
    OBVIOUS
  <2>2. at \in From(m) .. at + 1 - 1 /\ \A p \in From(m) .. at - 1 : p \in From(m) .. at + 1 - 1
    BY <1>1, <1>4
  <2>3. loud(at) /\ ~Silent(fs[name][at])
    BY <2>1, <2>2
  <2>4. QED
    BY <1>1, <2>3
<1>6. From(m) <= at + 1 /\ e <= at + 1 + 1
  BY <1>1, <1>4
<1> HIDE DEF loud
<1>7. QED
  BY <1>1, <1>5, <1>6 DEF Heading, a, s, m, e, h, loud

(* Every line printed is attributed as Attribution says, and the next one  *)
(* will be; a file that waits for another goes on where lines count.       *)
Resumable == \A d \in 1 .. Len(stack) - 1 : LiveIn(stack[d].ifs)

Traced ==
  /\ Started(output) /\ Attributed(output, files)
  /\ outcome = "running" =>
       Heading(output, files, top.name, top.next, Live) /\ Resumable

LEMMA HintHeads ==
  ASSUME IInv, Traced, Reading
  PROVE  /\ Started(output \o Hint) /\ Attributed(output \o Hint, files)
         /\ Heading(output \o Hint, files, top.name, top.next, Live)
<1>1. /\ Started(output) /\ Attributed(output, files)
      /\ Heading(output, files, top.name, top.next, Live)
  BY DEF Traced, Reading
<1>2. top.name \in STRING /\ top.next \in Nat
  BY TopFacts DEF CallSet
<1>3. CASE Hint = <<>>
  <2>1. output \o Hint = output
    BY <1>1, <1>3, ConcatEmptySeq DEF Started
  <2>2. QED
    BY <1>1, <2>1
<1>4. CASE Hint # <<>>
  <2>1. Hint = <<FileLine(top.name, top.next + 1, top.next, TRUE)>> /\ Live
    BY <1>4, TopFacts DEF Hint
  <2> DEFINE name == top.name
             at   == top.next
             new  == output \o <<FileLine(name, at + 1, at, TRUE)>>
  <2>2. name \in STRING /\ at \in Nat
    BY <1>2
  <2> HIDE DEF name, at
  <2>3. /\ Started(new) /\ Attributed(new, files)
        /\ Heading(new, files, name, IF TRUE THEN at ELSE at + 1, TRUE)
    BY <1>1, <2>2, FileLineHeads
  <2>4. Heading(new, files, name, at, Live)
    BY <2>1, <2>3 DEF Heading
  <2>5. new = output \o Hint
    BY <2>1 DEF name, at
  <2>6. QED
    BY <2>3, <2>4, <2>5 DEF name, at
<1>5. QED
  BY <1>3, <1>4

(* The reader of the next line. *)
LEMMA OnwardTop ==
  ASSUME IInv, NEW more \in Nat, NEW ifs \in BlocksSet, Onward(more, ifs)
  PROVE  /\ top'.name = top.name /\ top'.next = top.next + 1 + more /\ top'.ifs = ifs
         /\ Len(stack') = Len(stack)
         /\ \A d \in 1 .. Len(stack) - 1 : stack'[d] = stack[d]
<1> DEFINE call == [top EXCEPT !.next = @ + 1 + more, !.ifs = ifs,
                               !.line_no = LineNo + more + IF ifs = <<>> THEN 1 ELSE 0]
           n == Len(stack)
           s == Front(stack)
           t == Append(s, call)
<1>1. top \in CallSet /\ LineNo = top.next /\ top.next \in Nat \ {0}
  BY TopFacts DEF CallSet
<1>2. call.name = top.name /\ call.next = top.next + 1 + more /\ call.ifs = ifs
  BY <1>1 DEF CallSet
<1>3. call \in CallSet
  <2> DEFINE next == top.next + 1 + more
             k == LineNo + more + IF ifs = <<>> THEN 1 ELSE 0
  <2>1. next \in Nat \ {0}
    BY <1>1
  <2>2. k \in Nat \ {0}
    BY <1>1
  <2>3. call = [top EXCEPT !.next = next, !.ifs = ifs, !.line_no = k]
    OBVIOUS
  <2> HIDE DEF next, k, call
  <2>4. QED
    BY <1>1, <2>1, <2>2, <2>3 DEF CallSet
<1>4. stack' = s \o <<call>>
  BY DEF Onward
<1>5. n \in Nat \ {0} /\ s \in Seq(CallSet) /\ Len(s) = n - 1 /\ \A d \in 1 .. n - 1 : s[d] = stack[d]
  BY TopFacts
<1> HIDE DEF call, s
<1>6. stack' = t
  BY <1>3, <1>4, <1>5, AppendIsConcat
<1>7. /\ t \in Seq(CallSet) /\ Len(t) = Len(s) + 1
      /\ \A d \in 1 .. Len(s) : t[d] = s[d]
      /\ t[Len(s) + 1] = call
  BY <1>3, <1>5, AppendProperties
<1> HIDE DEF t, n
<1>8. Len(s) + 1 = n
  BY <1>5
<1>9. Len(stack') = n /\ stack'[n] = call /\ \A d \in 1 .. n - 1 : stack'[d] = stack[d]
  BY <1>5, <1>6, <1>7, <1>8
<1>10. top' = call
  BY <1>9 DEF top, Last
<1>11. QED
  BY <1>2, <1>9, <1>10 DEF n

LEMMA TracedOn ==
  ASSUME IInv, Traced, outcome = "running", NEW more \in Nat, NEW ifs \in BlocksSet,
         Onward(more, ifs), files' = files,
         Started(output'), Attributed(output', files),
         Heading(output', files, top.name, top.next + 1 + more, LiveIn(ifs))
  PROVE  Traced'
<1>1. /\ top'.name = top.name /\ top'.next = top.next + 1 + more /\ top'.ifs = ifs
      /\ Len(stack') = Len(stack)
      /\ \A d \in 1 .. Len(stack) - 1 : stack'[d] = stack[d]
  BY OnwardTop
<1>2. Live' = LiveIn(ifs)
  BY Zenon, <1>1 DEF Live, InBlock, block, LiveIn
<1>3. Heading(output', files', top'.name, top'.next, Live')
  BY <1>1, <1>2
<1>4. Resumable'
  <2>1. Resumable
    BY DEF Traced
  <2>2. QED
    BY <1>1, <2>1 DEF Resumable
<1>5. QED
  BY <1>3, <1>4 DEF Traced

LEMMA TracedStops ==
  ASSUME Traced, files' = files, outcome' # "running",
         Started(output'), Attributed(output', files)
  PROVE  Traced'
  BY DEF Traced

(* The steps that print .file lines or nothing. *)
LEMMA PrintsOnHint ==
  ASSUME IInv, Traced, Reading, NEW lines, Prints(lines)
  PROVE  output' = (output \o Hint) \o lines
<1>1. output' = output \o Hint \o lines
  BY DEF Prints
<1>2. QED
  BY <1>1

LEMMA FileLineTraced ==
  ASSUME IInv, Traced, Reading, Live, files' = files,
         NEW more \in Nat,
         Prints(<<FileLine(top.name, LineNo + more + 1, top.next + more, FALSE)>>),
         Onward(more, Hinted)
  PROVE  Traced'
<1> DEFINE name == top.name
           at == top.next + more
           out == output \o Hint
<1>1. name \in STRING /\ at \in Nat /\ LineNo + more + 1 = at + 1 /\ top.next + 1 + more = at + 1
  BY TopFacts DEF CallSet
<1>2. Started(out) /\ Attributed(out, files)
  BY HintHeads
<1>3. output' = out \o <<FileLine(name, at + 1, at, FALSE)>>
  <2>1. output' = out \o <<FileLine(name, LineNo + more + 1, at, FALSE)>>
    BY PrintsOnHint
  <2>2. QED
    BY <1>1, <2>1
<1>4. top.name = name /\ top.next + 1 + more = at + 1
  BY <1>1
<1> HIDE DEF name, at, out
<1>5. /\ Started(output') /\ Attributed(output', files)
      /\ Heading(output', files, name, IF FALSE THEN at ELSE at + 1, TRUE)
  BY <1>1, <1>2, <1>3, FileLineHeads
<1>6. Heading(output', files, name, at + 1, LiveIn(Hinted))
  BY <1>5, LiveHinted DEF Heading
<1>7. Hinted \in BlocksSet /\ outcome = "running"
  BY HintedFacts DEF Reading
<1>8. QED
  BY <1>4, <1>5, <1>6, <1>7, TracedOn

LEMMA DefineTraced ==
  ASSUME IInv, Traced, Define
  PROVE  Traced'
<1>1. /\ Reading /\ Live /\ files' = files
      /\ Prints(ThisFile(LineNo + 1)) /\ Onward(0, Hinted)
  BY Zenon DEF Define, Handles
<1>2. ThisFile(LineNo + 1) = <<FileLine(top.name, LineNo + 0 + 1, top.next + 0, FALSE)>>
  <2>1. LineNo + 0 + 1 = LineNo + 1 /\ top.next + 0 = top.next
    BY TopFacts DEF CallSet
  <2>2. QED
    BY <2>1 DEF ThisFile
<1>3. Prints(<<FileLine(top.name, LineNo + 0 + 1, top.next + 0, FALSE)>>)
  BY <1>1, <1>2
<1>4. QED
  BY <1>1, <1>3, FileLineTraced

LEMMA DefineMacroTraced ==
  ASSUME IInv, Traced, DefineMacro
  PROVE  Traced'
<1> DEFINE body == MacroBody(source, top.next + 1)
           more == Len(body) + 1
           said == <<FileLine(top.name, LineNo + more + 1, top.next + more, FALSE)>>
<1>1. /\ Reading /\ Live /\ files' = files /\ Prints(said) /\ Onward(more, Hinted)
  BY Zenon DEF DefineMacro, Handles
<1>2. Len(body) \in Nat
  <2> DEFINE first == top.next + 1
  <2>1. source \in Seq(LineSet) /\ first \in 1 .. Len(source) + 1
    BY <1>1, TopFacts
  <2> HIDE DEF first
  <2>2. Len(MacroBody(source, first)) \in Nat
    BY <2>1, MacroBodyType
  <2>3. QED
    BY <2>2 DEF first
<1> HIDE DEF body
<1>3. more \in Nat
  BY <1>2
<1>4. QED
  BY <1>1, <1>3, FileLineTraced

(* A line a block takes for itself, or skips. *)
LEMMA NothingTraced ==
  ASSUME IInv, Traced, Reading, files' = files, Prints(<<>>),
         NEW ifs \in BlocksSet, Onward(0, ifs),
         Silent(line) \/ ~Live
  PROVE  Traced'
<1> DEFINE out == output \o Hint
           next == top.next
<1>1. /\ Started(out) /\ Attributed(out, files)
      /\ Heading(out, files, top.name, next, Live)
  BY HintHeads
<1>2. output' = out
  <2>1. output' = out \o <<>>
    BY PrintsOnHint
  <2>2. QED
    BY <1>1, <2>1, ConcatEmptySeq DEF Started
<1>3. next \in Nat \ {0} /\ top.next + 1 + 0 = next + 1
  BY TopFacts DEF CallSet
<1>4. Silent(files[top.name][next]) \/ ~Live
  BY DEF line, source
<1> HIDE DEF out, next
<1>5. Heading(out, files, top.name, next + 1, LiveIn(ifs))
  <2> DEFINE name == top.name
             live == Live
             live2 == LiveIn(ifs)
  <2>1. Heading(out, files, name, next, live) /\ (Silent(files[name][next]) \/ ~live)
    BY <1>1, <1>4
  <2> HIDE DEF name, live, live2
  <2>2. Heading(out, files, name, next + 1, live2)
    BY <1>1, <1>3, <2>1, SilentHeads
  <2>3. QED
    BY <2>2 DEF name, live2
<1>6. outcome = "running"
  BY DEF Reading
<1>7. QED
  BY <1>1, <1>2, <1>3, <1>5, <1>6, TracedOn

LEMMA OpenBlockTraced ==
  ASSUME IInv, Traced, OpenBlock
  PROVE  Traced'
<1> DEFINE b == If(Condition(line, symbols) = "true")
<1>1. /\ Reading /\ Live /\ line.op \in Conditions /\ files' = files
      /\ Prints(<<>>) /\ Onward(0, Append(Hinted, b))
  BY Zenon DEF OpenBlock, Handles
<1>2. Silent(line)
  BY <1>1 DEF Silent
<1>3. b \in BlockSet
  BY DEF If, BlockSet
<1> HIDE DEF b
<1>4. Append(Hinted, b) \in BlocksSet
  BY <1>1, <1>3, HintedFacts, LiveHinted, BlocksAppend
<1>5. QED
  BY <1>1, <1>2, <1>4, NothingTraced

LEMMA FoundIsSilent ==
  ASSUME IInv, Reading, Found \in {"else", "endif"}
  PROVE  Silent(line)
  BY DEF Found, Silent

LEMMA ElseTraced ==
  ASSUME IInv, Traced, Else
  PROVE  Traced'
<1> DEFINE ifs == Append(Front(top.ifs), [Last(Hinted) EXCEPT !.hasElse = TRUE, !.condition = ~Live])
<1>1. /\ Reading /\ InBlock /\ Found \in {"else"} /\ files' = files
      /\ ~Live => block.depth = 1
      /\ Prints(<<>>) /\ Onward(0, ifs)
  BY Zenon DEF Else, InLoop
<1>2. Silent(line)
  BY <1>1, FoundIsSilent
<1>3. ifs \in BlocksSet
  <2> DEFINE b == [Last(Hinted) EXCEPT !.hasElse = TRUE, !.condition = ~Live]
  <2>1. block \in BlockSet /\ Front(top.ifs) \in BlocksSet /\ LiveIn(Front(top.ifs))
        /\ Last(Hinted) = [block EXCEPT !.hinted = @ \/ Live]
    BY <1>1, BlockFacts, HintedFacts
  <2>2. block.depth = 1
    BY <1>1, <2>1 DEF Live, BlockSet
  <2>3. b \in BlockSet
    BY <2>1, <2>2 DEF BlockSet
  <2> HIDE DEF b
  <2>4. QED
    BY <2>1, <2>3, BlocksAppend DEF b
<1> HIDE DEF ifs
<1>4. QED
  BY <1>1, <1>2, <1>3, NothingTraced

LEMMA EndLiveTraced ==
  ASSUME IInv, Traced, EndLive
  PROVE  Traced'
<1>1. /\ Reading /\ InBlock /\ Found \in {"endif"} /\ files' = files
      /\ Prints(<<>>) /\ Onward(0, Front(top.ifs))
  BY Zenon DEF EndLive, InLoop
<1>2. Silent(line) /\ Front(top.ifs) \in BlocksSet
  BY <1>1, FoundIsSilent, BlockFacts
<1>3. QED
  BY <1>1, <1>2, NothingTraced

LEMMA SkipTraced ==
  ASSUME IInv, Traced, Skip
  PROVE  Traced'
<1> DEFINE deep == Depth(Found)
           ifs == IF deep = 0 THEN Front(top.ifs)
                  ELSE Append(Front(top.ifs), [block EXCEPT !.depth = deep])
<1>1. /\ Reading /\ InBlock /\ ~Live /\ files' = files
      /\ Prints(<<>>) /\ Onward(0, ifs)
  BY Zenon DEF Skip, InLoop
<1>2. /\ block \in BlockSet /\ ~block.condition
      /\ Front(top.ifs) \in BlocksSet /\ LiveIn(Front(top.ifs))
      /\ block.depth \in Nat \ {0}
  BY <1>1, BlockFacts DEF Live, BlockSet
<1>3. deep \in Nat
  BY <1>2 DEF Depth
<1> HIDE DEF deep
<1>4. ifs \in BlocksSet
  <2>1. CASE deep = 0
    BY <1>2, <2>1
  <2>2. CASE deep # 0
    <3> DEFINE b == [block EXCEPT !.depth = deep]
    <3>1. b \in BlockSet
      BY <1>2, <1>3, <2>2 DEF BlockSet
    <3> HIDE DEF b
    <3>2. Append(Front(top.ifs), b) \in BlocksSet
      BY <1>2, <3>1, BlocksAppend
    <3>3. QED
      BY <2>2, <3>2 DEF b
  <2>3. QED
    BY <2>1, <2>2
<1> HIDE DEF ifs
<1>5. QED
  BY <1>1, <1>4, NothingTraced

(* The steps that print text. *)
LEMMA TextLinesShape ==
  ASSUME IInv, NEW lines \in Seq(LineSet)
  PROVE  /\ TextLines(lines) \in Seq(PrintedSet) /\ Len(TextLines(lines)) = Len(lines)
         /\ \A k \in 1 .. Len(TextLines(lines)) :
              /\ TextLines(lines)[k].kind = "line" /\ TextLines(lines)[k].name = top.name
              /\ TextLines(lines)[k].at = top.next /\ TextLines(lines)[k].k = k - 1
<1> DEFINE t == TextLines(lines)
<1>1. t \in Seq(PrintedSet) /\ DOMAIN t = DOMAIN lines
  BY TextLinesFacts DEF NumberedLines, TextLines
<1>2. Len(lines) \in Nat /\ DOMAIN lines = 1 .. Len(lines)
  BY LenProperties
<1>3. \A k \in 1 .. Len(lines) : /\ t[k].kind = "line" /\ t[k].name = top.name
                                 /\ t[k].at = top.next /\ t[k].k = k - 1
  BY <1>2 DEF TextLines
<1> HIDE DEF t
<1>4. Len(t) = Len(lines)
  <2> DEFINE a == Len(t)
             b == Len(lines)
  <2>1. a \in Nat /\ b \in Nat /\ 1 .. a = 1 .. b
    BY <1>1, <1>2, LenProperties
  <2> HIDE DEF a, b
  <2>2. a = b
    <3>1. a > 0 => a \in 1 .. b
      BY <2>1
    <3>2. b > 0 => b \in 1 .. a
      BY <2>1
    <3>3. QED
      BY <2>1, <3>1, <3>2
  <2>3. QED
    BY <2>2 DEF a, b
<1>5. QED
  BY <1>1, <1>3, <1>4 DEF t

LEMMA PrintsText ==
  ASSUME IInv, Traced, Reading, NEW lines \in Seq(LineSet)
  PROVE  /\ Started((output \o Hint) \o TextLines(lines))
         /\ Attributed((output \o Hint) \o TextLines(lines), files)
         /\ Len(lines) = 1 =>
              Heading((output \o Hint) \o TextLines(lines), files, top.name, top.next + 1, Live)
<1> DEFINE out == output \o Hint
           t == TextLines(lines)
           name == top.name
           at == top.next
           live == Live
<1>1. Started(out) /\ Attributed(out, files) /\ Heading(out, files, name, at, live)
  BY HintHeads
<1>2. /\ t \in Seq(PrintedSet) /\ Len(t) = Len(lines)
      /\ \A k \in 1 .. Len(t) : /\ t[k].kind = "line" /\ t[k].name = name
                                /\ t[k].at = at /\ t[k].k = k - 1
  BY TextLinesShape
<1>3. at \in Nat \ {0}
  BY TopFacts DEF CallSet
<1> HIDE DEF out, t, name, at, live
<1>4. /\ Started(out \o t) /\ Attributed(out \o t, files)
      /\ Len(t) = 1 => Heading(out \o t, files, name, at + 1, live)
  BY <1>1, <1>2, <1>3, TextHeads
<1>5. QED
  BY <1>2, <1>4 DEF out, t, name, at, live

LEMMA OneLineTraced ==
  ASSUME IInv, Traced, Reading, Live, files' = files,
         NEW lines \in Seq(LineSet), Len(lines) = 1,
         output' = (output \o Hint) \o TextLines(lines),
         Onward(0, Hinted)
  PROVE  Traced'
<1>1. /\ Started(output') /\ Attributed(output', files)
      /\ Heading(output', files, top.name, top.next + 1, Live)
  BY PrintsText
<1>2. Heading(output', files, top.name, top.next + 1 + 0, LiveIn(Hinted))
  <2>1. top.next + 1 + 0 = top.next + 1
    BY TopFacts DEF CallSet
  <2>2. Live = TRUE /\ LiveIn(Hinted) = TRUE
    BY LiveHinted DEF Live, LiveIn
  <2>3. QED
    BY <1>1, <2>1, <2>2
<1>3. Hinted \in BlocksSet /\ outcome = "running"
  BY HintedFacts DEF Reading
<1>4. QED
  BY <1>1, <1>2, <1>3, TracedOn

LEMMA PassTraced ==
  ASSUME IInv, Traced, Pass
  PROVE  Traced'
<1>1. /\ Reading /\ Live /\ files' = files
      /\ Prints(TextLines(<<line>>)) /\ Onward(0, Hinted)
  BY Zenon DEF Pass, Handles
<1>2. <<line>> \in Seq(LineSet) /\ Len(<<line>>) = 1
  BY <1>1, OneLine
<1> DEFINE lines == <<line>>
<1>3. output' = (output \o Hint) \o TextLines(lines)
  BY <1>1, PrintsOnHint
<1> HIDE DEF lines
<1>4. QED
  BY <1>1, <1>2, <1>3, OneLineTraced DEF lines

LEMMA ParseInstructionTraced ==
  ASSUME IInv, Traced, ParseInstruction
  PROVE  Traced'
<1> DEFINE lines == Expansion(line, symbols, macros)
           calls == MacroKey(line) \in DOMAIN macros
           after == IF calls THEN ThisFile(LineNo + 1) ELSE <<>>
           out == (output \o Hint) \o TextLines(lines)
<1>1. /\ Reading /\ Live /\ files' = files
      /\ Prints(TextLines(lines) \o after) /\ Onward(0, Hinted)
  BY Zenon DEF ParseInstruction, Handles
<1>2. lines \in Seq(LineSet)
  BY <1>1, OneLine, InvariantFacts, ExpansionType
<1>3. ~calls => Len(lines) = 1
  BY DEF Expansion
<1> HIDE DEF lines, calls
<1>4. Started(out) /\ Attributed(out, files)
  BY <1>1, <1>2, PrintsText
<1>5. output' = (output \o Hint) \o (TextLines(lines) \o after)
  BY <1>1, PrintsOnHint
<1>6. CASE calls
  <2> DEFINE name == top.name
             at == top.next
  <2>1. /\ name \in STRING /\ at \in Nat /\ top.next + 1 + 0 = at + 1
        /\ after = <<FileLine(name, at + 1, at, FALSE)>>
    <3>1. name \in STRING /\ at \in Nat /\ LineNo = at /\ top.next + 1 + 0 = at + 1
      BY TopFacts DEF CallSet
    <3>2. after = <<FileLine(name, LineNo + 1, at, FALSE)>>
      BY <1>6 DEF ThisFile
    <3> HIDE DEF after
    <3>3. QED
      BY <3>1, <3>2
  <2>2. output' = out \o <<FileLine(name, at + 1, at, FALSE)>>
    <3> DEFINE a == output \o Hint
               b == TextLines(lines)
    <3>1. a \in Seq(PrintedSet) /\ b \in Seq(PrintedSet) /\ after \in Seq(PrintedSet)
      <4>1. after \in Seq(PrintedSet)
        BY <1>6, ThisFileFacts DEF NumberedLines
      <4>2. QED
        BY <1>1, <1>2, <4>1, HintHeads, TextLinesShape DEF Started
    <3> HIDE DEF a, b, after
    <3>2. a \o (b \o after) = (a \o b) \o after
      BY <3>1, ConcatAssociative
    <3>3. QED
      BY <1>5, <2>1, <3>2 DEF a, b
  <2>3. top.name = name
    OBVIOUS
  <2> HIDE DEF name, at, out
  <2>4. /\ Started(output') /\ Attributed(output', files)
        /\ Heading(output', files, name, IF FALSE THEN at ELSE at + 1, TRUE)
    BY <1>4, <2>1, <2>2, FileLineHeads
  <2>5. Heading(output', files, top.name, top.next + 1 + 0, LiveIn(Hinted))
    <3>1. LiveIn(Hinted) = TRUE
      BY <1>1, LiveHinted DEF LiveIn
    <3>2. QED
      BY <2>1, <2>3, <2>4, <3>1
  <2>6. Hinted \in BlocksSet /\ outcome = "running"
    BY <1>1, HintedFacts DEF Reading
  <2>7. QED
    BY <1>1, <2>4, <2>5, <2>6, TracedOn
<1>7. CASE ~calls
  <2>1. TextLines(lines) \o after = TextLines(lines)
    BY <1>2, <1>7, TextLinesShape, ConcatEmptySeq
  <2>2. output' = (output \o Hint) \o TextLines(lines)
    BY <1>5, <2>1
  <2>3. QED
    BY <1>1, <1>2, <1>3, <1>7, <2>2, OneLineTraced
<1>8. QED
  BY <1>6, <1>7

(* The steps between two files. *)
LEMMA IncludeTraced ==
  ASSUME IInv, Traced, Include
  PROVE  Traced'
<1> DEFINE waiting == [top EXCEPT !.next = @ + 1, !.line_no = LineNo, !.ifs = Hinted]
           begun == Input(line.name)
           name == line.name
           n == Len(stack)
           out == output \o Hint
<1>1. /\ Reading /\ Live /\ files' = files /\ outcome' = outcome
      /\ name \in DOMAIN files
      /\ Prints(<<FileLine(name, 1, 0, FALSE)>>)
      /\ stack' = Front(stack) \o <<waiting, begun>>
  BY Zenon DEF Include, Handles, CanOpen
<1>2. begun.name = name /\ begun.next = 1 /\ begun.ifs = <<>> /\ begun \in CallSet /\ name \in STRING
  <2>1. name \in STRING
    BY <1>1, FileFacts
  <2>2. QED
    BY <2>1, EmptySeq, NoBlocks DEF Input, CallSet
<1>3. waiting \in CallSet /\ waiting.ifs = Hinted
  <2>1. top \in CallSet /\ LineNo = top.next /\ Hinted \in BlocksSet
    BY TopFacts, HintedFacts
  <2>2. top.next \in Nat \ {0} /\ top.next + 1 \in Nat \ {0}
    BY <2>1 DEF CallSet
  <2>3. QED
    BY <2>1, <2>2 DEF CallSet
<1>4. Started(output') /\ Attributed(output', files) /\ Heading(output', files, name, 1, TRUE)
  <2> DEFINE at == 0
  <2>1. output' = out \o <<FileLine(name, 1, 0, FALSE)>>
    BY <1>1, PrintsOnHint
  <2>2. Started(out) /\ Attributed(out, files)
    BY <1>1, HintHeads
  <2>3. output' = out \o <<FileLine(name, at + 1, at, FALSE)>> /\ at \in Nat /\ at + 1 = 1
    BY <2>1
  <2> HIDE DEF out, at, name
  <2>4. /\ Started(output') /\ Attributed(output', files)
        /\ Heading(output', files, name, IF FALSE THEN at ELSE at + 1, TRUE)
    BY <1>2, <2>2, <2>3, FileLineHeads
  <2>5. QED
    BY <2>3, <2>4
<1> HIDE DEF begun, name, waiting
<1>5. n \in Nat \ {0} /\ Len(stack') = n + 1 /\ stack'[n + 1] = begun /\ stack'[n] = waiting
      /\ \A d \in 1 .. n - 1 : stack'[d] = stack[d]
  <2> DEFINE s == Front(stack)
             t == <<waiting, begun>>
  <2>1. n \in Nat \ {0} /\ s \in Seq(CallSet) /\ Len(s) = n - 1 /\ \A d \in 1 .. n - 1 : s[d] = stack[d]
    BY TopFacts
  <2>2. t \in Seq(CallSet) /\ Len(t) = 2 /\ t[1] = waiting /\ t[2] = begun
    BY <1>2, <1>3
  <2> HIDE DEF s, t, n
  <2>3. /\ Len(s \o t) = Len(s) + Len(t)
        /\ \A i \in 1 .. Len(s) + Len(t) : (s \o t)[i] = IF i <= Len(s) THEN s[i] ELSE t[i - Len(s)]
    BY <2>1, <2>2, ConcatProperties
  <2> DEFINE u == s \o t
  <2>4. stack' = u
    BY <1>1 DEF s, t
  <2> HIDE DEF u
  <2>5. /\ Len(u) = n + 1
        /\ \A i \in 1 .. n + 1 : u[i] = IF i <= n - 1 THEN s[i] ELSE t[i - (n - 1)]
    BY <2>1, <2>2, <2>3 DEF u
  <2>6. u[n] = t[1] /\ u[n + 1] = t[2]
    <3>1. n \in 1 .. n + 1 /\ ~(n <= n - 1) /\ n - (n - 1) = 1
      BY <2>1
    <3>2. n + 1 \in 1 .. n + 1 /\ ~(n + 1 <= n - 1) /\ (n + 1) - (n - 1) = 2
      BY <2>1
    <3>3. u[n] = t[1]
      BY <2>5, <3>1
    <3> DEFINE k == n + 1
    <3>4. k \in 1 .. n + 1 /\ ~(k <= n - 1) /\ k - (n - 1) = 2
      BY <3>2
    <3> HIDE DEF k
    <3>5. u[k] = t[2]
      BY <2>5, <3>4
    <3>6. QED
      BY <3>3, <3>5 DEF k
  <2>7. \A d \in 1 .. n - 1 : u[d] = stack[d]
    BY <2>1, <2>5
  <2>8. QED
    BY <2>1, <2>2, <2>4, <2>5, <2>6, <2>7
<1> HIDE DEF n
<1>6. top' = begun
  BY <1>5 DEF top, Last
<1>7. Live' = TRUE
  <2>1. top'.ifs = <<>>
    BY <1>2, <1>6
  <2>2. QED
    BY <2>1 DEF Live, InBlock
<1>8. Heading(output', files', top'.name, top'.next, Live')
  <2>1. files' = files /\ top'.name = name /\ top'.next = 1
    BY <1>1, <1>2, <1>6
  <2>2. QED
    BY <1>4, <1>7, <2>1
<1>9. Resumable'
  <2> SUFFICES ASSUME NEW d \in 1 .. n
               PROVE  LiveIn(stack'[d].ifs)
    BY <1>5 DEF Resumable
  <2>1. CASE d = n
    BY <1>1, <1>3, <1>5, <2>1, LiveHinted
  <2>2. CASE d # n
    <3>1. d \in 1 .. Len(stack) - 1 /\ stack'[d] = stack[d] /\ Resumable
      BY <1>1, <1>5, <2>2 DEF n, Traced, Reading
    <3>2. QED
      BY <3>1 DEF Resumable
  <2>3. QED
    BY <2>1, <2>2
<1>10. QED
  BY <1>1, <1>4, <1>8, <1>9 DEF Traced

LEMMA ReturnTraced ==
  ASSUME IInv, Traced, EndOfFile, Len(stack) # 1
  PROVE  Traced'
<1> DEFINE n == Len(stack) - 1
           above == stack[n]
           call == [above EXCEPT !.line_no = IF above.ifs = <<>> THEN @ + 1 ELSE @]
           below == SubSeq(stack, 1, n - 1)
           u == Append(below, call)
           name == above.name
           at == above.next - 1
<1>1. /\ outcome = "running" /\ outcome' = outcome /\ files' = files
      /\ stack' = u
      /\ output' = output \o <<FileLine(name, above.line_no + 1, at, FALSE)>>
  <2>1. Len(stack) - 1 - 1 = Len(stack) - 2
    BY TopFacts DEF IInv, TypeOK
  <2>2. QED
    BY Zenon, <2>1 DEF EndOfFile, Resumed
<1>2. n \in Nat \ {0} /\ n + 1 = Len(stack) /\ stack \in Seq(CallSet)
  BY MacrosAssumption DEF IInv, TypeOK
<1>3. /\ above \in CallSet /\ above.line_no + 1 = above.next
      /\ name \in STRING /\ at \in Nat /\ above.line_no + 1 = at + 1 /\ above.next = at + 1
      /\ above.line_no \in Nat \ {0}
  <2>1. n \in 1 .. Len(stack) /\ n < Len(stack)
    BY <1>2
  <2>2. above \in CallSet /\ above.line_no + 1 = above.next
    BY <2>1, <1>2, ElementOfSeq DEF IInv, Counted
  <2>3. QED
    BY <2>2 DEF CallSet
<1>4. Started(output) /\ Attributed(output, files) /\ Resumable
  BY <1>1 DEF Traced
<1>5. /\ call.name = name /\ call.next = at + 1 /\ call.ifs = above.ifs /\ call \in CallSet
  <2> DEFINE k == IF above.ifs = <<>> THEN above.line_no + 1 ELSE above.line_no
  <2>1. k \in Nat \ {0}
    BY <1>3
  <2>2. call = [above EXCEPT !.line_no = k]
    OBVIOUS
  <2> HIDE DEF k, call
  <2>3. /\ call.name = above.name /\ call.next = above.next /\ call.ifs = above.ifs
        /\ call \in CallSet
    BY <1>3, <2>1, <2>2 DEF CallSet
  <2>4. QED
    BY <1>3, <2>3
<1> HIDE DEF call, name, at
<1>6. /\ Started(output') /\ Attributed(output', files)
      /\ Heading(output', files, name, IF FALSE THEN at ELSE at + 1, TRUE)
  <2>1. output' = output \o <<FileLine(name, at + 1, at, FALSE)>>
    BY <1>1, <1>3
  <2>2. QED
    BY <1>3, <1>4, <2>1, FileLineHeads
<1>7. below \in Seq(CallSet) /\ Len(below) = n - 1 /\ \A d \in 1 .. n - 1 : below[d] = stack[d]
  <2> DEFINE m == n - 1
  <2>1. m \in Nat /\ m <= Len(stack)
    BY <1>2
  <2>2. \A d \in 1 .. m : stack[d] \in CallSet
    BY <1>2, <2>1, ElementOfSeq
  <2> HIDE DEF m
  <2>3. /\ SubSeq(stack, 1, m) \in Seq(CallSet)
        /\ Len(SubSeq(stack, 1, m)) = IF 1 <= m THEN m - 1 + 1 ELSE 0
        /\ \A d \in 1 .. m - 1 + 1 : SubSeq(stack, 1, m)[d] = stack[1 + d - 1]
    BY <1>2, <2>1, <2>2, SubSeqProperties
  <2>4. /\ SubSeq(stack, 1, m) \in Seq(CallSet)
        /\ Len(SubSeq(stack, 1, m)) = m
        /\ \A d \in 1 .. m : SubSeq(stack, 1, m)[d] = stack[d]
    BY <2>1, <2>3
  <2>5. QED
    BY <2>4 DEF m
<1> HIDE DEF below
<1>8. Len(u) = n /\ (\A d \in 1 .. n - 1 : u[d] = stack[d]) /\ u[n] = call
  <2>1. /\ Len(u) = Len(below) + 1
        /\ \A d \in 1 .. Len(below) : u[d] = below[d]
        /\ u[Len(below) + 1] = call
    BY <1>5, <1>7, AppendProperties
  <2> HIDE DEF u
  <2>2. Len(below) + 1 = n
    BY <1>2, <1>7
  <2>3. QED
    BY <1>7, <2>1, <2>2
<1> HIDE DEF u
<1>9. top' = call
  BY <1>1, <1>8 DEF top, Last
<1>10. Live' = TRUE
  <2>1. n \in 1 .. Len(stack) - 1
    BY <1>2
  <2>2. LiveIn(above.ifs)
    BY <1>4, <2>1 DEF Resumable
  <2>3. top'.ifs = above.ifs
    BY <1>5, <1>9
  <2>4. QED
    BY <2>2, <2>3 DEF Live, InBlock, block, LiveIn
<1>11. Heading(output', files', top'.name, top'.next, Live')
  BY <1>1, <1>5, <1>6, <1>9, <1>10
<1>12. Resumable'
  <2> SUFFICES ASSUME NEW d \in 1 .. n - 1
               PROVE  LiveIn(stack'[d].ifs)
    BY <1>1, <1>8 DEF Resumable
  <2>1. d \in 1 .. Len(stack) - 1 /\ stack'[d] = stack[d]
    BY <1>1, <1>2, <1>8
  <2>2. QED
    BY <1>4, <2>1 DEF Resumable
<1>13. QED
  BY <1>1, <1>6, <1>11, <1>12 DEF Traced

(* The steps that end the reading. *)
LEMMA DoneTraced ==
  ASSUME IInv, Traced, EndOfFile, Len(stack) = 1
  PROVE  Traced'
<1>1. /\ outcome = "running" /\ outcome' = "done" /\ files' = files /\ output' = output
  BY Zenon DEF EndOfFile, LastRead
<1>2. QED
  BY <1>1 DEF Traced

LEMMA StopTraced ==
  ASSUME IInv, Traced, Reading, Prints(<<>>), files' = files, outcome' # "running"
  PROVE  Traced'
<1>1. Started(output \o Hint) /\ Attributed(output \o Hint, files)
  BY HintHeads
<1> DEFINE out == output \o Hint
<1>2. output' = out \o <<>>
  BY PrintsOnHint
<1>3. out \o <<>> = out
  BY <1>1, ConcatEmptySeq DEF Started
<1>4. QED
  BY <1>1, <1>2, <1>3, TracedStops

LEMMA ThrowTraced ==
  ASSUME IInv, Traced, Throw
  PROVE  Traced'
<1>1. /\ Reading /\ Prints(<<>>) /\ files' = files
      /\ outcome' = CASE line.op \in Conditions -> Condition(line, symbols)
                      [] line.op \notin Conditions -> "error"
      /\ line.op \in Conditions => outcome' \in {"error", "aborted"}
  BY Zenon DEF Throw, Handles
<1>2. outcome' # "running"
  BY <1>1
<1>3. QED
  BY <1>1, <1>2, StopTraced

LEMMA ElseAgainTraced ==
  ASSUME IInv, Traced, ElseAgain
  PROVE  Traced'
<1>1. Reading /\ Prints(<<>>) /\ files' = files /\ outcome' = "error"
  BY Zenon DEF ElseAgain, InLoop
<1>2. QED
  BY <1>1, StopTraced

LEMMA StutterTraced ==
  ASSUME Traced, UNCHANGED vars
  PROVE  Traced'
<1>1. files' = files /\ stack' = stack /\ output' = output /\ outcome' = outcome
  BY DEF vars
<1>2. top' = top /\ Live' = Live /\ Resumable' = Resumable
  BY Zenon, <1>1 DEF top, Live, InBlock, block, Resumable
<1>3. QED
  BY <1>1, <1>2 DEF Traced

LEMMA InitTraced ==
  ASSUME Init
  PROVE  Traced
<1> DEFINE o == FileLine(Main, 1, 0, FALSE)
           first == Input(Main)
<1>1. output = <<o>> /\ stack = <<first>>
  BY DEF Init
<1>2. o \in PrintedSet
  <2>1. Main \in STRING
    BY MacrosAssumption DEF Init
  <2>2. QED
    BY <2>1 DEF FileLine, PrintedSet
<1>3. /\ o.kind = "file" /\ o.name = Main /\ o.n = 1 /\ From(o) = 1 /\ ~o.hint
      /\ first.name = Main /\ first.next = 1 /\ first.ifs = <<>>
  BY DEF FileLine, From, Input
<1> HIDE DEF o, first
<1>4. output \in Seq(PrintedSet) /\ Len(output) = 1 /\ output[1] = o /\ output # <<>>
  BY <1>1, <1>2, EmptySeq
<1>5. Started(output)
  BY <1>3, <1>4 DEF Started
<1>6. Attributed(output, files)
  BY <1>3, <1>4 DEF Attributed, AttributedAt
<1>7. SinceIn(output, 1) = 1
  <2>1. FileAt(output, 1, 1)
    BY <1>3, <1>4 DEF FileAt
  <2>2. QED
    BY <2>1, SinceIs
<1>8. Len(stack) = 1 /\ top = first
  BY <1>1 DEF top, Last
<1>9. Live = TRUE /\ Resumable
  <2>1. top.ifs = <<>>
    BY <1>3, <1>8
  <2>2. QED
    BY <1>8, <2>1 DEF Live, InBlock, Resumable
<1>10. Heading(output, files, top.name, top.next, Live)
  BY <1>3, <1>4, <1>7, <1>8, <1>9 DEF Heading
<1>11. QED
  BY <1>5, <1>6, <1>9, <1>10 DEF Traced

LEMMA StepTraced ==
  ASSUME IInv, Traced, [Next]_vars
  PROVE  Traced'
<1>1. CASE Pass
  BY <1>1, PassTraced
<1>2. CASE ParseInstruction
  BY <1>2, ParseInstructionTraced
<1>3. CASE Define
  BY <1>3, DefineTraced
<1>4. CASE DefineMacro
  BY <1>4, DefineMacroTraced
<1>5. CASE OpenBlock
  BY <1>5, OpenBlockTraced
<1>6. CASE Include
  BY <1>6, IncludeTraced
<1>7. CASE Throw
  BY <1>7, ThrowTraced
<1>8. CASE ElseAgain
  BY <1>8, ElseAgainTraced
<1>9. CASE Else
  BY <1>9, ElseTraced
<1>10. CASE EndLive
  BY <1>10, EndLiveTraced
<1>11. CASE Skip
  BY <1>11, SkipTraced
<1>12. CASE EndOfFile
  BY <1>12, ReturnTraced, DoneTraced
<1>13. CASE Ended
  BY <1>13, StutterTraced DEF Ended
<1>14. CASE UNCHANGED vars
  BY <1>14, StutterTraced
<1>15. QED
  BY Zenon, <1>1, <1>2, <1>3, <1>4, <1>5, <1>6, <1>7, <1>8, <1>9, <1>10, <1>11, <1>12, <1>13,
     <1>14 DEF Next

LEMMA TracedAttributes ==
  ASSUME Traced
  PROVE  Attribution
<1>1. output \in Seq(PrintedSet) /\ Attributed(output, files)
  BY DEF Traced, Started
<1>2. DOMAIN output = 1 .. Len(output)
  BY <1>1, LenProperties
<1>3. \A n \in DOMAIN output : AttributedAt(output, files, n)
  BY <1>1, <1>2 DEF Attributed
<1>4. \A n : SinceIn(output, n) = Since(n)
  BY Zenon DEF SinceIn, Since
<1>5. ASSUME NEW n \in DOMAIN output, output[n].kind = "line"
      PROVE  LET m == output[Since(n)]
                 o == output[n]
             IN  /\ m.name = o.name
                 /\ Blamed(n) <= o.at + o.k + 1
                 /\ (\A p \in m.at + (IF m.hint THEN 0 ELSE 1) .. o.at - 1 :
                        ~Silent(files[o.name][p])) =>
                       Blamed(n) = o.at + o.k + IF m.hint THEN 1 ELSE 0
  <2>1. AttributedAt(output, files, n) /\ SinceIn(output, n) = Since(n)
    BY <1>3, <1>4
  <2>2. QED
    BY Zenon, <1>5, <2>1 DEF AttributedAt, Blamed, From
<1>6. QED
  BY Zenon, <1>5 DEF Attribution

(* However files, blocks and macros are nested, a line printed is blamed on *)
(* its own file, and on its own line (a macro's on as many lines behind the *)
(* call) if no block began or ended since the last .file line, on the next *)
(* one if that is a block's hint; never on a line further down.            *)
THEOREM LinesAttributed == Spec => []Attribution
<1>1. Init => IInv /\ Traced
  BY Initially, InitTraced
<1>2. IInv /\ Traced /\ [Next]_vars => IInv' /\ Traced'
  BY EveryStep, Stutters, StepTraced
<1>3. Traced => Attribution
  BY TracedAttributes
<1>4. QED
  BY <1>1, <1>2, <1>3, PTL DEF Spec
=============================================================================
