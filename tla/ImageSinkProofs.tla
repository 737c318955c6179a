-------------------------- MODULE ImageSinkProofs --------------------------
(***************************************************************************)
(* The image sink is right for every file, every disk, every width of an   *)
(* offset and every sequence of calls.                                     *)
(***************************************************************************)
EXTENDS ImageSink, SequenceLemmas

LEMMA LargerBounds ==
  ASSUME NEW m \in Int, NEW n \in Int
  PROVE  /\ Larger(m, n) \in Int
         /\ Larger(m, n) >= m /\ Larger(m, n) >= n
         /\ Larger(m, n) \in {m, n}
  BY DEF Larger

(* Writing data at off changes the bytes of data's span and no others.     *)
LEMMA OverlayBytes ==
  ASSUME NEW f \in Seq(Byte), NEW data \in Seq(Byte), NEW off \in 0 .. Len(f)
  PROVE  /\ Overlay(f, off, data) \in Seq(Byte)
         /\ Len(Overlay(f, off, data)) = Larger(Len(f), off + Len(data))
         /\ \A i \in 1 .. Larger(Len(f), off + Len(data)) :
              Overlay(f, off, data)[i] =
                IF i \in Span(off, data) THEN data[i - off] ELSE f[i]
<1> DEFINE t == SubSeq(f, 1, off) \o data \o SubSeq(f, off + Len(data) + 1, Len(f))
           n == IF Len(f) >= off + Len(data) THEN Len(f) ELSE off + Len(data)
<1>1. /\ t \in Seq(Byte) /\ Len(t) = n
      /\ \A i \in 1 .. n :
           t[i] = IF i \in off + 1 .. off + Len(data) THEN data[i - off] ELSE f[i]
  BY Zenon, Overwritten
<1>2. Overlay(f, off, data) = t
  BY DEF Overlay
<1>3. Larger(Len(f), off + Len(data)) = n
  BY DEF Larger
<1>4. Span(off, data) = off + 1 .. off + Len(data)
  BY DEF Span
<1> HIDE DEF t, n
<1>5. QED
  BY <1>1, <1>2, <1>3, <1>4

LEMMA ZeroFillBytes ==
  ASSUME NEW f \in Seq(Byte), NEW upto \in Nat
  PROVE  /\ ZeroFill(f, upto) \in Seq(Byte)
         /\ Len(ZeroFill(f, upto)) = Larger(Len(f), upto)
         /\ \A i \in 1 .. Larger(Len(f), upto) :
              ZeroFill(f, upto)[i] = IF i <= Len(f) THEN f[i] ELSE Zero
<1> DEFINE n == Larger(0, upto - Len(f))
<1>1. Len(f) \in Nat
  BY LenProperties
<1>2. n \in Nat /\ Len(f) + n = Larger(Len(f), upto)
  BY <1>1 DEF Larger
<1>3. ZeroFill(f, upto) = f \o [i \in 1 .. n |-> Zero]
  BY DEF ZeroFill
<1> HIDE DEF n
<1>4. QED
  BY <1>2, <1>3, ImageAssumption, Continued

(* What the writer of a block at off, and its caller, may rely on: an      *)
(* image before and after.                                                 *)
Sink(img) ==
  /\ img \in ImageSet
  /\ img.size <= Len(img.file)
  /\ Len(img.file) <= DiskMax

LEMMA ExtendEffect ==
  ASSUME NEW img, Sink(img), NEW off \in Offset
  PROVE  LET ext == ImageExtendToOffset(img, off)
         IN  /\ Sink(ext.img)
             /\ img.size <= ext.img.size
             /\ Len(img.file) <= Len(ext.img.file)
             /\ \A i \in 1 .. Len(ext.img.file) :
                  ext.img.file[i] = IF i <= Len(img.file) THEN img.file[i] ELSE Zero
             /\ ext.rc \in {0, -1}
             /\ ext.rc = 0 => off <= ext.img.size
<1> DEFINE ext == ImageExtendToOffset(img, off)
<1>1. /\ img.file \in Seq(Byte) /\ Len(img.file) \in Nat /\ img.size \in Nat
      /\ img = [file |-> img.file, size |-> img.size]
      /\ off \in Nat /\ DiskMax \in Nat
      /\ img.size <= Len(img.file) /\ Len(img.file) <= DiskMax
  BY LenProperties, ImageAssumption DEF Sink, ImageSet, Offset
<1>2. CASE off <= img.size
  <2>1. ext = [rc |-> 0, img |-> img]
    BY <1>2 DEF ImageExtendToOffset
  <2>2. QED
    BY <1>1, <1>2, <2>1
<1>3. CASE off > img.size /\ off > DiskMax
  <2> DEFINE g == ZeroFill(img.file, DiskMax)
  <2>1. ext = [rc |-> -1, img |-> [file |-> g, size |-> img.size]]
    BY <1>1, <1>3 DEF ImageExtendToOffset
  <2>2. /\ g \in Seq(Byte) /\ Len(g) = DiskMax
        /\ \A i \in 1 .. DiskMax : g[i] = IF i <= Len(img.file) THEN img.file[i] ELSE Zero
    <3>1. Larger(Len(img.file), DiskMax) = DiskMax
      BY <1>1 DEF Larger
    <3>2. QED
      BY <1>1, <3>1, ZeroFillBytes
  <2> HIDE DEF g
  <2>3. QED
    BY <1>1, <1>3, <2>1, <2>2 DEF Sink, ImageSet
<1>4. CASE off > img.size /\ off <= DiskMax
  <2> DEFINE g == ZeroFill(img.file, off)
  <2>1. ext = [rc |-> 0, img |-> [file |-> g, size |-> off]]
    BY <1>1, <1>4 DEF ImageExtendToOffset
  <2>2. /\ g \in Seq(Byte) /\ Len(g) = Larger(Len(img.file), off)
        /\ \A i \in 1 .. Larger(Len(img.file), off) :
             g[i] = IF i <= Len(img.file) THEN img.file[i] ELSE Zero
    BY <1>1, ZeroFillBytes
  <2>3. Len(g) >= off /\ Len(g) >= Len(img.file) /\ Len(g) <= DiskMax /\ Len(g) \in Nat
    BY <1>1, <1>4, <2>2 DEF Larger
  <2> HIDE DEF g
  <2>4. QED
    BY <1>1, <1>4, <2>1, <2>2, <2>3 DEF Sink, ImageSet
<1>5. QED
  BY <1>1, <1>2, <1>3, <1>4

LEMMA FittingBlock ==
  ASSUME NEW data \in Seq(Byte), NEW off \in 0 .. DiskMax, off + Len(data) > DiskMax
  PROVE  /\ Fitting(data, off) \in Seq(Byte)
         /\ Len(Fitting(data, off)) = DiskMax - off
         /\ Span(off, Fitting(data, off)) \subseteq Span(off, data)
<1> DEFINE n == Larger(0, DiskMax - off)
<1>1. n = DiskMax - off /\ n \in Nat /\ Len(data) \in Nat /\ n < Len(data)
      /\ DiskMax \in Nat
  BY LenProperties, ImageAssumption DEF Larger
<1>2. Fitting(data, off) = SubSeq(data, 1, n)
  BY DEF Fitting
<1> HIDE DEF n
<1>3. Fitting(data, off) \in Seq(Byte) /\ Len(Fitting(data, off)) = n
  BY <1>1, <1>2, Beginning
<1>4. QED
  BY <1>1, <1>3 DEF Span

(* What one call to image_write_bytes may and may not do.                  *)
WriteOk(img, off, data, allow_, r) ==
  /\ Sink(r.img)
  /\ img.size <= r.img.size
  /\ Len(img.file) <= Len(r.img.file)
  /\ \A i \in 1 .. Len(r.img.file) : i \notin Span(off, data) =>
       r.img.file[i] = IF i <= Len(img.file) THEN img.file[i] ELSE Zero
  /\ r.rc \in {0, -1, -2}
  /\ r.rc = -2 => r.img = img
  /\ r.rc = 0 => \A i \in Span(off, data) :
                   i <= r.img.size /\ r.img.file[i] = data[i - off]
  /\ ~allow_ /\ img.size = Len(img.file) => Len(r.img.file) = Len(img.file)

Block == {b \in Seq(Byte) : Len(b) > 0 /\ 2 * Len(b) <= AddrMod}

(* Only a seekable offset gets as far as the file, and there the end of    *)
(* the write has not wrapped around.                                       *)
LEMMA NoWrap ==
  ASSUME NEW off \in Offset, NEW n \in Nat, 2 * n <= AddrMod, Seekable(off)
  PROVE  (off + n) % AddrMod = off + n
<1>1. off + n \in 0 .. AddrMod - 1
  BY ImageAssumption DEF Offset, Seekable
<1> DEFINE e == off + n
<1>2. e \in 0 .. AddrMod - 1
  BY <1>1
<1> HIDE DEF e
<1>3. e % AddrMod = e
  BY <1>2, ImageAssumption
<1>4. QED
  BY <1>3 DEF e

LEMMA WriteEffect ==
  ASSUME NEW img, Sink(img), NEW off \in Offset, NEW data \in Block,
         NEW allow_ \in BOOLEAN
  PROVE  WriteOk(img, off, data, allow_, ImageWriteBytes(img, off, data, allow_))
<1> DEFINE r == ImageWriteBytes(img, off, data, allow_)
           end == (off + Len(data)) % AddrMod
           past == PastEnd(img, off, Len(data))
           ext == IF past THEN ImageExtendToOffset(img, off)
                  ELSE [rc |-> 0, img |-> img]
<1>1. /\ img.file \in Seq(Byte) /\ Len(img.file) \in Nat /\ img.size \in Nat
      /\ off \in Nat /\ DiskMax \in Nat /\ data \in Seq(Byte)
      /\ Len(data) \in Nat \ {0} /\ 2 * Len(data) <= AddrMod
      /\ img.size <= Len(img.file) /\ Len(img.file) <= DiskMax
  BY LenProperties, ImageAssumption DEF Sink, ImageSet, Offset, Block
<1>2. /\ Sink(ext.img)
      /\ img.size <= ext.img.size
      /\ Len(img.file) <= Len(ext.img.file)
      /\ \A i \in 1 .. Len(ext.img.file) :
           ext.img.file[i] = IF i <= Len(img.file) THEN img.file[i] ELSE Zero
      /\ ext.rc \in {0, -1}
      /\ ext.rc = 0 /\ past => off <= ext.img.size
      /\ ~past => ext.img = img
  <2>1. CASE past
    BY <2>1, ExtendEffect
  <2>2. CASE ~past
    BY <1>1, <2>2
  <2>3. QED
    BY <2>1, <2>2
<1>3. ext.img.file \in Seq(Byte) /\ ext.img.size \in Nat /\ Len(ext.img.file) \in Nat
      /\ ext.img.size <= Len(ext.img.file) /\ Len(ext.img.file) <= DiskMax
  BY <1>2, LenProperties DEF Sink, ImageSet
<1>3a. r = IF past /\ ~allow_
           THEN [rc |-> -2, img |-> img]
           ELSE IF ext.rc # 0 \/ ~Seekable(off)
           THEN [rc |-> -1, img |-> ext.img]
           ELSE IF off + Len(data) > DiskMax
           THEN [rc |-> -1,
                 img |-> [file |-> Overlay(ext.img.file, off, Fitting(data, off)),
                          size |-> ext.img.size]]
           ELSE [rc |-> 0,
                 img |-> [file |-> Overlay(ext.img.file, off, data),
                          size |-> SizeAfter(ext.img, end)]]
  BY Zenon DEF ImageWriteBytes
<1>4. CASE past /\ ~allow_
  <2>1. r = [rc |-> -2, img |-> img]
    BY <1>4 DEF ImageWriteBytes
  <2> HIDE DEF r
  <2>2. QED
    BY <1>1, <2>1 DEF WriteOk, r
<1> DEFINE through == ~(past /\ ~allow_)
<1>5. CASE through /\ (ext.rc # 0 \/ ~Seekable(off))
  <2>1. r = [rc |-> -1, img |-> ext.img]
    BY <1>5 DEF ImageWriteBytes
  <2>2. ~allow_ => ext.img = img
    BY <1>2, <1>5
  <2> HIDE DEF r, ext
  <2>3. QED
    BY <1>1, <1>2, <2>1, <2>2 DEF WriteOk, r
<1>6. CASE through /\ ext.rc = 0 /\ Seekable(off)
  <2>1. end = off + Len(data)
    BY <1>1, <1>6, NoWrap
  <2>2. off \in 0 .. Len(ext.img.file) /\ (~past => off + Len(data) <= img.size)
    <3>1. CASE past
      BY <1>1, <1>2, <1>3, <1>6, <3>1
    <3>2. CASE ~past
      <4>1. off + Len(data) <= img.size
        BY <1>1, <2>1, <3>2 DEF PastEnd
      <4>2. QED
        BY <1>1, <1>2, <3>2, <4>1
    <3>3. QED
      BY <3>1, <3>2
  <2>3. CASE off + Len(data) > DiskMax
    <3> DEFINE part == Fitting(data, off)
               g == Overlay(ext.img.file, off, part)
    <3>1. /\ part \in Seq(Byte) /\ Len(part) = DiskMax - off
          /\ Span(off, part) \subseteq Span(off, data)
      <4>1. off \in 0 .. DiskMax
        BY <1>1, <1>3, <2>2
      <4>2. QED
        BY <1>1, <2>3, <4>1, FittingBlock
    <3>2. /\ g \in Seq(Byte) /\ Len(g) = Larger(Len(ext.img.file), off + Len(part))
          /\ \A i \in 1 .. Larger(Len(ext.img.file), off + Len(part)) :
               g[i] = IF i \in Span(off, part) THEN part[i - off] ELSE ext.img.file[i]
      <4> DEFINE f == ext.img.file
      <4>1. f \in Seq(Byte) /\ off \in 0 .. Len(f) /\ g = Overlay(f, off, part)
        BY <1>3, <2>2
      <4> HIDE DEF f, g, part
      <4>2. /\ g \in Seq(Byte) /\ Len(g) = Larger(Len(f), off + Len(part))
            /\ \A i \in 1 .. Larger(Len(f), off + Len(part)) :
                 g[i] = IF i \in Span(off, part) THEN part[i - off] ELSE f[i]
        <5>1. part \in Seq(Byte) /\ f \in Seq(Byte) /\ off \in 0 .. Len(f)
          BY <3>1, <4>1
        <5>2. /\ Overlay(f, off, part) \in Seq(Byte)
              /\ Len(Overlay(f, off, part)) = Larger(Len(f), off + Len(part))
              /\ \A i \in 1 .. Larger(Len(f), off + Len(part)) :
                   Overlay(f, off, part)[i] = IF i \in Span(off, part) THEN part[i - off] ELSE f[i]
          BY ONLY <5>1, OverlayBytes
        <5>3. QED
          BY <4>1, <5>2
      <4>3. QED
        BY <4>2 DEF f
    <3> HIDE DEF part
    <3>3. Len(g) = DiskMax
      BY <1>1, <1>3, <2>2, <3>1, <3>2 DEF Larger
    <3>4. past
      BY <1>1, <2>2, <2>3
    <3>5. r = [rc |-> -1, img |-> [file |-> g, size |-> ext.img.size]]
      <4> HIDE DEF r, ext, past
      <4>1. QED
        BY Zenon, <1>3a, <1>6, <2>3 DEF part, g
    <3>6. \A i \in 1 .. DiskMax : i \notin Span(off, data) =>
            g[i] = IF i <= Len(img.file) THEN img.file[i] ELSE Zero
      <4> SUFFICES ASSUME NEW i \in 1 .. DiskMax, i \notin Span(off, data)
                   PROVE  g[i] = IF i <= Len(img.file) THEN img.file[i] ELSE Zero
        OBVIOUS
      <4>1. i \notin Span(off, part)
        BY <3>1
      <4>2. g[i] = ext.img.file[i]
        BY <3>2, <3>3, <4>1
      <4>3. i <= Len(ext.img.file)
        <5>1. off + Len(part) = DiskMax
          BY <1>1, <3>1, <2>2
        <5>2. i <= off
          BY <1>1, <4>1, <5>1, <2>2 DEF Span
        <5>3. QED
          BY <1>3, <2>2, <5>2
      <4>4. QED
        BY <1>2, <1>3, <4>2, <4>3
    <3> HIDE DEF g, r, ext, past
    <3>7. QED
      BY <1>1, <1>2, <1>3, <1>6, <3>2, <3>3, <3>4, <3>5, <3>6 DEF WriteOk, Sink, ImageSet, r
  <2>4. CASE off + Len(data) <= DiskMax
    <3> DEFINE g == Overlay(ext.img.file, off, data)
               m == SizeAfter(ext.img, end)
    <3>1. /\ g \in Seq(Byte) /\ Len(g) = Larger(Len(ext.img.file), off + Len(data))
          /\ \A i \in 1 .. Larger(Len(ext.img.file), off + Len(data)) :
               g[i] = IF i \in Span(off, data) THEN data[i - off] ELSE ext.img.file[i]
      <4> DEFINE f == ext.img.file
      <4>1. f \in Seq(Byte) /\ off \in 0 .. Len(f) /\ g = Overlay(f, off, data)
        BY <1>3, <2>2
      <4> HIDE DEF f, g
      <4>2. /\ g \in Seq(Byte) /\ Len(g) = Larger(Len(f), off + Len(data))
            /\ \A i \in 1 .. Larger(Len(f), off + Len(data)) :
                 g[i] = IF i \in Span(off, data) THEN data[i - off] ELSE f[i]
        <5>1. data \in Seq(Byte) /\ f \in Seq(Byte) /\ off \in 0 .. Len(f)
          BY <1>1, <4>1
        <5>2. /\ Overlay(f, off, data) \in Seq(Byte)
              /\ Len(Overlay(f, off, data)) = Larger(Len(f), off + Len(data))
              /\ \A i \in 1 .. Larger(Len(f), off + Len(data)) :
                   Overlay(f, off, data)[i] = IF i \in Span(off, data) THEN data[i - off] ELSE f[i]
          BY ONLY <5>1, OverlayBytes
        <5>3. QED
          BY <4>1, <5>2
      <4>3. QED
        BY <4>2 DEF f
    <3>2. r = [rc |-> 0, img |-> [file |-> g, size |-> m]]
      <4> HIDE DEF r, ext, past, end
      <4>1. ~(off + Len(data) > DiskMax)
        BY <1>1, <2>4
      <4>2. QED
        BY Zenon, <1>3a, <1>6, <4>1 DEF g, m
    <3>3. m = Larger(ext.img.size, off + Len(data))
      BY <2>1 DEF SizeAfter
    <3> HIDE DEF g, m
    <3>4. /\ m \in Nat /\ ext.img.size <= m /\ off + Len(data) <= m
          /\ m <= Len(g) /\ Len(g) <= DiskMax
          /\ Len(ext.img.file) <= Len(g) /\ Len(g) \in Nat
          /\ (~past => Len(g) = Len(ext.img.file))
      BY <1>1, <1>2, <1>3, <2>2, <2>4, <3>1, <3>3 DEF Larger
    <3>5. ASSUME NEW i \in 1 .. Len(g), i \notin Span(off, data)
          PROVE  g[i] = IF i <= Len(img.file) THEN img.file[i] ELSE Zero
      <4>1. g[i] = ext.img.file[i]
        BY <3>1, <3>5
      <4>2. i <= Len(ext.img.file)
        BY <1>1, <1>3, <2>2, <3>1, <3>5 DEF Span, Larger
      <4>3. QED
        BY <1>2, <1>3, <3>4, <4>1, <4>2
    <3>6. ASSUME NEW i \in Span(off, data)
          PROVE  i <= m /\ g[i] = data[i - off]
      <4>1. i \in 1 .. off + Len(data)
        BY <1>1 DEF Span
      <4>2. i \in 1 .. Larger(Len(ext.img.file), off + Len(data))
        BY <1>1, <1>3, <4>1 DEF Larger
      <4>3. QED
        BY <1>1, <3>1, <3>4, <4>1, <4>2
    <3> HIDE DEF r, ext, past
    <3>7. QED
      BY <1>1, <1>2, <1>3, <1>6, <3>1, <3>2, <3>4, <3>5, <3>6
      DEF WriteOk, Sink, ImageSet, r
  <2>5. QED
    BY <1>1, <2>3, <2>4
<1>7. QED
  BY <1>2, <1>4, <1>5, <1>6
-----------------------------------------------------------------------------
(* What is known of latest beside the properties themselves: its positions *)
(* lie in the file, and the bytes of torn positions are unknown.           *)
History ==
  /\ DOMAIN latest \subseteq 1 .. image.size
  /\ torn \subseteq Nat

IInv ==
  /\ TypeOK
  /\ image.size <= Len(image.file)
  /\ Len(input) <= image.size
  /\ History
  /\ FileIsInputPlusWrites
  /\ NoGrowthUnlessAllowed

(* The properties hold together: each needs the others to survive a call.  *)
THEOREM InductiveInvariant == Spec => []IInv
<1>1. Init => IInv
  BY SinkAssumption, LenProperties, ElementOfSeq
  DEF Init, IInv, TypeOK, History, FileIsInputPlusWrites, NoGrowthUnlessAllowed,
      Opened, ImageSet
<1>2. IInv /\ [Next]_vars => IInv'
  <2> SUFFICES ASSUME IInv, [Next]_vars PROVE IInv'
    OBVIOUS
  <2>1. /\ Sink(image) /\ input \in Seq(Byte) /\ Len(input) \in Nat
        /\ image.size \in Nat /\ Len(image.file) \in Nat /\ allow \in BOOLEAN
    BY LenProperties DEF IInv, TypeOK, Sink, ImageSet
  <2>2. ASSUME NEW off \in Offset, NEW data \in Blocks, WriteBytes(off, data)
        PROVE  IInv'
    <3> DEFINE r == ImageWriteBytes(image, off, data, allow)
    <3>1. data \in Block /\ Len(data) \in Nat /\ off \in Nat
      BY SinkAssumption, LenProperties DEF Block, Offset
    <3>2. WriteOk(image, off, data, allow, r)
      BY <2>1, <3>1, WriteEffect
    <3>3. /\ image' = r.img /\ rc' = r.rc /\ input' = input /\ allow' = allow
          /\ latest' = IF r.rc = 0
                       THEN [i \in DOMAIN latest \cup Span(off, data) |->
                               IF i \in Span(off, data) THEN data[i - off] ELSE latest[i]]
                       ELSE latest
          /\ torn' = IF r.rc = 0 THEN torn \ Span(off, data)
                     ELSE IF r.rc = -1 THEN torn \cup Span(off, data) ELSE torn
      BY <2>2 DEF WriteBytes
    <3> HIDE DEF r
    <3>4. Span(off, data) \subseteq Nat \ {0}
      BY <3>1 DEF Span
    <3>5. Sink(image') /\ image'.size \in Nat /\ Len(image'.file) \in Nat
          /\ image.size <= image'.size
      BY <3>2, <3>3, LenProperties DEF WriteOk, Sink, ImageSet
    <3>6. torn' \subseteq Nat
      BY <3>2, <3>3, <3>4 DEF IInv, History, WriteOk
    <3>7. DOMAIN latest' \subseteq 1 .. image'.size
      <4>1. CASE r.rc = 0
        <5>1. DOMAIN latest' = DOMAIN latest \cup Span(off, data)
          BY <3>3, <4>1
        <5>2. \A i \in Span(off, data) : i <= image'.size
          BY <3>2, <3>3, <4>1 DEF WriteOk
        <5>3. QED
          BY <2>1, <3>4, <3>5, <5>1, <5>2 DEF IInv, History
      <4>2. CASE r.rc # 0
        BY <2>1, <3>3, <3>5, <4>2 DEF IInv, History
      <4>3. QED
        BY <4>1, <4>2
    <3>8. TypeOK'
      BY <3>2, <3>3, <3>5, <3>6, <3>7 DEF IInv, TypeOK, Sink, WriteOk
    <3>9. FileIsInputPlusWrites'
      <4> SUFFICES ASSUME NEW i \in 1 .. Len(image'.file), i \notin torn'
                   PROVE  image'.file[i] = IF i \in DOMAIN latest' THEN latest'[i]
                                           ELSE IF i <= Len(input') THEN input'[i] ELSE Zero
        BY DEF FileIsInputPlusWrites
      <4>1. CASE i \in Span(off, data)
        <5>1. r.rc = 0 \/ r.rc = -2
          BY <3>2, <3>3, <4>1 DEF WriteOk
        <5>2. CASE r.rc = 0
          BY <3>2, <3>3, <4>1, <5>2 DEF WriteOk
        <5>3. CASE r.rc = -2
          BY <3>2, <3>3, <5>3 DEF WriteOk, IInv, FileIsInputPlusWrites
        <5>4. QED
          BY <5>1, <5>2, <5>3
      <4>2. CASE i \notin Span(off, data)
        <5>1. i \notin torn
          BY <3>2, <3>3, <4>2 DEF WriteOk
        <5>2. image'.file[i] = IF i <= Len(image.file) THEN image.file[i] ELSE Zero
          BY <3>2, <3>3, <4>2 DEF WriteOk
        <5>3. (i \in DOMAIN latest' <=> i \in DOMAIN latest)
              /\ (i \in DOMAIN latest => latest'[i] = latest[i])
          BY <3>3, <4>2
        <5>4. CASE i <= Len(image.file)
          <6>1. i \in 1 .. Len(image.file)
            BY <2>1, <3>5, <5>4
          <6>2. image.file[i] = IF i \in DOMAIN latest THEN latest[i]
                                ELSE IF i <= Len(input) THEN input[i] ELSE Zero
            BY <5>1, <6>1 DEF IInv, FileIsInputPlusWrites
          <6>3. QED
            BY <3>3, <5>2, <5>3, <5>4, <6>2
        <5>5. CASE i > Len(image.file)
          <6>1. i \notin DOMAIN latest /\ ~(i <= Len(input)) /\ ~(i <= Len(image.file))
            BY <2>1, <3>5, <5>5 DEF IInv, History
          <6>2. QED
            BY <3>3, <5>2, <5>3, <6>1
        <5>6. QED
          BY <2>1, <3>5, <5>4, <5>5
      <4>3. QED
        BY <4>1, <4>2
    <3>10. NoGrowthUnlessAllowed'
      <4> SUFFICES ASSUME ~allow' PROVE Len(image'.file) = Len(input')
        BY DEF NoGrowthUnlessAllowed
      <4>1. Len(image.file) = Len(input) /\ image.size = Len(image.file)
        BY <2>1, <3>3 DEF IInv, NoGrowthUnlessAllowed
      <4>2. QED
        BY <3>2, <3>3, <4>1 DEF WriteOk
    <3>11. QED
      BY <2>1, <3>3, <3>5, <3>6, <3>7, <3>8, <3>9, <3>10 DEF IInv, History, Sink
  <2>3. ASSUME NEW off \in Offset, ReadU32(off, 4)
        PROVE  IInv'
    BY <2>3 DEF ReadU32, IInv, TypeOK, History, FileIsInputPlusWrites, NoGrowthUnlessAllowed
  <2>4. CASE UNCHANGED vars
    BY <2>4 DEF vars, IInv, TypeOK, History, FileIsInputPlusWrites, NoGrowthUnlessAllowed
  <2>5. QED
    BY <2>2, <2>3, <2>4 DEF Next
<1>3. QED
  BY <1>1, <1>2, PTL DEF Spec

(* The variables keep their types; the file never outgrows the disk.       *)
THEOREM TypeCorrect == Spec => []TypeOK
<1>1. IInv => TypeOK
  BY DEF IInv
<1>2. QED
  BY <1>1, InductiveInvariant, PTL

(* No call changes a byte outside its own span.                            *)
THEOREM FileCorrect == Spec => []FileIsInputPlusWrites
<1>1. IInv => FileIsInputPlusWrites
  BY DEF IInv
<1>2. QED
  BY <1>1, InductiveInvariant, PTL

(* The size the sink remembers lies between what was written and the end   *)
(* of the file.                                                            *)
THEOREM SizeCorrect == Spec => []SizeCoversWrites
<1>1. IInv => SizeCoversWrites
  BY DEF IInv, History, SizeCoversWrites
<1>2. QED
  BY <1>1, InductiveInvariant, PTL

(* Without --allow-write-past-eof the file keeps its length.               *)
THEOREM LengthKept == Spec => []NoGrowthUnlessAllowed
<1>1. IInv => NoGrowthUnlessAllowed
  BY DEF IInv
<1>2. QED
  BY <1>1, InductiveInvariant, PTL
=============================================================================
