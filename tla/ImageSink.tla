----------------------------- MODULE ImageSink -----------------------------
(***************************************************************************)
(* The image sink as a component of its own: any sequence of image_write_* *)
(* and image_read_u32 calls on one open file.                              *)
(*                                                                         *)
(* latest and torn are history: what the caller has been told.  latest     *)
(* maps a file position to the byte of the last write there that returned  *)
(* 0; torn holds the positions of a write that returned -1 (the file       *)
(* operations failed part way), about which nothing is promised.           *)
(***************************************************************************)
EXTENDS Image

CONSTANTS
  Inputs,   (* the contents the input file may have *)
  Blocks    (* the byte sequences that may be written in one call *)

ASSUME SinkAssumption ==
  /\ Inputs \subseteq {f \in Seq(Byte) : Len(f) <= DiskMax}
  /\ Blocks \subseteq {b \in Seq(Byte) : Len(b) > 0 /\ 2 * Len(b) <= AddrMod}

VARIABLES
  input,    (* the input file, copied to the output before assembly *)
  allow,    (* allow_write_past_eof *)
  image,    (* g_image_sink *)
  rc,       (* the result of the last call *)
  latest, torn

vars == <<input, allow, image, rc, latest, torn>>

(* The file positions (from 1, as indices of image.file) of a block.       *)
Span(off, data) == off + 1 .. off + Len(data)

TypeOK ==
  /\ input \in {f \in Seq(Byte) : Len(f) <= DiskMax}
  /\ allow \in BOOLEAN
  /\ image \in ImageSet
  /\ Len(image.file) <= DiskMax
  /\ rc \in {0, -1, -2}
  /\ DOMAIN latest \subseteq Nat
  /\ torn \subseteq Nat

Init ==
  /\ input \in Inputs
  /\ allow \in BOOLEAN
  /\ image = Opened(input)
  /\ rc = 0
  /\ latest = [i \in {} |-> Zero]
  /\ torn = {}

WriteBytes(off, data) ==
  LET res == ImageWriteBytes(image, off, data, allow)
  IN  /\ image' = res.img
      /\ rc' = res.rc
      /\ latest' = IF res.rc = 0
                   THEN [i \in DOMAIN latest \cup Span(off, data) |->
                           IF i \in Span(off, data) THEN data[i - off] ELSE latest[i]]
                   ELSE latest
      /\ torn' = IF res.rc = 0 THEN torn \ Span(off, data)
                 ELSE IF res.rc = -1 THEN torn \cup Span(off, data) ELSE torn
      /\ UNCHANGED <<input, allow>>

(* fread's result handed on instead of 0. *)
ReadU32_Count(off, n) ==
  /\ rc' = IF ImageReadable(image, off, n) THEN n ELSE -1
  /\ UNCHANGED <<input, allow, image, latest, torn>>

ReadU32(off, n) ==
  /\ rc' = IF ImageReadable(image, off, n) THEN 0 ELSE -1
  /\ UNCHANGED <<input, allow, image, latest, torn>>

Next ==
  \/ \E off \in Offset, data \in Blocks : WriteBytes(off, data)
  \/ \E off \in Offset : ReadU32(off, 4)

Spec == Init /\ [][Next]_vars
-----------------------------------------------------------------------------
(* The file is the input with the successful writes laid over it in order, *)
(* and zeros in the gaps between the old end and what was written past it: *)
(* no call damages a byte outside its own span, whatever calls failed      *)
(* before it.                                                              *)
FileIsInputPlusWrites ==
  \A i \in 1 .. Len(image.file) : i \notin torn =>
    image.file[i] = IF i \in DOMAIN latest THEN latest[i]
                    ELSE IF i <= Len(input) THEN input[i] ELSE Zero

(* Every byte that a call reported as written is inside the file, and the  *)
(* size the sink remembers covers it but never reaches past the end of the *)
(* file, so a later bounds check against size is neither too strict for    *)
(* what was written nor too lax for what can be read back.                 *)
SizeCoversWrites ==
  /\ image.size <= Len(image.file)
  /\ Len(input) <= image.size
  /\ \A i \in DOMAIN latest : i <= image.size

(* Without --allow-write-past-eof the patcher never changes the length of  *)
(* the file, whatever offsets it is asked to write at, wrapped ones        *)
(* included.                                                               *)
NoGrowthUnlessAllowed == ~allow => Len(image.file) = Len(input)
=============================================================================
