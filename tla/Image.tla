------------------------------- MODULE Image -------------------------------
(***************************************************************************)
(* The image sink of prtasm.cpp: the output file that the patcher copies   *)
(* the input to and then overwrites in place, together with the size field *)
(* the code keeps beside the FILE pointer.  Only the pure operations are   *)
(* here; ImageSink makes a state machine of them and Assembler uses them   *)
(* to emit code and data.                                                  *)
(***************************************************************************)
EXTENDS Integers, Sequences

CONSTANTS
  Byte,     (* the values of one byte of the file                           *)
  Zero,     (* the zero byte image_extend_to_offset fills gaps with         *)
  AddrMod,  (* 2^64: offsets are unsigned long long and wrap around         *)
  DiskMax   (* the length at which fwrite starts to fail: the disk is full  *)

ASSUME ImageAssumption ==
  /\ Zero \in Byte
  /\ AddrMod \in Nat \ {0}
  /\ DiskMax \in Nat
  /\ 2 * DiskMax < AddrMod

Offset == 0 .. AddrMod - 1

(* g_image_sink: what fp holds, and the size member.  File byte number k   *)
(* (counted from 0) is file[k + 1].                                        *)
ImageSet == [file : Seq(Byte), size : Nat]

Opened(f) == [file |-> f, size |-> Len(f)]

Larger(m, n) == IF m >= n THEN m ELSE n

(* fseek takes a long: offsets from 2^63 on become negative and fail.      *)
Seekable(off) == 2 * off < AddrMod

(* The file opened for appending, so that data goes to its end.  Here and  *)
(* below, a name with _ is a mistake that could be made where the          *)
(* definition after it stands; no definition uses it.                      *)
Overlay_Append(f, off, data) == f \o data

(* The file after data has been written at off, which is inside it or at   *)
(* its end.                                                                *)
Overlay(f, off, data) ==
  SubSeq(f, 1, off) \o data \o SubSeq(f, off + Len(data) + 1, Len(f))

(* The zero chunks image_extend_to_offset appends at the end of the file.  *)
ZeroFill(f, upto) == f \o [i \in 1 .. Larger(0, upto - Len(f)) |-> Zero]

(* The part of data that still fits when the disk fills up during fwrite.  *)
Fitting(data, off) == SubSeq(data, 1, Larger(0, DiskMax - off))

ImageExtendToOffset(img, off) ==
  IF off <= img.size
  THEN [rc |-> 0, img |-> img]
  ELSE IF off > DiskMax
  THEN [rc |-> -1, img |-> [file |-> ZeroFill(img.file, DiskMax), size |-> img.size]]
  ELSE [rc |-> 0, img |-> [file |-> ZeroFill(img.file, off), size |-> off]]

(* Does a write of n bytes need --allow-write-past-eof? *)
PastEnd_ByStart(img, off, n) == off > img.size

PastEnd(img, off, n) == (off + n) % AddrMod > img.size

(* The size member after a write that ended at end. *)
SizeAfter_Unchanged(img, end) == img.size

SizeAfter(img, end) == Larger(img.size, end)

(* image_write_bytes: -2 when the write would pass the end of the file and *)
(* --allow-write-past-eof is off, -1 when the file operations fail.        *)
ImageWriteBytes(img, off, data, allow) ==
  LET end  == (off + Len(data)) % AddrMod
      past == PastEnd(img, off, Len(data))
      ext  == IF past THEN ImageExtendToOffset(img, off)
                      ELSE [rc |-> 0, img |-> img]
  IN  IF past /\ ~allow
      THEN [rc |-> -2, img |-> img]
      ELSE IF ext.rc # 0 \/ ~Seekable(off)
      THEN [rc |-> -1, img |-> ext.img]
      ELSE IF off + Len(data) > DiskMax
      THEN [rc |-> -1,
            img |-> [file |-> Overlay(ext.img.file, off, Fitting(data, off)),
                     size |-> ext.img.size]]
      ELSE [rc |-> 0,
            img |-> [file |-> Overlay(ext.img.file, off, data),
                     size |-> SizeAfter(ext.img, end)]]

(* image_read_u32, for a word of n bytes.                                  *)
ImageReadable(img, off, n) ==
  /\ (off + n) % AddrMod <= img.size
  /\ Seekable(off)
  /\ off + n <= Len(img.file)

ImageRead(img, off, n) == [i \in 1 .. n |-> img.file[off + i]]
=============================================================================
