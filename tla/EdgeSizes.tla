----------------------------- MODULE EdgeSizes -----------------------------
(***************************************************************************)
(* Buffer sizes of the Nallatech edge channel, shared by the modules that  *)
(* model the host side and the FPGA side.  A word is one UMF chunk (64     *)
(* bits).  A raw chunk is what the link moves at once; when the channel    *)
(* corrects errors its last word is a checksum of the other words.         *)
(***************************************************************************)
EXTENDS Integers

CONSTANTS
  MaxMsgWords,   (* NALLATECH_MAX_MSG_WORDS: words in a shared window      *)
  MinMsgWords,   (* NALLATECH_MIN_MSG_WORDS: transfer granularity in words *)
  RawChunkWords, (* NALLATECH_RAW_CHUNK_WORDS: words in one link chunk     *)
  FixErrors      (* CHANNEL_H2F_FIX_ERRORS: interleave checksums?          *)

(***************************************************************************)
(* What the platform's parameters satisfy (4096, 64 and 32 bytes): windows *)
(* are whole transfers, transfers are whole raw chunks, and LegalBufSize   *)
(* asserts that the transfer granularity is a power of two.                *)
(***************************************************************************)
ASSUME SizesAssumption ==
  /\ RawChunkWords \in Nat /\ RawChunkWords >= 2
  /\ MinMsgWords \in Nat /\ MinMsgWords >= RawChunkWords
  /\ MaxMsgWords \in Nat /\ MaxMsgWords >= MinMsgWords
  /\ FixErrors \in BOOLEAN

ASSUME GranularityAssumption ==
  /\ MinMsgWords % RawChunkWords = 0
  /\ MaxMsgWords % MinMsgWords = 0
  /\ \E k \in 0 .. MinMsgWords : 2 ^ k = MinMsgWords

(* Words of a raw chunk that carry the message, not the checksum. *)
DataPerChunk == IF FixErrors THEN RawChunkWords - 1 ELSE RawChunkWords

(* Round up to whole transfers, then clamp to the legal range. *)
LegalBufSize(words) ==
  LET rounded == ((words + MinMsgWords - 1) \div MinMsgWords) * MinMsgWords
  IN  IF rounded > MaxMsgWords THEN MaxMsgWords
      ELSE IF rounded < MinMsgWords THEN MinMsgWords
      ELSE rounded

(* Data words that fit in a window once the checksums are added. *)
MaxWriteWords ==
  IF FixErrors
  THEN (MaxMsgWords * (RawChunkWords - 1)) \div RawChunkWords
  ELSE MaxMsgWords

(* Size InsertCheckBits returns for a buffer of n words: whole raw chunks. *)
CheckedSize(n) ==
  LET d == RawChunkWords - 1
  IN  ((n + d - 1) \div d) * RawChunkWords

(* Words handed to LegalBufSize for a freshly filled buffer of n words. *)
PreparedSize(n) == IF FixErrors THEN CheckedSize(n) ELSE n

(* Data words in a raw buffer: the count GenCommand puts in the command. *)
DataWords(raw) ==
  IF FixErrors THEN (raw * (RawChunkWords - 1)) \div RawChunkWords ELSE raw

(***************************************************************************)
(* An empty window holds the command word and has room for the end mark;   *)
(* with 512-word windows the bound is 384.                                 *)
(***************************************************************************)
ASSUME RoomAssumption == MaxWriteWords > 1
=============================================================================
