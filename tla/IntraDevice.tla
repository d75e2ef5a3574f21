---------------------------- MODULE IntraDevice -----------------------------
(***************************************************************************)
(* The device by which the two compute FPGAs of a module exchange words.   *)
(* Nothing tells an FPGA that its peer is configured, so the device of     *)
(* FPGA 0, which the host configures first, takes no word from its client  *)
(* until the device of FPGA 1 has sent it one.                             *)
(*                                                                         *)
(* The FIFOs on either side of the vendor's link are one queue per         *)
(* direction and side; a word that reaches an FPGA which is not configured *)
(* is lost.  Configure is the host's (EdgeDevice).                         *)
(***************************************************************************)
EXTENDS Naturals, Sequences

CONSTANTS
  QueueDepth,   (* words that the FIFOs of one direction hold on one side *)
  MaxWords      (* words each client sends (model bound)                  *)

ASSUME IntraAssumption == QueueDepth \in Nat \ {0} /\ MaxWords \in Nat

VARIABLES
  configured,   (* the FPGA runs its image                    *)
  initialized,  (* per FPGA                                   *)
  writeQ,       (* intraWriteQ behind sync_write_q            *)
  readQ,        (* sync_read_q behind intraReadQ              *)
  sent,         (* words the FPGA's client has sent           *)
  got           (* words it has received, in order            *)

intraVars == <<configured, initialized, writeQ, readQ, sent, got>>

FPGA == {0, 1}
Other(f) == 1 - f

Ready == 0      \* the word that says that FPGA 1 is there; clients' words count from 1

IntraInit ==
  /\ configured = [f \in FPGA |-> FALSE]
  /\ initialized = [f \in FPGA |-> FALSE]
  /\ writeQ = [f \in FPGA |-> << >>]
  /\ readQ = [f \in FPGA |-> << >>]
  /\ sent = [f \in FPGA |-> 0]
  /\ got = [f \in FPGA |-> << >>]

Configure(f) ==
  /\ configured' = [configured EXCEPT ![f] = TRUE]
  /\ UNCHANGED <<initialized, writeQ, readQ, sent, got>>

EnqWrite(f, word) ==
  /\ Len(writeQ[f]) < QueueDepth
  /\ writeQ' = [writeQ EXCEPT ![f] = Append(@, word)]

(* Bug: the word stays in the queue. *)
DoInitPeek(f) ==
  /\ configured[f] /\ ~initialized[f]
  /\ \/ f = 0 /\ readQ[f] # << >> /\ UNCHANGED writeQ
     \/ f = 1 /\ EnqWrite(f, Ready)
  /\ initialized' = [initialized EXCEPT ![f] = TRUE]
  /\ UNCHANGED readQ

(* FPGA 0 waits for a word and drops it; FPGA 1 sends one. *)
DoInit(f) ==
  /\ configured[f] /\ ~initialized[f]
  /\ \/ /\ f = 0
        /\ readQ[f] # << >>
        /\ readQ' = [readQ EXCEPT ![f] = Tail(@)]
        /\ UNCHANGED writeQ
     \/ f = 1 /\ EnqWrite(f, Ready) /\ UNCHANGED readQ
  /\ initialized' = [initialized EXCEPT ![f] = TRUE]

(* A word crosses the link from FPGA f. *)
Transfer(f) ==
  /\ writeQ[f] # << >>
  /\ writeQ' = [writeQ EXCEPT ![f] = Tail(@)]
  /\ IF configured[Other(f)]
     THEN /\ Len(readQ[Other(f)]) < QueueDepth
          /\ readQ' = [readQ EXCEPT ![Other(f)] = Append(@, Head(writeQ[f]))]
     ELSE UNCHANGED readQ

(* The drivers' methods, for a client or a UMF channel. *)
Enq(f) ==
  /\ initialized[f] /\ sent[f] < MaxWords
  /\ EnqWrite(f, sent[f] + 1)
  /\ sent' = [sent EXCEPT ![f] = @ + 1]
  /\ UNCHANGED <<initialized, readQ, got>>

Deq(f) ==
  /\ initialized[f] /\ readQ[f] # << >>
  /\ got' = [got EXCEPT ![f] = Append(@, Head(readQ[f]))]
  /\ readQ' = [readQ EXCEPT ![f] = Tail(@)]
  /\ UNCHANGED <<initialized, writeQ, sent>>

Rule(f) ==
  \/ DoInit(f) /\ UNCHANGED <<sent, got>>
  \/ Transfer(f) /\ UNCHANGED <<initialized, sent, got>>
  \/ Deq(f)

IntraNext == (\E f \in FPGA : Rule(f) \/ Enq(f)) /\ UNCHANGED configured

IntraTypeOK ==
  /\ configured \in [FPGA -> BOOLEAN]
  /\ initialized \in [FPGA -> BOOLEAN]
  /\ writeQ \in [FPGA -> Seq(0 .. MaxWords)] /\ readQ \in [FPGA -> Seq(0 .. MaxWords)]
  /\ got \in [FPGA -> Seq(0 .. MaxWords)]
  /\ \A f \in FPGA : Len(writeQ[f]) <= QueueDepth /\ Len(readQ[f]) <= QueueDepth
  /\ sent \in [FPGA -> 0 .. MaxWords]

(* Each FPGA receives the words its peer's client sent, each once and in   *)
(* order, and never the one that announces the peer (lines 121-149, 168).  *)
WordsInOrder ==
  \A f \in FPGA : /\ Len(got[f]) <= sent[Other(f)]
                  /\ \A i \in DOMAIN got[f] : got[f][i] = i
=============================================================================
