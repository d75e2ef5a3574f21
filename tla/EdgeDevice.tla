----------------------------- MODULE EdgeDevice -----------------------------
(***************************************************************************)
(* The host's handle on the module: how NALLATECH_EDGE_DEVICE opens the    *)
(* card, configures its FPGAs and gets the workspace, and how it gives     *)
(* everything back, while the channel's I/O thread copies windows.  Three  *)
(* files implement the class, one per platform: "v2" for one FPGA,         *)
(* "debugger" and "null" for the two images of a pair, whose devices for   *)
(* one another (IntraDevice) come up under this configuration.             *)
(*                                                                         *)
(* The ACP library and the chain of PLATFORMS_MODULE_CLASS are not part of *)
(* this code.  Each call of Init may fail; a failure, or any module's      *)
(* CallbackExit, runs Uninit down the chain and ends the process.          *)
(***************************************************************************)
EXTENDS IntraDevice, EdgeSizes

CONSTANTS
  Variants,         (* the files built                *)
  NumWriteWindows,  (* NALLATECH_NUM_WRITE_WINDOWS: 3 *)
  NumReadWindows    (* NALLATECH_NUM_READ_WINDOWS: 4  *)

ASSUME DeviceAssumption ==
  /\ Variants \subseteq {"v2", "debugger", "null"}
  /\ NumWriteWindows \in Nat /\ NumWriteWindows >= 2
  /\ NumReadWindows \in Nat /\ NumReadWindows >= 3

VARIABLES
  variant,      (* the file this platform builds                        *)
  place,        (* where Init is in its steps                           *)
  main,         (* where the thread that owns the channel is            *)
  workspace,    (* the member is not NULL                               *)
  didCleanup,   (* v2's member                                          *)
  lib,          (* the library's view of socket, AFU handle and pages   *)
  misuse,       (* what was closed when it was not open                 *)
  io,           (* the channel's I/O thread                             *)
  copy          (* the words of the workspace a transaction moves       *)

hostVars == <<variant, place, main, workspace, didCleanup, lib, misuse, io, copy>>
vars == <<hostVars, intraVars>>

InitV2 == <<"OpenSocket", "Reset", "FPGA_BIT_FILE", "Configure", "LinkBase", "OpenAFU", "Allocate">>

InitDebugger ==
  <<"OpenSocket", "Reset", "FPGA_BIT_FILE", "FPGA_BIT_FILE1", "Configure0", "Configure1",
    "LinkBase", "LinkFPGAs", "OpenAFU", "Allocate", "LEDs">>

(* Bug: the other order. *)
InitNullSwapped ==
  <<"OpenSocket", "Reset", "FPGA_BIT_FILE", "FPGA_BIT_FILE0", "Configure1", "Configure0",
    "LinkBase", "LinkFPGAs", "OpenAFU", "Allocate", "LEDs">>

InitNull ==
  <<"OpenSocket", "Reset", "FPGA_BIT_FILE", "FPGA_BIT_FILE0", "Configure0", "Configure1",
    "LinkBase", "LinkFPGAs", "OpenAFU", "Allocate", "LEDs">>

InitSteps == [v2 |-> InitV2, debugger |-> InitDebugger, null |-> InitNull]

Handles == {"socket", "afu", "pages"}

Init ==
  /\ IntraInit
  /\ variant \in Variants
  /\ place = 1
  /\ main = "init"
  /\ workspace = FALSE /\ didCleanup = FALSE
  /\ lib = [h \in Handles |-> "never"] /\ misuse = {}
  /\ io = "none" /\ copy = [out |-> {}, in |-> {}]

-----------------------------------------------------------------------------
(* The workspace: the write windows, then the read windows. *)

WorkspaceWords == (NumWriteWindows + NumReadWindows) * MaxMsgWords
GetWriteWindow(w) == w * MaxMsgWords
GetReadWindow(w) == (NumWriteWindows + w) * MaxMsgWords

Words(first, n) == first .. first + n - 1

LegalSizes == {LegalBufSize(n) : n \in 0 .. MaxMsgWords}

(* The size checks. *)
Accepted(w, writeWords, r, readWords) ==
  /\ writeWords <= MaxMsgWords /\ readWords <= MaxMsgWords
  /\ w < NumWriteWindows /\ r < NumReadWindows
  /\ writeWords >= MinMsgWords /\ readWords >= MinMsgWords

-----------------------------------------------------------------------------
(* Init, by the thread that owns the channel. *)

Opens == [OpenSocket |-> "socket", OpenAFU |-> "afu", Allocate |-> "pages"]
Configures == [Configure0 |-> 0, Configure1 |-> 1]

(* Reset's failure is printed; OpenAFU's is not looked at. *)
Ignored == {"Reset", "OpenAFU", "LEDs"}

Needs(s) == CASE s = "OpenSocket" -> {} [] s = "Allocate" -> {"socket", "afu"} [] OTHER -> {"socket"}
Usable(s) == \A h \in Needs(s) : lib[h] = "open"

Step(s) ==
  /\ main = "init" /\ place <= Len(InitSteps[variant]) /\ InitSteps[variant][place] = s
  /\ place' = place + 1
  /\ UNCHANGED <<variant, didCleanup, misuse, io, copy>>

(* What a step does when the library's call succeeds. *)
StepDone(s) ==
  /\ Step(s) /\ Usable(s)
  /\ IF s \in DOMAIN Opens THEN lib' = [lib EXCEPT ![Opens[s]] = "open"] ELSE UNCHANGED lib
  /\ IF s \in DOMAIN Configures THEN Configure(Configures[s]) ELSE UNCHANGED intraVars
  /\ workspace' = (workspace \/ s = "Allocate")
  /\ UNCHANGED main

StepFails(s) ==
  /\ Step(s)
  /\ main' = IF s \in Ignored THEN main ELSE "exit"
  /\ UNCHANGED <<workspace, lib, intraVars>>

InitStep == \E s \in {InitSteps[variant][i] : i \in DOMAIN InitSteps[variant]} :
              StepDone(s) \/ StepFails(s)

StartIOThread ==
  /\ main = "init" /\ place > Len(InitSteps[variant])
  /\ main' = "running" /\ io' = "test"
  /\ UNCHANGED <<variant, place, workspace, didCleanup, lib, misuse, copy, intraVars>>

-----------------------------------------------------------------------------
(* The I/O thread, as far as the device sees it. *)

IORest == UNCHANGED <<variant, place, main, workspace, didCleanup, lib, misuse, intraVars>>

NoCopy == [out |-> {}, in |-> {}]

(* Bug: no test. *)
IOTestNever == io = "test" /\ io' = "loop" /\ UNCHANGED copy /\ IORest

(* pthread_testcancel, once per turn of the loop. *)
IOTest ==
  /\ io = "test"
  /\ io' = IF main = "cancel" THEN "gone" ELSE "loop"
  /\ UNCHANGED copy /\ IORest

DoAALTransaction ==
  /\ io = "loop"
  /\ \E w \in 0 .. NumWriteWindows - 1, r \in 0 .. NumReadWindows - 1, n, m \in LegalSizes :
       /\ Accepted(w, n, r, m)
       /\ copy' = [out |-> Words(GetWriteWindow(w), n), in |-> Words(GetReadWindow(r), m)]
  /\ io' = "copy"
  /\ IORest

EndTransaction ==
  /\ io = "copy"
  /\ copy' = NoCopy /\ io' = "test"
  /\ IORest

-----------------------------------------------------------------------------
(* The ways out. *)

Close(handles) ==
  /\ lib' = [h \in Handles |-> IF h \in handles /\ lib[h] = "open" THEN "closed" ELSE lib[h]]
  /\ misuse' = misuse \cup {h \in handles : lib[h] # "open"}

CleanupV2 ==
  IF didCleanup THEN UNCHANGED <<lib, misuse, didCleanup, workspace>>
  ELSE /\ Close({"socket", "afu"} \cup (IF workspace THEN {"pages"} ELSE {}))
       /\ didCleanup' = TRUE
       /\ UNCHANGED workspace

(* Bug: the pointer stays. *)
CleanupDebuggerStale ==
  IF workspace THEN Close(Handles) /\ UNCHANGED <<didCleanup, workspace>>
  ELSE UNCHANGED <<lib, misuse, didCleanup, workspace>>

CleanupDebugger ==
  IF workspace THEN Close(Handles) /\ workspace' = FALSE /\ UNCHANGED didCleanup
  ELSE UNCHANGED <<lib, misuse, didCleanup, workspace>>

CleanupNull ==
  /\ Close({"socket", "afu"} \cup (IF workspace THEN {"pages"} ELSE {}))
  /\ UNCHANGED <<didCleanup, workspace>>

Cleanup ==
  \/ variant = "v2" /\ CleanupV2
  \/ variant = "debugger" /\ CleanupDebugger
  \/ variant = "null" /\ CleanupNull

(* Bug: v2 cleans up here, too. *)
UninitAlways == Cleanup

Uninit == IF variant = "v2" THEN UNCHANGED <<lib, misuse, didCleanup, workspace>> ELSE Cleanup

WayOut == UNCHANGED <<variant, place, copy, intraVars>>

(* A module calls CallbackExit while the I/O thread runs. *)
CallbackExit ==
  /\ main = "running"
  /\ main' = "exit"
  /\ UNCHANGED <<workspace, didCleanup, lib, misuse, io>> /\ WayOut

UninitChain ==
  /\ main = "exit"
  /\ Uninit
  /\ main' = "uninit"
  /\ UNCHANGED io /\ WayOut

Exit ==
  /\ main = "uninit"
  /\ main' = "ended" /\ io' = "gone" /\ copy' = NoCopy
  /\ UNCHANGED <<variant, place, workspace, didCleanup, lib, misuse, intraVars>>

(* The channel's destructor: cancel and join the I/O thread, then Uninit,  *)
(* then the device's destructor.                                           *)
Cancel ==
  /\ main = "running"
  /\ main' = "cancel"
  /\ UNCHANGED <<workspace, didCleanup, lib, misuse, io>> /\ WayOut

Join ==
  /\ main = "cancel" /\ io = "gone"
  /\ Uninit
  /\ main' = "delete"
  /\ UNCHANGED io /\ WayOut

Delete ==
  /\ main = "delete"
  /\ Cleanup
  /\ main' = "deleted"
  /\ UNCHANGED io /\ WayOut

IOThread == IOTest \/ DoAALTransaction \/ EndTransaction
Destructor == Join \/ Delete

Next ==
  \/ InitStep \/ StartIOThread \/ IOThread
  \/ CallbackExit \/ UninitChain \/ Exit \/ Cancel \/ Destructor
  \/ IntraNext /\ UNCHANGED hostVars

Spec == Init /\ [][Next]_vars

(* Rules that can fire do; the I/O thread and the destructor run on. *)
FairSpec ==
  /\ Spec
  /\ \A f \in FPGA : WF_vars(Rule(f) /\ UNCHANGED <<configured, hostVars>>)
  /\ WF_vars(IOThread) /\ WF_vars(Destructor)

-----------------------------------------------------------------------------
TypeOK ==
  /\ IntraTypeOK
  /\ variant \in Variants
  /\ place \in 1 .. Len(InitSteps[variant]) + 1
  /\ main \in {"init", "running", "exit", "uninit", "ended", "cancel", "delete", "deleted"}
  /\ workspace \in BOOLEAN /\ didCleanup \in BOOLEAN
  /\ lib \in [Handles -> {"never", "open", "closed"}] /\ misuse \subseteq Handles
  /\ io \in {"none", "test", "loop", "copy", "gone"}
  /\ copy \in [{"out", "in"} -> SUBSET Nat]

(* As long as the I/O thread runs it has a workspace that the library has  *)
(* not taken back, and the words a transaction moves lie in it, those it   *)
(* sends apart from those it receives.  The older files give the workspace *)
(* back in Uninit and break this when the process ends by CallbackExit: v2 *)
(* leaves Uninit empty (lines 194-200) and needs no exception.             *)
WorkspaceIsLive ==
  io \in {"test", "loop", "copy"} /\ ~(variant # "v2" /\ main = "uninit") =>
    /\ \A h \in Handles : lib[h] = "open"
    /\ copy.out \cup copy.in \subseteq 0 .. WorkspaceWords - 1
    /\ copy.out \cap copy.in = {}

(* v2 and debugger give back each handle once and only what they have, and *)
(* a deleted device keeps nothing: Uninit and the destructor both come to  *)
(* Cleanup (lines 53-56, 203-222).  null has no such guard and closes its  *)
(* handles twice.                                                          *)
ClosedOnce ==
  variant # "null" => /\ misuse = {}
                      /\ main = "deleted" => \A h \in Handles : lib[h] = "closed"

(* Once both FPGAs of a pair are configured their devices come up, though  *)
(* neither is told of the other, and every word a client then sends to the *)
(* other FPGA arrives.                                                     *)
PairTalks ==
  /\ (\A f \in FPGA : configured[f]) ~> (\A f \in FPGA : initialized[f])
  /\ \A f \in FPGA, n \in 1 .. MaxWords : (sent[f] = n) ~> (Len(got[Other(f)]) >= n)

(* The channel's destructor returns: the I/O thread comes to its test for  *)
(* a cancellation between any two transactions.                            *)
DestructorReturns == (main = "cancel") ~> (main = "deleted")
=============================================================================
