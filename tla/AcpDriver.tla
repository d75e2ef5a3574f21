------------------------------ MODULE AcpDriver ------------------------------
(***************************************************************************)
(* The Linux driver: its buffers (AcpBuffers) and its delay lines          *)
(* (AcpIodelays) behind one ioctl, one open and close of the device and    *)
(* one load of the module.  IOCTL_SETIODELAYS has the big kernel lock from *)
(* its first command to its last and does not sleep: no other ioctl runs   *)
(* meanwhile, but files are opened and closed, which takes no lock.  The   *)
(* file it was called for is not closed before it returns, and the driver  *)
(* is not removed while a file is open.                                    *)
(***************************************************************************)
EXTENDS AcpBuffers, AcpIodelays

VARIABLE setting   (* the file in IOCTL_SETIODELAYS, if there is one *)

driverVars == <<vars, delayVars, setting>>

DriverInit == Init /\ IodelaysInit /\ setting = {}

-----------------------------------------------------------------------------
OpenFile(f) == Open(f) /\ UNCHANGED <<delayVars, setting>>

CloseFile(f) == f \notin setting /\ Release(f) /\ UNCHANGED <<delayVars, setting>>

(* The commands about buffers. *)
BufferIoctl(f) == setting = {} /\ Ioctl(f) /\ UNCHANGED <<delayVars, setting>>

(* IOCTL_SETIODELAYS, and what it does until it returns. *)
DelayIoctl(f) ==
  /\ Runs(f) /\ setting = {}
  /\ \E n \in Settings : SetIodelays(n)
  /\ setting' = {f}
  /\ UNCHANGED vars

MoveLines ==
  /\ StartLine \/ StepLine \/ EndLine
  /\ setting' = IF todo' = << >> THEN {} ELSE setting
  /\ UNCHANGED vars

(* d_exit, and d_init when the module is loaded again. *)
Remove == Exit /\ UNCHANGED <<delayVars, setting>>

Insert == Load /\ LoadIodelays /\ UNCHANGED setting

DriverNext ==
  \/ \E f \in Files : OpenFile(f) \/ CloseFile(f) \/ BufferIoctl(f) \/ DelayIoctl(f)
  \/ MoveLines \/ Remove \/ Insert

DriverSpec == DriverInit /\ [][DriverNext]_driverVars
=============================================================================
