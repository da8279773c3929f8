---------------------------- MODULE ControlLines ----------------------------
(***************************************************************************)
(* The tools that drive the control lines of a connection                  *)
(* (src/tools/control_ops.rs): capture_boot, which purges the input, marks *)
(* the live edge and pulses the reset lines while the pump stands still    *)
(* and then reads from the mark with ReadLoop's driver; set_dtr_rts; and   *)
(* send_break.  The guards that release a line when a call ends early are  *)
(* tasks of their own.                                                     *)
(*                                                                         *)
(* lines is "reset" while the lines are as capture_boot asserted them,     *)
(* "gone" once the handle they belong to is lost.                          *)
(***************************************************************************)
EXTENDS ReadLoop

CONSTANT MaxFaults  \* bound on how often an operation on the port fails

ASSUME FaultAssumption == MaxFaults \in Nat

VARIABLES
  lines,         \* "released", "reset", "user" or "gone"
  break,         \* BREAK is asserted on the TX line
  control_lock,  \* the call or clean-up inside SerialConnection.control_lock
  armed,         \* calls whose release guard is armed
  cleanups,      \* release tasks the guards have spawned
  mark,          \* mark_offset of each capture
  purged,        \* history: bytes the device had sent when the input was purged
  faults,        \* operations on the port that have failed
  abandoned      \* history: a spawned release has failed, and nobody retries it

lvars == <<lines, break, control_lock, armed, cleanups, mark, purged, faults, abandoned>>
allvars == <<vars, lvars>>
rest == <<work, sent, ringv, pump_buf, read_cursor, link, rd, timers, accounted, abandoned>>

LInit ==
  /\ Init
  /\ lines = "released" /\ break = FALSE /\ control_lock = {} /\ armed = {} /\ cleanups = {}
  /\ mark = [c \in Calls |-> 0] /\ purged = [c \in Calls |-> 0] /\ faults = 0
  /\ abandoned = FALSE

At_(c, from, to) == pc[c] = from /\ pc' = [pc EXCEPT ![c] = to]
Boot(c) == Request(c).tool = "capture_boot"
Resets(c) == Boot(c) /\ Request(c).reset

(* The outcome of an operation on the port: it works on an open handle     *)
(* unless it fails.                                                        *)
PortWorks == state = "Open" /\ UNCHANGED faults
PortFails == state = "Open" /\ faults < MaxFaults /\ faults' = faults + 1
PortClosed == state # "Open" /\ UNCHANGED faults

-----------------------------------------------------------------------------
(* capture_boot.                                                           *)

(* The control lock, for a pulse only.                                     *)
BootLock(c) ==
  /\ Boot(c)
  /\ IF Resets(c) THEN control_lock = {} /\ control_lock' = {c} ELSE UNCHANGED control_lock
  /\ At_(c, "idle", "gate")
  /\ UNCHANGED <<rest, os_input, pump_gate, lines, break, armed, cleanups, mark, purged, faults>>

(* Slip: the pump runs on until the lines are asserted.                    *)
BootGateNotTaken(c) ==
  /\ At_(c, "gate", "purge")
  /\ UNCHANGED <<rest, os_input, pump_gate, lvars>>

(* The pump gate, once no read and append is under way.                    *)
BootGate(c) ==
  /\ pump_gate = {} /\ pump_buf = <<>> /\ pump_gate' = {c}
  /\ At_(c, "gate", "purge")
  /\ UNCHANGED <<rest, os_input, lvars>>

(* The input is purged; on an error both locks are dropped.                *)
BootPurge(c) ==
  /\ \/ /\ PortWorks
        /\ os_input' = <<>> /\ purged' = [purged EXCEPT ![c] = sent]
        /\ At_(c, "purge", "mark")
        /\ UNCHANGED <<pump_gate, control_lock>>
     \/ /\ (PortFails \/ PortClosed)
        /\ At_(c, "purge", "failed")
        /\ pump_gate' = pump_gate \ {c} /\ control_lock' = control_lock \ {c}
        /\ UNCHANGED <<os_input, purged>>
  /\ UNCHANGED <<rest, lines, break, armed, cleanups, mark>>

(* The mark is the live edge; the guard is armed before the assertion.     *)
BootMark(c) ==
  /\ mark' = [mark EXCEPT ![c] = end_offset]
  /\ armed' = IF Resets(c) THEN armed \cup {c} ELSE armed
  /\ At_(c, "mark", "assert")
  /\ UNCHANGED <<rest, os_input, pump_gate, lines, break, control_lock, cleanups, purged, faults>>

(* A call that ends drops its guard: an armed one spawns a release.        *)
DropGuard(c) == cleanups' = cleanups \cup (armed \cap {c}) /\ armed' = armed \ {c}

(* The lines are asserted and the pump goes on.  A failure may have        *)
(* changed one of the lines.                                               *)
BootAssert(c) ==
  /\ pump_gate' = pump_gate \ {c}
  /\ \/ /\ Resets(c) /\ PortWorks
        /\ lines' = "reset"
        /\ At_(c, "assert", "hold")
        /\ UNCHANGED <<control_lock, armed, cleanups>>
     \/ /\ Resets(c) /\ (PortFails \/ PortClosed)
        /\ lines' \in {lines} \cup (IF state = "Open" THEN {"reset"} ELSE {})
        /\ At_(c, "assert", "failed")
        /\ control_lock' = control_lock \ {c}
        /\ DropGuard(c)
     \/ /\ ~Resets(c)
        /\ At_(c, "assert", "settle")
        /\ UNCHANGED <<lines, control_lock, armed, cleanups, faults>>
  /\ UNCHANGED <<rest, os_input, break, mark, purged>>

(* Slip: the guard is disarmed even though the lines could not be set.     *)
release_reset_lines_always_disarms(c, to) ==
  /\ \/ PortWorks /\ lines' = "released" /\ At_(c, "hold", to)
     \/ PortClosed /\ UNCHANGED lines /\ At_(c, "hold", to)
     \/ PortFails /\ UNCHANGED lines /\ At_(c, "hold", to)
  /\ armed' = armed \ {c} /\ UNCHANGED cleanups

(* release_reset_lines: disarmed on success and when the port is gone; on  *)
(* an error the guard stays armed.  The error is returned after the hold   *)
(* and swallowed on a cancellation.                                        *)
release_reset_lines(c, to) ==
  \/ /\ PortWorks /\ lines' = "released" /\ armed' = armed \ {c}
     /\ At_(c, "hold", "settle") /\ UNCHANGED cleanups
  \/ /\ PortClosed /\ UNCHANGED lines /\ armed' = armed \ {c}
     /\ At_(c, "hold", "settle") /\ UNCHANGED cleanups
  \/ /\ PortFails /\ UNCHANGED lines /\ At_(c, "hold", to)
     /\ armed' = armed \ {k \in {c} : to = "failed"}
     /\ cleanups' = cleanups \cup (armed \ armed')

(* The hold time is over, or the call is cancelled; the control lock is    *)
(* dropped after the release.                                              *)
BootRelease(c) ==
  /\ \/ release_reset_lines(c, "failed")
     \/ c \in cancelled /\ release_reset_lines(c, "settle")
  /\ control_lock' = control_lock \ {c}
  /\ UNCHANGED <<rest, os_input, pump_gate, break, mark, purged>>

(* The settle time, then the read from the mark with a private cursor.     *)
BootSettle(c) ==
  /\ At_(c, "settle", "resolved")
  /\ rd' = [rd EXCEPT ![c] = NewDriver(mark[c], mark[c])]
  /\ UNCHANGED <<work, sent, os_input, ringv, read_cursor, link, pumpv, timers, accounted, lvars>>

BootDone(c) ==
  /\ Boot(c) /\ At_(c, "storing", "done")
  /\ DropGuard(c)
  /\ UNCHANGED <<rest, os_input, pump_gate, lines, break, control_lock, mark, purged, faults>>

(* The spawned release takes the control lock like any other call, tries   *)
(* once and only logs a failure.                                           *)
Cleanup(c) ==
  /\ c \in cleanups /\ Boot(c) /\ control_lock = {}
  /\ cleanups' = cleanups \ {c}
  /\ \/ PortWorks /\ lines' = "released" /\ UNCHANGED abandoned
     \/ PortClosed /\ UNCHANGED <<lines, abandoned>>
     \/ PortFails /\ abandoned' = TRUE /\ UNCHANGED lines
  /\ UNCHANGED <<work, sent, ringv, pump_buf, read_cursor, link, rd, timers, accounted, os_input, pump_gate, pc, break, control_lock, armed, mark, purged>>

-----------------------------------------------------------------------------
(* Slip: it does not wait for a pulse to end.                              *)
SetDtrRtsUnlocked(c) ==
  /\ Request(c).tool = "set_dtr_rts"
  /\ \/ PortWorks /\ lines' = "user" /\ At_(c, "idle", "done")
     \/ (PortFails \/ PortClosed) /\ UNCHANGED lines /\ At_(c, "idle", "failed")
  /\ UNCHANGED <<rest, os_input, pump_gate, break, control_lock, armed, cleanups, mark, purged>>

(* set_dtr_rts takes the control lock for its one operation on the lines.  *)
SetDtrRts(c) ==
  /\ Request(c).tool = "set_dtr_rts" /\ control_lock = {}
  /\ \/ PortWorks /\ lines' = "user" /\ At_(c, "idle", "done")
     \/ (PortFails \/ PortClosed) /\ UNCHANGED lines /\ At_(c, "idle", "failed")
  /\ UNCHANGED <<rest, os_input, pump_gate, break, control_lock, armed, cleanups, mark, purged>>

(* send_break asserts BREAK before it makes its guard; cancelled, it       *)
(* returns at once and leaves the release to the guard.                    *)
BreakAssert(c) ==
  /\ Request(c).tool = "send_break"
  /\ \/ PortWorks /\ break' = TRUE /\ armed' = armed \cup {c} /\ At_(c, "idle", "breaking")
     \/ (PortFails \/ PortClosed) /\ UNCHANGED <<break, armed>> /\ At_(c, "idle", "failed")
  /\ UNCHANGED <<rest, os_input, pump_gate, lines, control_lock, cleanups, mark, purged>>

BreakRelease(c) ==
  /\ \/ /\ PortWorks /\ break' = FALSE /\ At_(c, "breaking", "done")
        /\ armed' = armed \ {c} /\ UNCHANGED cleanups
     \/ /\ (PortFails \/ PortClosed) /\ UNCHANGED break /\ At_(c, "breaking", "failed")
        /\ DropGuard(c)
     \/ /\ c \in cancelled /\ UNCHANGED <<break, faults>> /\ At_(c, "breaking", "failed")
        /\ DropGuard(c)
  /\ UNCHANGED <<rest, os_input, pump_gate, lines, control_lock, mark, purged>>

BreakCleanup(c) ==
  /\ c \in cleanups /\ Request(c).tool = "send_break"
  /\ cleanups' = cleanups \ {c}
  /\ \/ PortWorks /\ break' = FALSE /\ UNCHANGED abandoned
     \/ PortClosed /\ UNCHANGED <<break, abandoned>>
     \/ PortFails /\ abandoned' = TRUE /\ UNCHANGED break
  /\ UNCHANGED <<work, sent, ringv, pump_buf, read_cursor, link, rd, timers, accounted, os_input, pump_gate, pc, lines, control_lock, armed, mark, purged>>

-----------------------------------------------------------------------------
(* A lost or closed handle takes its lines with it.                        *)
LoseLines ==
  /\ IF state' = "Open" THEN UNCHANGED <<lines, break>> ELSE lines' = "gone" /\ break' = FALSE
  /\ UNCHANGED <<control_lock, armed, cleanups, mark, purged, faults, abandoned>>

LineStep(c) ==
  \/ BootLock(c) \/ BootGate(c) \/ BootPurge(c) \/ BootMark(c) \/ BootAssert(c)
  \/ BootRelease(c) \/ BootSettle(c) \/ BootDone(c)
  \/ SetDtrRts(c) \/ BreakAssert(c) \/ BreakRelease(c)

Background(c) == Cleanup(c) \/ BreakCleanup(c)

Next ==
  \/ ReadNext /\ LoseLines
  \/ \E c \in Calls : LineStep(c) \/ Background(c)

(* Every task runs, time passes, and a lost device comes back.             *)
Fairness ==
  /\ WF_allvars((Reconnect \/ PumpAppend) /\ LoseLines)
  /\ \A c \in Calls :
        /\ WF_allvars(ReadStep(c) /\ LoseLines)
        /\ WF_allvars((Poll(c) \/ PauseDisconnected(c)) /\ LoseLines)
        /\ WF_allvars(Deadline(c) /\ LoseLines)
        /\ WF_allvars(LineStep(c))
        /\ WF_allvars(Background(c))

Spec == LInit /\ [][Next]_allvars /\ Fairness

-----------------------------------------------------------------------------
(* A boot capture holds nothing the device had sent before the input was   *)
(* purged (capture_boot, pump_gate_guard): neither a byte of the ring, nor *)
(* one the pump had already taken, nor one in the operating system.        *)
BootCaptureFresh ==
  \A c \in Calls : Boot(c) =>
    \A i \in DOMAIN rd[c].outcome.bytes : stream[rd[c].outcome.bytes[i] + 1].nth > purged[c]

(* Nobody else drives the lines during a reset pulse (control_lock): not   *)
(* another capture, not set_dtr_rts and not the release an earlier call    *)
(* has left behind.                                                        *)
PulseUndisturbed ==
  \A c \in Calls : pc[c] = "hold" => lines \in {"reset", "gone"}

(* Asserted lines always have somebody who will release them: a call of    *)
(* the tool that asserted them, still running with its guard armed, or the *)
(* release its guard has spawned, unless such a release has failed.        *)
LinesGuarded ==
  /\ lines = "reset" => abandoned \/ \E c \in armed \cup cleanups : Boot(c)
  /\ break => abandoned \/ \E c \in armed \cup cleanups : Request(c).tool = "send_break"
  /\ \A c \in armed : pc[c] \notin Finished

(* Asserted reset lines and BREAK are released in the end, however the     *)
(* call that asserted them ends (ResetReleaseGuard, BreakResetGuard):      *)
(* after an error, a cancellation or a failed release, unless the one      *)
(* release that the guard spawns fails too.                                *)
LinesReleased ==
  /\ (lines = "reset") ~> (lines # "reset" \/ abandoned)
  /\ break ~> (~break \/ abandoned)
=============================================================================
