----------------------------- MODULE SerialLink -----------------------------
(***************************************************************************)
(* The serial connection between the host runner and the device: the port  *)
(* node, the host's handle on it (open_serial, _open_serial and            *)
(* _close_serial) and the lines in flight.  A native USB-CDC port vanishes *)
(* whenever the chip resets or sleeps; behind a UART bridge it stays.      *)
(***************************************************************************)
EXTENDS Naturals, Sequences

CONSTANTS UsbCdc,      \* the port disappears when the device goes down
          MaxInFlight  \* bound on the unread lines, host and device side

ASSUME LinkAssumption == UsbCdc \in BOOLEAN /\ MaxInFlight \in Nat

VARIABLES port,      \* the port node exists
          link,      \* the host's handle: closed, ok, or broken (port lost)
          toHost,    \* lines the device sent and the host has not read
          toDevice   \* lines the host sent and the device has not read

linkVars == <<port, link, toHost, toDevice>>

LinkInit == port = TRUE /\ link = "closed" /\ toHost = <<>> /\ toDevice = <<>>

\* Output without a listening host is dropped.
Emit(lines) ==
  /\ link = "ok" => Len(toHost) + Len(lines) <= MaxInFlight
  /\ toHost' = IF link = "ok" THEN toHost \o lines ELSE toHost

\* A write reaches a device that is powered; a broken handle raises.
Write(lines, up) ==
  toDevice' = IF up /\ link = "ok" THEN toDevice \o lines ELSE toDevice

\* The device loses power or resets: its receive buffer is gone, and with
\* USB-CDC the port too, taking what the host had not read with it.
GoDown ==
  /\ toDevice' = <<>>
  /\ port' = ~UsbCdc
  /\ link' = IF UsbCdc /\ link = "ok" THEN "broken" ELSE link
  /\ toHost' = IF UsbCdc THEN <<>> ELSE toHost

\* _open_serial returns at once when a handle is still held, broken or not.
Open ==
  /\ port \/ link # "closed"
  /\ link' = IF link = "closed" THEN "ok" ELSE link
  /\ UNCHANGED <<port, toHost, toDevice>>

\* Mutant: what is left unread in one cycle is read in the next.
CloseKeepingInput ==
  /\ link' = "closed"
  /\ UNCHANGED <<port, toHost, toDevice>>

\* The input buffer goes with the handle, and open_serial resets it again.
Close ==
  /\ link' = "closed"
  /\ toHost' = <<>>
  /\ UNCHANGED <<port, toDevice>>
=============================================================================
