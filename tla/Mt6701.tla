------------------------------- MODULE Mt6701 -------------------------------
(***************************************************************************)
(* The configuration store: the driver i2c_control.c, one step per I2C     *)
(* transaction, and the registers and the EEPROM of the MT6701 behind it.  *)
(* The server's task makes all the calls, one WRITE_CONFIG or READ_CONFIG  *)
(* after the other.  Transactions may fail, the ESP32 may reset in the     *)
(* middle of a write, and the board may lose power.                        *)
(*                                                                         *)
(* The device is modelled as the driver uses it: a write changes a         *)
(* register at once; writing the key (0xB3 to 0x09) and then the command   *)
(* (0x05 to 0x0A) makes it copy its registers into the EEPROM, which       *)
(* takes a while; power-on loads the registers from the EEPROM.            *)
(***************************************************************************)
EXTENDS Mt6701Regs

CONSTANTS
    Written,     \* the registers that requests name; one outside Regs is unknown
    Values,      \* the values that requests carry
    Factory,     \* what the EEPROM may hold at first
    Faults,      \* the transactions that may fail: "read", "data", "key", "cmd",
                 \* "probe"
    MaxFaults,   \* how many of them do, in one behaviour
    Resets,      \* what may interrupt the task: "esp" (reset, panic), "power"
    MaxResets    \* how often

ASSUME ValuesAssumption == Values \subseteq Word
ASSUME FactoryAssumption == Factory \subseteq Image
ASSUME FaultsAssumption == Faults \subseteq {"read", "data", "key", "cmd", "probe"} /\ MaxFaults \in Nat
ASSUME ResetsAssumption == Resets \subseteq {"esp", "power"} /\ MaxResets \in Nat

VARIABLES
    regs,     \* the registers of the MT6701
    eeprom,   \* its EEPROM
    armed,    \* the key has been written
    busy,     \* the EEPROM is being programmed
    image,    \* with what
    pc,       \* the next transaction of the task, or what it waits for
    op,       \* the last WRITE_CONFIG request: reg, val
    parts,    \* the mt6701_reg_write calls still to make
    answer,   \* the last READ_CONFIG response since then: reg, val
    clean,    \* history: nothing has gone wrong since the request arrived
    faults,   \* transactions that have failed
    resets    \* interruptions so far

device == <<regs, eeprom, armed, busy, image>>
vars == <<regs, eeprom, armed, busy, image, pc, op, parts, answer, clean, faults, resets>>

NoAnswer == [reg |-> "none", val |-> {}]

Init ==
    /\ eeprom \in Factory
    /\ regs = eeprom
    /\ image = eeprom
    /\ armed = FALSE
    /\ busy = FALSE
    /\ pc = "boot"
    /\ op = NoAnswer
    /\ parts = <<>>
    /\ answer = NoAnswer
    /\ clean = FALSE
    /\ faults = 0
    /\ resets = 0

-----------------------------------------------------------------------------
(***************************************************************************)
(* Transactions                                                            *)
(***************************************************************************)

\* A transaction fails; ESP_ERROR_CHECK_WITHOUT_ABORT only logs it.
Fails(kind) ==
    /\ kind \in Faults
    /\ faults < MaxFaults
    /\ faults' = faults + 1
    /\ clean' = FALSE

Succeeds == UNCHANGED <<faults, clean>>

-----------------------------------------------------------------------------
(***************************************************************************)
(* The task                                                                *)
(***************************************************************************)

\* server_handle_packet, READ_CONFIG: one transaction, then the response.
ReadConfig(reg) ==
    /\ pc = "idle"
    /\ \/ Succeeds /\ answer' = [reg |-> reg, val |-> server_get_reg_value(reg, regs)]
       \/ Fails("read") /\ answer' = [reg |-> reg, val |-> server_get_reg_value(reg, ZeroImage)]
    /\ UNCHANGED <<device, pc, op, parts, resets>>

\* server_handle_packet, WRITE_CONFIG: an unknown reg does nothing at all.
WriteConfig(reg, val) ==
    /\ pc = "idle"
    /\ op' = [reg |-> reg, val |-> val]
    /\ pc' = IF reg \in Regs THEN "read" ELSE "idle"
    /\ clean' = (reg \in Regs /\ ~busy)
    /\ answer' = NoAnswer
    /\ UNCHANGED <<device, parts, faults, resets>>

\* Mutant: the other fields of the byte are not preserved.
ReadRegsNotPreserving ==
    /\ pc = "read"
    /\ Succeeds
    /\ parts' = server_set_reg_value(op.reg, ZeroImage, op.val)
    /\ pc' = "data"
    /\ UNCHANGED <<device, op, answer, resets>>

\* The write functions first read the bytes whose other bits they keep.
ReadRegs ==
    /\ pc = "read"
    /\ \/ Succeeds /\ parts' = server_set_reg_value(op.reg, regs, op.val)
       \/ Fails("read") /\ parts' = server_set_reg_value(op.reg, ZeroImage, op.val)
    /\ pc' = "data"
    /\ UNCHANGED <<device, op, answer, resets>>

\* mt6701_reg_write, first transmission: the register bytes.
WriteData ==
    /\ pc = "data"
    /\ \/ Succeeds /\ regs' = put(regs, Head(parts))
       \/ Fails("data") /\ \E part \in Beginnings(Head(parts)) : regs' = put(regs, part)
    /\ pc' = "key"
    /\ UNCHANGED <<eeprom, armed, busy, image, op, parts, answer, resets>>

\* Mutant: only the first part of a split write is followed by the key.
WriteKeyOnce ==
    /\ pc = "key"
    /\ Succeeds
    /\ armed' = (Len(parts) > 1 \/ op.reg \notin {"HYST", "A_STOP"})
    /\ pc' = "cmd"
    /\ UNCHANGED <<regs, eeprom, busy, image, op, parts, answer, resets>>

\* Second transmission: the key.
WriteKey ==
    /\ pc = "key"
    /\ \/ Succeeds /\ armed' = TRUE
       \/ Fails("key") /\ armed' = armed
    /\ pc' = "cmd"
    /\ UNCHANGED <<regs, eeprom, busy, image, op, parts, answer, resets>>

\* The device begins to program if it has the key.
Program ==
    /\ busy' = (busy \/ armed)
    /\ image' = IF armed THEN regs ELSE image
    /\ armed' = FALSE

\* Third transmission: the command.  The wait follows in any case.
WriteCmd ==
    /\ pc = "cmd"
    /\ \/ Succeeds /\ Program
       \/ Fails("cmd") /\ UNCHANGED <<armed, busy, image>>
    /\ pc' = "wait"
    /\ UNCHANGED <<regs, eeprom, op, parts, answer, resets>>

\* mt6701_eeprom_write_wait: 650 ms, longer than the device programs.  Then
\* the second mt6701_reg_write of a split write, or the next request.
EepromWriteWait ==
    /\ pc = "wait"
    /\ ~busy
    /\ parts' = Tail(parts)
    /\ pc' = IF Len(parts) > 1 THEN "data" ELSE "idle"
    /\ UNCHANGED <<device, op, answer, clean, faults, resets>>

\* i2c_init adds the MT6701 to the bus and probes it; if it does not answer,
\* ESP_ERROR_CHECK aborts, and the ESP32 boots again.  Whether the device answers
\* while it programs is up to the device.
ProbeMt6701 ==
    /\ pc = "boot"
    /\ \/ Succeeds /\ pc' = "ina228"
       \/ Fails("probe") /\ pc' = "boot"
    /\ UNCHANGED <<device, op, parts, answer, resets>>

\* Mutant: a boot that fails is not repeated.
ProbeIna228Halts ==
    /\ pc = "ina228"
    /\ \/ Succeeds /\ pc' = "idle"
       \/ Fails("probe") /\ pc' = "halt"
    /\ UNCHANGED <<device, op, parts, answer, resets>>

\* The same for the INA228; then the task starts with nothing to do.
ProbeIna228 ==
    /\ pc = "ina228"
    /\ \/ Succeeds /\ pc' = "idle"
       \/ Fails("probe") /\ pc' = "boot"
    /\ UNCHANGED <<device, op, parts, answer, resets>>

\* i2c_init, which app_main calls.
Boot == ProbeMt6701 \/ ProbeIna228

-----------------------------------------------------------------------------
(***************************************************************************)
(* The device, and what interrupts the task                                *)
(***************************************************************************)

ProgramDone ==
    /\ busy
    /\ eeprom' = image
    /\ busy' = FALSE
    /\ UNCHANGED <<regs, armed, image, pc, op, parts, answer, clean, faults, resets>>

Forget ==
    /\ pc' = "boot"
    /\ op' = NoAnswer
    /\ parts' = <<>>
    /\ answer' = NoAnswer
    /\ clean' = FALSE
    /\ faults' = faults
    /\ resets' = resets + 1

\* The ESP32 resets (opening the port toggles DTR and RTS; a panic reboots):
\* the MT6701 keeps its power and its state.
EspReset ==
    /\ "esp" \in Resets
    /\ resets < MaxResets
    /\ pc # "boot"
    /\ Forget
    /\ UNCHANGED device

\* Power is lost and comes back.  While the EEPROM was programmed, each of its
\* bytes is the old or the new one.
PowerLoss ==
    /\ "power" \in Resets
    /\ resets < MaxResets
    /\ \E done \in IF busy THEN SUBSET { a \in Addr : eeprom[a] # image[a] } ELSE {{}} :
           eeprom' = [a \in Addr |-> IF a \in done THEN image[a] ELSE eeprom[a]]
    /\ regs' = eeprom'
    /\ image' = eeprom'
    /\ armed' = FALSE
    /\ busy' = FALSE
    /\ Forget

Task == ReadRegs \/ WriteData \/ WriteKey \/ WriteCmd \/ EepromWriteWait \/ Boot

Next ==
    \/ \E reg \in Written : ReadConfig(reg)
    \/ \E reg \in Written, val \in Values : WriteConfig(reg, val)
    \/ Task
    \/ ProgramDone
    \/ EspReset
    \/ PowerLoss

\* The task runs on and the device finishes; requests and faults need not come.
\* A device that programs may refuse the probe for as long as it does.
Fairness == WF_vars(Task /\ (pc = "boot" => ~busy)) /\ WF_vars(ProgramDone)

Spec == Init /\ [][Next]_vars /\ Fairness

-----------------------------------------------------------------------------
(***************************************************************************)
(* Properties                                                              *)
(***************************************************************************)

\* The types of the variables.
TypeOK ==
    /\ regs \in Image /\ eeprom \in Image /\ image \in Image
    /\ armed \in BOOLEAN /\ busy \in BOOLEAN /\ clean \in BOOLEAN
    /\ pc \in {"idle", "read", "data", "key", "cmd", "wait", "boot", "ina228"}
    /\ op \in [reg : Written \cup {"none"}, val : Word]
    /\ answer \in [reg : Written \cup {"none"}, val : Word]
    /\ Len(parts) \in 0 .. 2
    /\ faults \in 0 .. MaxFaults /\ resets \in 0 .. MaxResets

\* The task has finished a WRITE_CONFIG in which nothing went wrong.
Done == pc = "idle" /\ clean /\ op # NoAnswer

\* What is in the registers survives a power loss once a clean write is done:
\* its own bytes, and everything that earlier failed or cut-off writes have
\* left in the registers only.
CleanWritePersists == Done => eeprom = regs

\* READ_CONFIG gives back what a clean write has written: the value of its
\* request, cut to the width of the field.
WriteReadsBack ==
    (Done /\ answer.reg = op.reg) => answer.val = Truncated(op.reg, op.val)

\* A write changes no other field: only the field it names, and with the
\* registers reloaded after a loss of power, may a field change its value.
NeighboursKept ==
    [][\A reg \in Regs \ {op.reg} :
           pc' = "boot" \/ server_get_reg_value(reg, regs') = server_get_reg_value(reg, regs)]_vars

\* The same for the EEPROM, if the write is interrupted by a loss of power, in
\* the middle of the programming too: every other field is what it was.  (A reset
\* of the ESP32 alone leaves a change in the registers, which the next write
\* saves along with its own.)
SavedNeighboursKept ==
    [][\A reg \in Regs \ {op.reg} :
           server_get_reg_value(reg, eeprom') = server_get_reg_value(reg, eeprom)]_vars

\* Every request is worked off and every boot succeeds in the end, whatever
\* fails on the bus - a probe of either device, with a reboot, included - as long
\* as no more than MaxFaults transactions fail: the task returns to the next
\* request.
TaskReturns == (pc # "idle") ~> (pc = "idle")

\* The fields that requests name, as a store of independent values.
live == [f \in Written \cap Regs |-> server_get_reg_value(f, regs)]
saved == [f \in Written \cap Regs |-> server_get_reg_value(f, eeprom)]
target == IF pc \in {"idle", "boot", "ina228"} THEN NoAnswer ELSE op

Store == INSTANCE ConfigStore WITH Fields <- Written \cap Regs, NoField <- "none"

\* The driver implements the store: writes in place, one field at a time, each
\* saved before the next begins.
ImplementsConfigStore == Store!Spec
=============================================================================
