---------------------------- MODULE Mt6701Proofs ----------------------------
(***************************************************************************)
(* Proofs about Mt6701, for every factory image, all requests and values,  *)
(* and any number and mix of failing transactions and interruptions.       *)
(***************************************************************************)
EXTENDS Mt6701, Mt6701RegsProofs, SequenceTheorems, TLAPS

-----------------------------------------------------------------------------
(***************************************************************************)
(* The inductive invariant                                                 *)
(***************************************************************************)

\* While a write is under way there is a part left to write, and all parts fit
\* the registers.
PartsOK ==
    /\ parts \in Seq(Part)
    /\ pc \in {"data", "key", "cmd", "wait"} => Len(parts) \in 1 .. 2
    /\ pc = "read" => op.reg \in Regs

\* What a write that nothing has disturbed has reached at each of its steps.
CleanProgress ==
    clean =>
        /\ pc \notin {"boot", "ina228"}
        /\ pc \in {"read", "data", "key", "cmd"} => ~busy
        /\ pc = "cmd" => armed
        /\ pc = "wait" => IF busy THEN image = regs ELSE eeprom = regs
        /\ (pc = "idle" /\ op # NoAnswer) => (eeprom = regs /\ ~busy)

IInv == TypeOK /\ PartsOK /\ CleanProgress

LEMMA NoAnswerType == NoAnswer \in [reg : Written \cup {"none"}, val : Word]
BY DEF NoAnswer, Word

LEMMA InitIInv == Init => IInv
<1> SUFFICES ASSUME Init PROVE IInv
  OBVIOUS
<1>1. eeprom \in Image
  BY FactoryAssumption DEF Init
<1>2. Len(parts) \in 0 .. 2
  BY DEF Init
<1>3. faults \in 0 .. MaxFaults /\ resets \in 0 .. MaxResets
  BY FaultsAssumption, ResetsAssumption DEF Init
<1>4. op \in [reg : Written \cup {"none"}, val : Word] /\ answer \in [reg : Written \cup {"none"}, val : Word]
  BY NoAnswerType DEF Init
<1>5. TypeOK
  BY <1>1, <1>2, <1>3, <1>4 DEF Init, TypeOK
<1>6. parts \in Seq(Part)
  BY DEF Init
<1>7. QED
  BY <1>5, <1>6 DEF Init, IInv, PartsOK, CleanProgress

-----------------------------------------------------------------------------
(***************************************************************************)
(* Each step keeps it                                                      *)
(***************************************************************************)

LEMMA TypeStep == IInv /\ [Next]_vars => TypeOK'
<1> SUFFICES ASSUME IInv, [Next]_vars PROVE TypeOK'
  OBVIOUS
<1>a. TypeOK /\ PartsOK
  BY DEF IInv
<1>b. MaxFaults \in Nat /\ MaxResets \in Nat
  BY FaultsAssumption, ResetsAssumption
<1>c. ASSUME NEW kind, Fails(kind)
      PROVE  faults' \in 0 .. MaxFaults /\ clean' \in BOOLEAN
  <2>1. faults \in 0 .. MaxFaults
    BY <1>a DEF TypeOK
  <2>2. faults < MaxFaults /\ faults' = faults + 1 /\ clean' = FALSE
    BY <1>c DEF Fails
  <2>3. faults' \in 0 .. MaxFaults
    BY <1>b, <2>1, <2>2
  <2>4. QED
    BY <2>2, <2>3
<1>d. ASSUME Succeeds PROVE faults' \in 0 .. MaxFaults /\ clean' \in BOOLEAN
  BY <1>a, <1>d DEF Succeeds, TypeOK
<1>e. ASSUME Forget, resets < MaxResets
      PROVE  /\ resets' \in 0 .. MaxResets /\ faults' \in 0 .. MaxFaults
             /\ Len(parts') \in 0 .. 2
             /\ op' \in [reg : Written \cup {"none"}, val : Word]
             /\ answer' \in [reg : Written \cup {"none"}, val : Word]
  <2>1. resets \in 0 .. MaxResets /\ faults \in 0 .. MaxFaults
    BY <1>a DEF TypeOK
  <2>2. resets' = resets + 1 /\ faults' = faults /\ parts' = <<>>
    BY <1>e DEF Forget
  <2>3. resets' \in 0 .. MaxResets /\ faults' \in 0 .. MaxFaults
    BY <1>b, <1>e, <2>1, <2>2
  <2>4. Len(parts') \in 0 .. 2
    BY <2>2
  <2>5. QED
    BY <1>e, <2>3, <2>4, NoAnswerType DEF Forget
<1>1. ASSUME NEW reg \in Written, ReadConfig(reg) PROVE TypeOK'
  <2>1. server_get_reg_value(reg, regs) \in Word /\ server_get_reg_value(reg, ZeroImage) \in Word
    BY <1>a, RegValueWord, ZeroIsImage DEF TypeOK
  <2>3. answer' \in [reg : Written \cup {"none"}, val : Word]
    BY <1>1, <2>1 DEF ReadConfig
  <2>4. faults' \in 0 .. MaxFaults /\ clean' \in BOOLEAN
    BY <1>1, <1>c, <1>d DEF ReadConfig
  <2>5. QED
    BY <1>a, <1>1, <2>3, <2>4 DEF ReadConfig, TypeOK, device
<1>2. ASSUME NEW reg \in Written, NEW val \in Values, WriteConfig(reg, val) PROVE TypeOK'
  <2>1. [reg |-> reg, val |-> val] \in [reg : Written \cup {"none"}, val : Word]
    BY ValuesAssumption
  <2>2. QED
    BY <1>a, <1>2, <2>1, NoAnswerType DEF WriteConfig, TypeOK, device
<1>3. CASE ReadRegs
  <2>1. faults' \in 0 .. MaxFaults /\ clean' \in BOOLEAN
    BY <1>3, <1>c, <1>d DEF ReadRegs
  <2>2. op.reg \in Regs /\ op.val \in Word
    BY <1>a, <1>3 DEF ReadRegs, PartsOK, TypeOK
  <2>3. parts' \in Writes
    BY <1>a, <1>3, <2>2, WritesParts, ZeroIsImage DEF ReadRegs, TypeOK
  <2>4. Len(parts') \in 0 .. 2
    BY <2>3 DEF Writes
  <2>5. QED
    BY <1>a, <1>3, <2>1, <2>4 DEF ReadRegs, TypeOK, device
<1>4. CASE WriteData
  <2>1. faults' \in 0 .. MaxFaults /\ clean' \in BOOLEAN
    BY <1>4, <1>c, <1>d DEF WriteData
  <2>2. Head(parts) \in Part
    BY <1>a, <1>4 DEF WriteData, PartsOK
  <2>3. regs' \in Image
    BY <1>a, <1>4, <2>2, PutImage, PrefixPart DEF WriteData, TypeOK
  <2>4. QED
    BY <1>a, <1>4, <2>1, <2>3 DEF WriteData, TypeOK
<1>5. CASE WriteKey
  <2>1. faults' \in 0 .. MaxFaults /\ clean' \in BOOLEAN
    BY <1>5, <1>c, <1>d DEF WriteKey
  <2>2. QED
    BY <1>a, <1>5, <2>1 DEF WriteKey, TypeOK
<1>6. CASE WriteCmd
  <2>1. faults' \in 0 .. MaxFaults /\ clean' \in BOOLEAN
    BY <1>6, <1>c, <1>d DEF WriteCmd
  <2>2. busy' \in BOOLEAN /\ armed' \in BOOLEAN /\ image' \in Image
    BY <1>a, <1>6 DEF WriteCmd, Program, TypeOK
  <2>3. QED
    BY <1>a, <1>6, <2>1, <2>2 DEF WriteCmd, TypeOK
<1>7. CASE EepromWriteWait
  <2>1. Len(parts') \in 0 .. 2
    BY <1>a, <1>7 DEF EepromWriteWait, PartsOK
  <2>2. QED
    BY <1>a, <1>7, <2>1 DEF EepromWriteWait, TypeOK, device
<1>8. CASE Boot
  <2>1. faults' \in 0 .. MaxFaults /\ clean' \in BOOLEAN
    BY <1>8, <1>c, <1>d DEF Boot, ProbeMt6701, ProbeIna228
  <2>2. pc' \in {"boot", "ina228", "idle"}
    BY <1>8 DEF Boot, ProbeMt6701, ProbeIna228
  <2>3. UNCHANGED <<device, op, parts, answer, resets>>
    BY <1>8 DEF Boot, ProbeMt6701, ProbeIna228
  <2>4. QED
    BY <1>a, <2>1, <2>2, <2>3 DEF TypeOK, device
<1>9. CASE ProgramDone
  BY <1>a, <1>9 DEF ProgramDone, TypeOK
<1>10. CASE EspReset
  <2>1. Forget /\ resets < MaxResets
    BY <1>10 DEF EspReset
  <2>2. QED
    BY <1>a, <1>e, <1>10, <2>1 DEF EspReset, Forget, TypeOK, device
<1>11. CASE PowerLoss
  <2>1. eeprom' \in Image
    BY <1>a, <1>11 DEF PowerLoss, TypeOK, Image
  <2>2. Forget /\ resets < MaxResets
    BY <1>11 DEF PowerLoss
  <2>3. regs' \in Image /\ image' \in Image /\ armed' = FALSE /\ busy' = FALSE
    BY <1>11, <2>1 DEF PowerLoss
  <2>4. pc' = "boot" /\ clean' = FALSE
    BY <2>2 DEF Forget
  <2>5. QED
    BY <1>e, <2>1, <2>2, <2>3, <2>4 DEF TypeOK
<1>12. CASE UNCHANGED vars
  BY <1>a, <1>12 DEF vars, TypeOK
<1>13. QED
  BY <1>1, <1>2, <1>3, <1>4, <1>5, <1>6, <1>7, <1>8, <1>9, <1>10, <1>11, <1>12 DEF Next, Task

LEMMA PartsStep == IInv /\ [Next]_vars => PartsOK'
<1> SUFFICES ASSUME IInv, [Next]_vars PROVE PartsOK'
  OBVIOUS
<1>a. TypeOK /\ PartsOK
  BY DEF IInv
<1>1. ASSUME NEW reg \in Written, ReadConfig(reg) PROVE PartsOK'
  BY <1>a, <1>1 DEF ReadConfig, PartsOK
<1>2. ASSUME NEW reg \in Written, NEW val \in Values, WriteConfig(reg, val) PROVE PartsOK'
  BY <1>a, <1>2 DEF WriteConfig, PartsOK
<1>3. CASE ReadRegs
  <2>1. op.reg \in Regs /\ op.val \in Word
    BY <1>a, <1>3 DEF ReadRegs, PartsOK, TypeOK
  <2>2. parts' \in Writes
    BY <1>a, <1>3, <2>1, WritesParts, ZeroIsImage DEF ReadRegs, TypeOK
  <2>3. parts' \in Seq(Part) /\ Len(parts') \in 1 .. 2
    BY <2>2 DEF Writes
  <2>4. QED
    BY <1>3, <2>3 DEF ReadRegs, PartsOK
<1>4. CASE WriteData
  BY <1>a, <1>4 DEF WriteData, PartsOK
<1>5. CASE WriteKey
  BY <1>a, <1>5 DEF WriteKey, PartsOK
<1>6. CASE WriteCmd
  BY <1>a, <1>6 DEF WriteCmd, PartsOK
<1>7. CASE EepromWriteWait
  <2>1. parts \in Seq(Part) /\ Len(parts) \in 1 .. 2
    BY <1>a, <1>7 DEF EepromWriteWait, PartsOK
  <2>2. parts' = Tail(parts)
    BY <1>7 DEF EepromWriteWait
  <2>3. parts' \in Seq(Part) /\ Len(parts') = Len(parts) - 1
    BY <2>1, <2>2, HeadTailProperties, EmptySeq
  <2>4. pc' = "data" => Len(parts) > 1
    BY <1>7 DEF EepromWriteWait
  <2>5. pc' = "data" => Len(parts') \in 1 .. 2
    BY <2>1, <2>3, <2>4
  <2>6. pc' \in {"data", "idle"}
    BY <1>7 DEF EepromWriteWait
  <2>7. QED
    BY <2>3, <2>5, <2>6 DEF PartsOK
<1>8. CASE Boot
  BY <1>a, <1>8 DEF Boot, ProbeMt6701, ProbeIna228, PartsOK
<1>9. CASE ProgramDone
  BY <1>a, <1>9 DEF ProgramDone, PartsOK
<1>10. ASSUME Forget PROVE PartsOK'
  <2>1. parts' \in Seq(Part)
    BY <1>10 DEF Forget
  <2>2. QED
    BY <1>10, <2>1 DEF Forget, PartsOK
<1>11. CASE UNCHANGED vars
  BY <1>a, <1>11 DEF vars, PartsOK
<1>12. QED
  BY <1>1, <1>2, <1>3, <1>4, <1>5, <1>6, <1>7, <1>8, <1>9, <1>10, <1>11
  DEF Next, Task, EspReset, PowerLoss

LEMMA CleanStep == IInv /\ [Next]_vars => CleanProgress'
<1> SUFFICES ASSUME IInv, [Next]_vars, clean' PROVE CleanProgress'
  BY DEF CleanProgress
<1>a. TypeOK /\ CleanProgress
  BY DEF IInv
<1>b. \A kind : ~Fails(kind)
  BY DEF Fails
<1>c. ~Forget
  BY DEF Forget
<1>1. ASSUME NEW reg \in Written, ReadConfig(reg) PROVE CleanProgress'
  BY <1>a, <1>b, <1>1 DEF ReadConfig, Succeeds, device, CleanProgress
<1>2. ASSUME NEW reg \in Written, NEW val \in Values, WriteConfig(reg, val) PROVE CleanProgress'
  BY <1>2 DEF WriteConfig, device, CleanProgress
<1>3. CASE ReadRegs
  BY <1>a, <1>b, <1>3 DEF ReadRegs, Succeeds, device, CleanProgress
<1>4. CASE WriteData
  BY <1>a, <1>b, <1>4 DEF WriteData, Succeeds, CleanProgress
<1>5. CASE WriteKey
  BY <1>a, <1>b, <1>5 DEF WriteKey, Succeeds, CleanProgress
\* The device has the key, so the command makes it program what it holds.
<1>6. CASE WriteCmd
  <2>1. clean /\ armed /\ Program
    BY <1>a, <1>b, <1>6 DEF WriteCmd, Succeeds, CleanProgress
  <2>2. busy' /\ image' = regs'
    BY <1>6, <2>1 DEF WriteCmd, Program
  <2>3. QED
    BY <1>6, <2>2 DEF WriteCmd, CleanProgress
<1>7. CASE EepromWriteWait
  BY <1>a, <1>7 DEF EepromWriteWait, device, CleanProgress
<1>8. CASE Boot
  BY <1>a, <1>b, <1>8 DEF Boot, ProbeMt6701, ProbeIna228, Succeeds, CleanProgress
<1>9. CASE ProgramDone
  BY <1>a, <1>9 DEF ProgramDone, CleanProgress
<1>10. CASE UNCHANGED vars
  BY <1>a, <1>10 DEF vars, CleanProgress
<1>11. QED
  BY <1>c, <1>1, <1>2, <1>3, <1>4, <1>5, <1>6, <1>7, <1>8, <1>9, <1>10
  DEF Next, Task, EspReset, PowerLoss

LEMMA Inductive == Spec => []IInv
<1>1. Init => IInv
  BY InitIInv
<1>2. IInv /\ [Next]_vars => IInv'
  BY TypeStep, PartsStep, CleanStep DEF IInv
<1>3. QED
  BY <1>1, <1>2, PTL DEF Spec

-----------------------------------------------------------------------------
(***************************************************************************)
(* The results                                                             *)
(***************************************************************************)

\* The variables keep their types: whatever is read back, cut off or refused,
\* the registers hold bytes, and no request makes more than two writes.
THEOREM TypeCorrect == Spec => []TypeOK
<1>1. IInv => TypeOK
  BY DEF IInv
<1>2. QED
  BY <1>1, Inductive, PTL

\* After a WRITE_CONFIG in which nothing went wrong, all the registers are in
\* the EEPROM: mt6701_reg_write sends key and command after each part, and
\* waits until they have taken effect.
THEOREM CleanWriteSaved == Spec => []CleanWritePersists
<1>1. IInv => CleanWritePersists
  BY DEF IInv, CleanProgress, CleanWritePersists, Done
<1>2. QED
  BY <1>1, Inductive, PTL

-----------------------------------------------------------------------------
(***************************************************************************)
(* Reading back a write of a conforming field                              *)
(***************************************************************************)

\* What the field of a write that nothing has disturbed reads as once the parts
\* that are still to come have arrived, and what READ_CONFIG has made of it.
ReadBackProgress ==
    /\ pc # "idle" => answer = NoAnswer
    /\ clean =>
        /\ op.reg \in Written \cap Regs
        /\ pc = "data" =>
               server_get_reg_value(op.reg, Applied(regs, parts)) = Truncated(op.reg, op.val)
        /\ pc \in {"key", "cmd", "wait"} =>
               server_get_reg_value(op.reg, Applied(regs, Tail(parts))) = Truncated(op.reg, op.val)
        /\ pc = "idle" => server_get_reg_value(op.reg, regs) = Truncated(op.reg, op.val)
        /\ answer.reg = op.reg => answer.val = Truncated(op.reg, op.val)

LEMMA InitReadBack == Init => ReadBackProgress
BY DEF Init, ReadBackProgress

\* Writing the first part is a step towards all of them.
LEMMA AppliedFirst ==
    ASSUME NEW m, NEW ps \in Seq(Part), Len(ps) \in 1 .. 2
    PROVE  Applied(put(m, Head(ps)), Tail(ps)) = Applied(m, ps)
<1>1. ps # <<>>
  OBVIOUS
<1>2. Head(ps) = ps[1]
  OBVIOUS
<1>3. Len(Tail(ps)) = Len(ps) - 1 /\ \A i \in 1 .. Len(Tail(ps)) : Tail(ps)[i] = ps[i + 1]
  BY <1>1, HeadTailProperties
<1>4. CASE Len(ps) = 1
  <2>1. Len(Tail(ps)) = 0
    BY <1>3, <1>4
  <2>2. QED
    BY <1>2, <1>4, <2>1 DEF Applied
<1>5. CASE Len(ps) = 2
  <2>1. Len(Tail(ps)) = 1
    BY <1>3, <1>5
  <2>2. Tail(ps)[1] = ps[2]
    BY <1>3, <2>1
  <2>3. QED
    BY <1>2, <1>5, <2>1, <2>2 DEF Applied
<1>6. QED
  BY <1>4, <1>5

LEMMA ReadBackStep ==
    ASSUME Written \cap Regs \subseteq Conforming
    PROVE  IInv /\ ReadBackProgress /\ [Next]_vars => ReadBackProgress'
<1> DEFINE get(reg, m) == server_get_reg_value(reg, m)
           final == Truncated(op.reg, op.val)
<1> SUFFICES ASSUME IInv, ReadBackProgress, [Next]_vars PROVE ReadBackProgress'
  OBVIOUS
<1>a. TypeOK /\ PartsOK
  BY DEF IInv
<1>b. \A kind : clean' => ~Fails(kind)
  BY DEF Fails
<1>1. ASSUME NEW reg \in Written, ReadConfig(reg) PROVE ReadBackProgress'
  <2>1. pc' = "idle" /\ pc = "idle" /\ op' = op /\ regs' = regs
    BY <1>1 DEF ReadConfig, device
  <2>2. clean' => clean /\ answer' = [reg |-> reg, val |-> get(reg, regs)]
    BY <1>b, <1>1 DEF ReadConfig, Succeeds
  <2>3. clean => op.reg \in Written \cap Regs /\ get(op.reg, regs) = final
    BY <2>1 DEF ReadBackProgress
  <2>4. QED
    BY <2>1, <2>2, <2>3 DEF ReadBackProgress
<1>2. ASSUME NEW reg \in Written, NEW val \in Values, WriteConfig(reg, val) PROVE ReadBackProgress'
  <2>1. clean' => pc' = "read" /\ op'.reg = reg /\ reg \in Regs
    BY <1>2 DEF WriteConfig
  <2>2. answer' = NoAnswer /\ NoAnswer.reg = "none" /\ "none" \notin Regs
    BY <1>2 DEF WriteConfig, NoAnswer, Regs
  <2>3. QED
    BY <2>1, <2>2 DEF ReadBackProgress
<1>3. CASE ReadRegs
  <2>1. pc' = "data" /\ op' = op /\ regs' = regs /\ answer' = NoAnswer
    BY <1>3 DEF ReadRegs, ReadBackProgress, device
  <2>2. clean' => clean /\ parts' = server_set_reg_value(op.reg, regs, op.val)
    BY <1>b, <1>3 DEF ReadRegs, Succeeds
  <2>3. regs \in Image /\ op.val \in Word
    BY <1>a DEF TypeOK
  <2>4. clean' => get(op.reg, Applied(regs, parts')) = final
    BY <2>2, <2>3, AppliedReadsBack DEF ReadBackProgress
  <2>5. QED
    BY <2>1, <2>2, <2>4 DEF ReadBackProgress, NoAnswer, Regs
<1>4. CASE WriteData
  <2>1. pc = "data" /\ pc' = "key" /\ op' = op /\ parts' = parts /\ answer' = NoAnswer
    BY <1>4 DEF WriteData, ReadBackProgress
  <2>2. clean' => clean /\ regs' = put(regs, Head(parts))
    BY <1>b, <1>4 DEF WriteData, Succeeds
  <2>3. Applied(put(regs, Head(parts)), Tail(parts)) = Applied(regs, parts)
    BY <1>a, <2>1, AppliedFirst DEF PartsOK
  <2>4. clean' => get(op.reg, Applied(regs', Tail(parts))) = final
    BY <2>1, <2>2, <2>3 DEF ReadBackProgress
  <2>5. QED
    BY <2>1, <2>2, <2>4 DEF ReadBackProgress, NoAnswer, Regs
<1>5. CASE WriteKey
  <2>1. clean' => clean
    BY <1>b, <1>5 DEF WriteKey, Succeeds
  <2>2. QED
    BY <1>5, <2>1 DEF WriteKey, ReadBackProgress
<1>6. CASE WriteCmd
  <2>1. clean' => clean
    BY <1>b, <1>6 DEF WriteCmd, Succeeds
  <2>2. QED
    BY <1>6, <2>1 DEF WriteCmd, ReadBackProgress
<1>7. CASE EepromWriteWait
  <2>1. /\ pc = "wait" /\ pc' = IF Len(parts) > 1 THEN "data" ELSE "idle"
        /\ op' = op /\ parts' = Tail(parts) /\ answer' = NoAnswer /\ clean' = clean /\ regs' = regs
    BY <1>7 DEF EepromWriteWait, ReadBackProgress, device
  <2>2. pc' = "idle" => Applied(regs, Tail(parts)) = regs
    <3>1. Len(parts) \in 1 .. 2 /\ parts \in Seq(Part)
      BY <1>a, <2>1 DEF PartsOK
    <3>2. parts # <<>>
      BY <3>1
    <3>3. Len(Tail(parts)) = Len(parts) - 1
      BY <3>1, <3>2, HeadTailProperties
    <3>4. pc' = "idle" => Len(parts) = 1
      BY SMTT(30), <2>1, <3>1
    <3>5. QED
      BY <3>3, <3>4 DEF Applied
  <2>3. clean => op.reg \in Written \cap Regs /\ get(op.reg, Applied(regs, Tail(parts))) = final
    BY <2>1 DEF ReadBackProgress
  <2>4. QED
    BY <2>1, <2>2, <2>3 DEF ReadBackProgress, NoAnswer, Regs
<1>8. CASE Boot
  BY <1>a, <1>b, <1>8 DEF Boot, ProbeMt6701, ProbeIna228, Succeeds, IInv, CleanProgress, ReadBackProgress
<1>9. CASE ProgramDone
  BY <1>9 DEF ProgramDone, ReadBackProgress
<1>10. ASSUME Forget PROVE ReadBackProgress'
  BY <1>10 DEF Forget, ReadBackProgress
<1>11. CASE UNCHANGED vars
  BY <1>11 DEF vars, ReadBackProgress
<1>12. QED
  BY <1>1, <1>2, <1>3, <1>4, <1>5, <1>6, <1>7, <1>8, <1>9, <1>10, <1>11
  DEF Next, Task, EspReset, PowerLoss

\* For the fields whose write function inverts their read function, READ_CONFIG
\* gives back what a WRITE_CONFIG in which nothing went wrong has written,
\* whatever failed, was cut off or answered before: for every value, a value too
\* wide for its field included, and every content of the registers.
THEOREM ConformingFieldsReadBack ==
    ASSUME Written \cap Regs \subseteq Conforming
    PROVE  Spec => []WriteReadsBack
<1>1. IInv /\ ReadBackProgress => WriteReadsBack
  BY DEF ReadBackProgress, WriteReadsBack, Done
<1>2. IInv /\ ReadBackProgress /\ [Next]_vars => ReadBackProgress'
  BY ReadBackStep
<1>3. QED
  BY <1>1, <1>2, InitReadBack, Inductive, PTL DEF Spec

-----------------------------------------------------------------------------
(***************************************************************************)
(* The other fields                                                        *)
(***************************************************************************)

\* m and n differ in bits of field reg only.
AgreeOutside(reg, m, n) == \A a \in Addr : m[a] \ OwnBits(reg, a) = n[a] \ OwnBits(reg, a)

\* The parts still to be written carry, outside their field, what the registers
\* hold: nothing has changed there since they were computed.
FootprintOK ==
    pc \in {"data", "key", "cmd", "wait"} =>
        op.reg \in Written \cap Regs /\ AllKeepOthers(op.reg, regs, parts)

\* The registers are ahead of the EEPROM in the field being written only.
SavedProgress ==
    /\ busy => pc = "wait"
    /\ pc \in {"idle", "boot", "ina228", "read"} => eeprom = regs
    /\ pc \in {"data", "key", "cmd"} => AgreeOutside(op.reg, regs, eeprom)
    /\ pc = "cmd" => armed
    /\ pc = "wait" => IF busy THEN image = regs /\ AgreeOutside(op.reg, regs, eeprom)
                              ELSE eeprom = regs

LEMMA AgreeRefl == \A reg, m : AgreeOutside(reg, m, m)
BY DEF AgreeOutside

LEMMA AgreeTrans ==
    ASSUME NEW reg, NEW l, NEW m, NEW n, AgreeOutside(reg, l, m), AgreeOutside(reg, m, n)
    PROVE  AgreeOutside(reg, l, n)
BY DEF AgreeOutside

\* A part, or the beginning of one, reaches into no bits but those of its field.
LEMMA PutAgrees ==
    ASSUME NEW reg, NEW m, NEW part \in Part, KeepsOthers(reg, m, part)
    PROVE  AgreeOutside(reg, put(m, part), m)
BY PartFacts DEF AgreeOutside, KeepsOthers, put

LEMMA PrefixKeeps ==
    ASSUME NEW reg, NEW m, NEW part, KeepsOthers(reg, m, part), NEW q \in Beginnings(part)
    PROVE  KeepsOthers(reg, m, q)
BY DEF KeepsOthers, Beginnings

\* Changes in bits of its own field are nothing to a part.
LEMMA StillKeeps ==
    ASSUME NEW reg, NEW m, NEW n, AgreeOutside(reg, n, m), NEW part \in Part, KeepsOthers(reg, m, part)
    PROVE  KeepsOthers(reg, n, part)
BY PartFacts DEF AgreeOutside, KeepsOthers

LEMMA AllStillKeep ==
    ASSUME NEW reg, NEW m, NEW n, AgreeOutside(reg, n, m), NEW ps \in Seq(Part), AllKeepOthers(reg, m, ps)
    PROVE  AllKeepOthers(reg, n, ps)
<1> SUFFICES ASSUME NEW i \in 1 .. Len(ps) PROVE KeepsOthers(reg, n, ps[i])
  BY DEF AllKeepOthers
<1>1. ps[i] \in Part
  BY ElementOfSeq
<1>2. KeepsOthers(reg, m, ps[i])
  BY DEF AllKeepOthers
<1>3. QED
  BY <1>1, <1>2, StillKeeps

\* Fields that share no bits with the one in which two images differ are equal.
LEMMA OthersEqual ==
    ASSUME NEW reg \in Regs, NEW other \in Regs, reg # other, ~(reg \in Overlap /\ other \in Overlap),
           NEW m \in Image, NEW n \in Image, AgreeOutside(reg, m, n)
    PROVE  server_get_reg_value(other, m) = server_get_reg_value(other, n)
<1>1. ASSUME NEW a \in Addr PROVE m[a] \cap OwnBits(other, a) = n[a] \cap OwnBits(other, a)
  <2>1. OwnBits(reg, a) \cap OwnBits(other, a) = {}
    BY OwnBitsApart
  <2>2. m[a] \ OwnBits(reg, a) = n[a] \ OwnBits(reg, a)
    BY DEF AgreeOutside
  <2>3. QED
    BY <2>1, <2>2
<1>2. QED
  BY <1>1, ReadsOwnBits

LEMMA FootprintInit == Init => FootprintOK
BY DEF Init, FootprintOK

\* WriteData changes bits of the field of the request only.
LEMMA DataAgrees ==
    ASSUME TypeOK, PartsOK, FootprintOK, WriteData
    PROVE  AgreeOutside(op.reg, regs', regs)
<1>1. parts \in Seq(Part) /\ Len(parts) \in 1 .. 2 /\ AllKeepOthers(op.reg, regs, parts)
  BY DEF PartsOK, FootprintOK, WriteData
<1>2. Head(parts) = parts[1] /\ 1 \in 1 .. Len(parts)
  BY SMTT(30), <1>1
<1>3. Head(parts) \in Part /\ KeepsOthers(op.reg, regs, Head(parts))
  BY <1>1, <1>2, ElementOfSeq DEF AllKeepOthers
<1>4. CASE regs' = put(regs, Head(parts))
  BY <1>3, <1>4, PutAgrees
<1>5. ASSUME NEW part \in Beginnings(Head(parts)), regs' = put(regs, part)
      PROVE  AgreeOutside(op.reg, regs', regs)
  <2>1. part \in Part /\ KeepsOthers(op.reg, regs, part)
    BY <1>3, PrefixPart, PrefixKeeps
  <2>2. QED
    BY <1>5, <2>1, PutAgrees
<1>6. QED
  BY <1>4, <1>5 DEF WriteData

LEMMA FootprintStep ==
    ASSUME "A_START" \notin Written, "read" \notin Faults
    PROVE  IInv /\ FootprintOK /\ [Next]_vars => FootprintOK'
<1> SUFFICES ASSUME IInv, FootprintOK, [Next]_vars PROVE FootprintOK'
  OBVIOUS
<1>a. TypeOK /\ PartsOK
  BY DEF IInv
<1>1. ASSUME NEW reg \in Written, ReadConfig(reg) PROVE FootprintOK'
  BY <1>1 DEF ReadConfig, FootprintOK
<1>2. ASSUME NEW reg \in Written, NEW val \in Values, WriteConfig(reg, val) PROVE FootprintOK'
  BY <1>2 DEF WriteConfig, FootprintOK
<1>3. CASE ReadRegs
  <2>1. op.reg \in Regs /\ op.reg \in Written \cup {"none"} /\ op.val \in Word /\ regs \in Image
    BY <1>a, <1>3 DEF ReadRegs, PartsOK, TypeOK
  <2>2. op.reg \in Written \cap Regs
    BY <2>1 DEF Regs
  <2>3. parts' = server_set_reg_value(op.reg, regs, op.val) /\ op' = op /\ regs' = regs
    BY <1>3 DEF ReadRegs, Fails, device
  <2>4. AllKeepOthers(op.reg, regs, server_set_reg_value(op.reg, regs, op.val))
    BY <2>1, <2>2, Footprint
  <2>5. QED
    BY <2>2, <2>3, <2>4 DEF FootprintOK
<1>4. CASE WriteData
  <2>1. op' = op /\ parts' = parts /\ parts \in Seq(Part) /\ AllKeepOthers(op.reg, regs, parts)
    BY <1>a, <1>4 DEF WriteData, PartsOK, FootprintOK
  <2>2. AgreeOutside(op.reg, regs', regs)
    BY <1>a, <1>4, DataAgrees
  <2>3. AllKeepOthers(op.reg, regs', parts)
    BY <2>1, <2>2, AllStillKeep
  <2>4. QED
    BY <1>4, <2>1, <2>3 DEF WriteData, FootprintOK
<1>5. CASE WriteKey \/ WriteCmd
  BY <1>5 DEF WriteKey, WriteCmd, FootprintOK
<1>6. CASE EepromWriteWait
  <2>1. pc = "wait" /\ parts' = Tail(parts) /\ op' = op /\ regs' = regs
    BY <1>6 DEF EepromWriteWait, device
  <2>2. /\ parts \in Seq(Part) /\ Len(parts) \in 1 .. 2
        /\ op.reg \in Written \cap Regs /\ AllKeepOthers(op.reg, regs, parts)
    BY <1>a, <2>1 DEF PartsOK, FootprintOK
  <2>3. AllKeepOthers(op.reg, regs, Tail(parts))
    <3>a. parts # <<>>
      <4>1. Len(parts) \in 1 .. 2
        BY <2>2
      <4>2. QED
        BY <4>1
    <3>1. /\ Len(Tail(parts)) = Len(parts) - 1 /\ Len(parts) \in Nat
          /\ \A i \in 1 .. Len(Tail(parts)) : Tail(parts)[i] = parts[i + 1]
      BY <2>2, <3>a, HeadTailProperties
    <3>2. SUFFICES ASSUME NEW i \in 1 .. Len(Tail(parts)) PROVE KeepsOthers(op.reg, regs, Tail(parts)[i])
      BY DEF AllKeepOthers
    <3>3. i + 1 \in 1 .. Len(parts) /\ Tail(parts)[i] = parts[i + 1]
      BY <3>1
    <3>4. QED
      BY <2>2, <3>3 DEF AllKeepOthers
  <2>4. QED
    BY <2>1, <2>2, <2>3 DEF FootprintOK
<1>7. CASE Boot \/ ProgramDone
  BY <1>7 DEF Boot, ProbeMt6701, ProbeIna228, ProgramDone, FootprintOK
<1>8. ASSUME Forget PROVE FootprintOK'
  BY <1>8 DEF Forget, FootprintOK
<1>9. CASE UNCHANGED vars
  BY <1>9 DEF vars, FootprintOK
<1>10. QED
  BY <1>1, <1>2, <1>3, <1>4, <1>5, <1>6, <1>7, <1>8, <1>9 DEF Next, Task, EspReset, PowerLoss

\* As long as the reads that the write functions start from do not fail, a write
\* leaves every field but its own as it was, whatever fails or is cut off
\* afterwards: for the ten fields that share no bits with another one and whose
\* write keeps the bits around them.
THEOREM WritesKeepNeighbours ==
    ASSUME Written \cap Regs \subseteq Separate, "read" \notin Faults
    PROVE  Spec => NeighboursKept
<1> DEFINE Kept == \A reg \in Regs \ {op.reg} :
               pc' = "boot" \/ server_get_reg_value(reg, regs') = server_get_reg_value(reg, regs)
<1>1. "A_START" \notin Written
  BY DEF Separate, Regs
<1>2. IInv /\ FootprintOK /\ [Next]_vars => FootprintOK'
  BY <1>1, FootprintStep
<1>3. IInv /\ FootprintOK /\ [Next]_vars /\ IInv' => Kept
  <2> SUFFICES ASSUME IInv, FootprintOK, [Next]_vars, IInv', NEW reg \in Regs \ {op.reg}
               PROVE  pc' = "boot" \/ server_get_reg_value(reg, regs') = server_get_reg_value(reg, regs)
    OBVIOUS
  <2>a. TypeOK /\ PartsOK /\ regs \in Image /\ regs' \in Image
    BY DEF IInv, TypeOK
  <2>1. CASE WriteData
    <3>1. AgreeOutside(op.reg, regs', regs)
      BY <2>a, <2>1, DataAgrees
    <3>2. op.reg \in Separate
      BY <2>1 DEF WriteData, FootprintOK
    <3>3. op.reg \in Regs /\ op.reg \notin Overlap
      BY <3>2 DEF Separate
    <3>4. QED
      BY <2>a, <3>1, <3>3, OthersEqual
  <2>2. CASE PowerLoss
    BY <2>2 DEF PowerLoss, Forget
  <2>3. ASSUME NEW r \in Written, ReadConfig(r) PROVE regs' = regs
    BY <2>3 DEF ReadConfig, device
  <2>4. ASSUME NEW r \in Written, NEW val \in Values, WriteConfig(r, val) PROVE regs' = regs
    BY <2>4 DEF WriteConfig, device
  <2>5. CASE ReadRegs \/ WriteKey \/ WriteCmd \/ EepromWriteWait \/ Boot
    BY <2>5 DEF ReadRegs, WriteKey, WriteCmd, EepromWriteWait, Boot, ProbeMt6701, ProbeIna228, device
  <2>6. CASE ProgramDone \/ EspReset
    BY <2>6 DEF ProgramDone, EspReset, device
  <2>7. CASE UNCHANGED vars
    BY <2>7 DEF vars
  <2>8. QED
    BY <2>1, <2>2, <2>3, <2>4, <2>5, <2>6, <2>7 DEF Next, Task
<1>4. QED
  BY <1>2, <1>3, FootprintInit, Inductive, PTL DEF Spec, NeighboursKept

LEMMA SavedInit == Init => SavedProgress
BY DEF Init, SavedProgress

\* Everything that a power loss leaves in the EEPROM was in it or was to be
\* programmed into it.
LEMMA PowerLossMixes ==
    ASSUME TypeOK, PowerLoss
    PROVE  /\ \A a \in Addr : eeprom'[a] \in {eeprom[a], image[a]}
           /\ ~busy => eeprom' = eeprom
<1>1. PICK done : /\ ~busy => done = {}
                  /\ eeprom' = [a \in Addr |-> IF a \in done THEN image[a] ELSE eeprom[a]]
  <2>1. CASE busy
    BY <2>1 DEF PowerLoss
  <2>2. CASE ~busy
    BY <2>2 DEF PowerLoss
  <2>3. QED
    BY <2>1, <2>2
<1>2. eeprom = [a \in Addr |-> eeprom[a]]
  BY DEF TypeOK, Image
<1>3. ~busy => eeprom' = eeprom
  <2> SUFFICES ASSUME ~busy PROVE eeprom' = eeprom
    OBVIOUS
  <2>1. eeprom' = [a \in Addr |-> eeprom[a]]
    BY <1>1
  <2>2. QED
    BY <1>2, <2>1
<1>4. QED
  BY <1>1, <1>3

LEMMA SavedStep ==
    ASSUME "A_START" \notin Written, Faults \subseteq {"data", "probe"}, Resets \subseteq {"power"}
    PROVE  IInv /\ FootprintOK /\ SavedProgress /\ [Next]_vars => SavedProgress'
<1> SUFFICES ASSUME IInv, FootprintOK, SavedProgress, [Next]_vars PROVE SavedProgress'
  OBVIOUS
<1>a. TypeOK /\ PartsOK
  BY DEF IInv
<1>1. ASSUME NEW reg \in Written, ReadConfig(reg) PROVE SavedProgress'
  BY <1>1 DEF ReadConfig, device, SavedProgress
<1>2. ASSUME NEW reg \in Written, NEW val \in Values, WriteConfig(reg, val) PROVE SavedProgress'
  BY <1>2 DEF WriteConfig, device, SavedProgress
<1>3. CASE ReadRegs
  BY <1>3, AgreeRefl DEF ReadRegs, device, SavedProgress
<1>4. CASE WriteData
  <2>1. AgreeOutside(op.reg, regs', regs)
    BY <1>a, <1>4, DataAgrees
  <2>2. AgreeOutside(op.reg, regs, eeprom)
    BY <1>4 DEF WriteData, SavedProgress
  <2>3. AgreeOutside(op.reg, regs', eeprom)
    BY <2>1, <2>2, AgreeTrans
  <2>4. QED
    BY <1>4, <2>3 DEF WriteData, SavedProgress
<1>5. CASE WriteKey
  BY <1>5 DEF WriteKey, Fails, SavedProgress
\* The command is not lost, and the device has the key.
<1>6. CASE WriteCmd
  <2>1. Program /\ armed /\ AgreeOutside(op.reg, regs, eeprom)
    BY <1>6 DEF WriteCmd, Fails, SavedProgress
  <2>2. busy' /\ image' = regs
    BY <2>1 DEF Program
  <2>3. QED
    BY <1>6, <2>1, <2>2 DEF WriteCmd, SavedProgress
<1>7. CASE EepromWriteWait
  BY <1>7, AgreeRefl DEF EepromWriteWait, device, SavedProgress
<1>8. CASE Boot
  BY <1>8 DEF Boot, ProbeMt6701, ProbeIna228, device, SavedProgress
<1>9. CASE ProgramDone
  BY <1>9 DEF ProgramDone, SavedProgress
<1>10. CASE PowerLoss
  BY <1>10 DEF PowerLoss, Forget, SavedProgress
<1>11. ~EspReset
  BY DEF EspReset
<1>12. CASE UNCHANGED vars
  BY <1>12 DEF vars, SavedProgress
<1>13. QED
  BY <1>1, <1>2, <1>3, <1>4, <1>5, <1>6, <1>7, <1>8, <1>9, <1>10, <1>11, <1>12 DEF Next, Task

\* What becomes of the EEPROM in one step: nothing, all of the registers, or, at
\* a loss of power, a mixture of the two.
LEMMA EepromStep ==
    ASSUME IInv, [Next]_vars
    PROVE  \/ eeprom' = eeprom
           \/ ProgramDone
           \/ PowerLoss
<1>1. ASSUME NEW reg \in Written, ReadConfig(reg) PROVE eeprom' = eeprom
  BY <1>1 DEF ReadConfig, device
<1>2. ASSUME NEW reg \in Written, NEW val \in Values, WriteConfig(reg, val) PROVE eeprom' = eeprom
  BY <1>2 DEF WriteConfig, device
<1>3. CASE Task
  BY <1>3 DEF Task, ReadRegs, WriteData, WriteKey, WriteCmd, EepromWriteWait, Boot, ProbeMt6701, ProbeIna228, device
<1>4. CASE EspReset
  BY <1>4 DEF EspReset, device
<1>5. CASE UNCHANGED vars
  BY <1>5 DEF vars
<1>6. QED
  BY <1>1, <1>2, <1>3, <1>4, <1>5 DEF Next

\* With a board that may lose power at any point and register writes that may
\* fail half-way, but keys and commands that arrive and no reset of the ESP32
\* alone, the EEPROM never takes up a change of another field than the one being
\* written: each write has been saved before the next begins.
THEOREM SavesKeepNeighbours ==
    ASSUME Written \cap Regs \subseteq Separate, Faults \subseteq {"data", "probe"}, Resets \subseteq {"power"}
    PROVE  Spec => SavedNeighboursKept
<1> DEFINE Kept == \A reg \in Regs \ {op.reg} :
               server_get_reg_value(reg, eeprom') = server_get_reg_value(reg, eeprom)
<1>1. "A_START" \notin Written /\ "read" \notin Faults
  BY DEF Separate, Regs
<1>2. IInv /\ FootprintOK /\ [Next]_vars => FootprintOK'
  BY <1>1, FootprintStep
<1>3. IInv /\ FootprintOK /\ SavedProgress /\ [Next]_vars => SavedProgress'
  BY <1>1, SavedStep
<1>4. IInv /\ FootprintOK /\ SavedProgress /\ [Next]_vars /\ IInv' => Kept
  <2> SUFFICES ASSUME IInv, FootprintOK, SavedProgress, [Next]_vars, IInv', NEW reg \in Regs \ {op.reg}
               PROVE  server_get_reg_value(reg, eeprom') = server_get_reg_value(reg, eeprom)
    OBVIOUS
  <2>a. TypeOK /\ eeprom \in Image /\ eeprom' \in Image
    BY DEF IInv, TypeOK
  <2>1. CASE busy /\ AgreeOutside(op.reg, eeprom', eeprom)
    <3>1. op.reg \in Separate
      BY <2>1 DEF SavedProgress, FootprintOK
    <3>2. op.reg \in Regs /\ op.reg \notin Overlap
      BY <3>1 DEF Separate
    <3>3. QED
      BY <2>a, <2>1, <3>2, OthersEqual
  <2>2. busy => image = regs /\ AgreeOutside(op.reg, regs, eeprom)
    BY DEF SavedProgress
  <2>3. CASE ProgramDone
    <3>1. busy /\ eeprom' = image
      BY <2>3 DEF ProgramDone
    <3>2. QED
      BY <2>1, <2>2, <3>1
  <2>4. CASE PowerLoss
    <3>1. (\A a \in Addr : eeprom'[a] \in {eeprom[a], image[a]}) /\ (~busy => eeprom' = eeprom)
      BY <2>a, <2>4, PowerLossMixes
    <3>2. busy => AgreeOutside(op.reg, eeprom', eeprom)
      BY <2>2, <3>1 DEF AgreeOutside
    <3>3. QED
      BY <2>1, <3>1, <3>2
  <2>5. QED
    BY <2>3, <2>4, EepromStep
<1>5. QED
  BY <1>2, <1>3, <1>4, FootprintInit, SavedInit, Inductive, PTL DEF Spec, SavedNeighboursKept

-----------------------------------------------------------------------------
(***************************************************************************)
(* The driver implements the configuration store: every step of Mt6701 is  *)
(* a step of ConfigStore, or leaves its variables alone.                   *)
(***************************************************************************)

LEMMA StoreInit == Init => Store!Init
<1> SUFFICES ASSUME Init PROVE Store!Init
  OBVIOUS
<1>1. live \in [Written \cap Regs -> Word] /\ saved = live
  BY FactoryAssumption, RegValueWord DEF Init, live, saved
<1>2. target = [reg |-> "none", val |-> {}]
  BY DEF Init, target, NoAnswer
<1>3. QED
  BY <1>1, <1>2 DEF Store!Init, Store!Idle, Store!Word, Word

-----------------------------------------------------------------------------
(***************************************************************************)
(* What the steps rely on                                                  *)
(***************************************************************************)

\* No request is under way but undisturbed ones, and the parts still to come
\* take the field nowhere but towards the value of the request, from wherever
\* it is.
RequestProgress ==
    /\ pc \in {"read", "data", "key", "cmd", "wait"} => clean /\ op.reg \in Written \cap Regs
    /\ pc \in {"data", "key", "cmd", "wait"} =>
           \A i \in 1 .. Len(parts), n \in Image :
               Diff(server_get_reg_value(op.reg, n), server_get_reg_value(op.reg, put(n, parts[i])))
                   \subseteq Diff(server_get_reg_value(op.reg, n), Truncated(op.reg, op.val))

RInv == IInv /\ FootprintOK /\ SavedProgress /\ ReadBackProgress /\ RequestProgress

\* For the fields whose write function inverts their read function, no two of
\* which share bits; the bus delivers, but for the probes of a boot, and only the
\* power may fail.
Undisturbed ==
    /\ Written \cap Regs \subseteq Conforming
    /\ ~(Overlap \subseteq Written)
    /\ Faults \subseteq {"probe"}
    /\ Resets \subseteq {"power"}

LEMMA RequestInit == Init => RequestProgress
BY DEF Init, RequestProgress

LEMMA RequestStep ==
    ASSUME Undisturbed
    PROVE  IInv /\ SavedProgress /\ RequestProgress /\ [Next]_vars => RequestProgress'
<1> SUFFICES ASSUME IInv, SavedProgress, RequestProgress, [Next]_vars PROVE RequestProgress'
  OBVIOUS
<1>a. TypeOK /\ PartsOK
  BY DEF IInv
<1>b. \A kind : kind # "probe" => ~Fails(kind)
  BY DEF Fails, Undisturbed
<1>1. ASSUME NEW reg \in Written, ReadConfig(reg) PROVE RequestProgress'
  BY <1>1 DEF ReadConfig, RequestProgress
\* A request that arrives finds a device that has finished the last one.
<1>2. ASSUME NEW reg \in Written, NEW val \in Values, WriteConfig(reg, val) PROVE RequestProgress'
  <2>1. ~busy
    BY <1>2 DEF WriteConfig, SavedProgress
  <2>2. pc' = (IF reg \in Regs THEN "read" ELSE "idle") /\ clean' = (reg \in Regs /\ ~busy) /\ op'.reg = reg
    BY <1>2 DEF WriteConfig
  <2>3. QED
    BY <2>1, <2>2 DEF RequestProgress
<1>3. CASE ReadRegs
  <2>1. op' = op /\ clean' = clean /\ pc' = "data" /\ parts' = server_set_reg_value(op.reg, regs, op.val)
    BY <1>b, <1>3 DEF ReadRegs, Succeeds
  <2>2. clean /\ op.reg \in Written \cap Regs /\ op.val \in Word /\ regs \in Image
    BY <1>a, <1>3 DEF ReadRegs, RequestProgress, TypeOK
  <2>3. op.reg \in Conforming
    BY <2>2 DEF Undisturbed
  <2>4. \A i \in 1 .. Len(parts'), n \in Image :
            Diff(server_get_reg_value(op.reg, n), server_get_reg_value(op.reg, put(n, parts'[i])))
                \subseteq Diff(server_get_reg_value(op.reg, n), Truncated(op.reg, op.val))
    BY <2>1, <2>2, <2>3, Toward
  <2>5. QED
    BY <2>1, <2>2, <2>4 DEF RequestProgress
<1>4. CASE WriteData \/ WriteKey \/ WriteCmd
  <2>1. op' = op /\ clean' = clean /\ parts' = parts /\ pc \in {"data", "key", "cmd"}
    BY <1>b, <1>4 DEF WriteData, WriteKey, WriteCmd, Succeeds
  <2>2. QED
    BY <2>1 DEF RequestProgress
<1>5. CASE EepromWriteWait
  <2>1. pc = "wait" /\ pc' \in {"data", "idle"} /\ op' = op /\ clean' = clean /\ parts' = Tail(parts)
    BY <1>5 DEF EepromWriteWait
  <2>2. parts \in Seq(Part) /\ Len(parts) \in 1 .. 2
    BY <1>a, <2>1 DEF PartsOK
  <2>3. parts # <<>>
    <3>1. Len(parts) \in 1 .. 2
      BY <2>2
    <3>2. QED
      BY <3>1
  <2>4. /\ Len(Tail(parts)) = Len(parts) - 1
        /\ \A i \in 1 .. Len(Tail(parts)) : Tail(parts)[i] = parts[i + 1]
    BY <2>2, <2>3, HeadTailProperties
  <2>5. \A i \in 1 .. Len(parts') : i + 1 \in 1 .. Len(parts) /\ parts'[i] = parts[i + 1]
    BY <2>1, <2>2, <2>4
  <2>6. QED
    BY <2>1, <2>5 DEF RequestProgress
<1>6. CASE Boot \/ ProgramDone
  BY <1>6 DEF Boot, ProbeMt6701, ProbeIna228, ProgramDone, RequestProgress
<1>7. ASSUME Forget PROVE RequestProgress'
  BY <1>7 DEF Forget, RequestProgress
<1>8. CASE UNCHANGED vars
  BY <1>8 DEF vars, RequestProgress
<1>9. QED
  BY <1>1, <1>2, <1>3, <1>4, <1>5, <1>6, <1>7, <1>8 DEF Next, Task, EspReset, PowerLoss

LEMMA RInductive ==
    ASSUME Undisturbed
    PROVE  Spec => []RInv
<1>1. /\ "A_START" \notin Written /\ "read" \notin Faults /\ Faults \subseteq {"data", "probe"}
      /\ Written \cap Regs \subseteq Conforming /\ Resets \subseteq {"power"}
  BY DEF Undisturbed, Conforming, Regs
<1>2. IInv /\ FootprintOK /\ [Next]_vars => FootprintOK'
  BY <1>1, FootprintStep
<1>3. IInv /\ FootprintOK /\ SavedProgress /\ [Next]_vars => SavedProgress'
  BY <1>1, SavedStep
<1>4. IInv /\ ReadBackProgress /\ [Next]_vars => ReadBackProgress'
  BY <1>1, ReadBackStep
<1>5. IInv /\ SavedProgress /\ RequestProgress /\ [Next]_vars => RequestProgress'
  BY RequestStep
<1>6. Init => FootprintOK /\ SavedProgress /\ ReadBackProgress /\ RequestProgress
  BY FootprintInit, SavedInit, InitReadBack, RequestInit
<1>7. QED
  BY <1>2, <1>3, <1>4, <1>5, <1>6, Inductive, PTL DEF Spec, RInv

-----------------------------------------------------------------------------
(***************************************************************************)
(* The steps                                                               *)
(***************************************************************************)

Same == live' = live /\ saved' = saved /\ target' = target

\* live and saved depend on the registers and the EEPROM only.
LEMMA SameStore ==
    /\ regs' = regs => live' = live
    /\ eeprom' = eeprom => saved' = saved
BY DEF live, saved

LEMMA Differ ==
    ASSUME NEW x, NEW y
    PROVE  Diff(x, Diff(x, y)) = y
BY DEF Diff

\* A part of the write of the request moves its field, and no other one.
LEMMA DataIsWrite ==
    ASSUME Undisturbed, RInv, RInv', WriteData
    PROVE  Store!Write
<1> DEFINE f == op.reg
           bits == Diff(live[f], live'[f])
<1>a. TypeOK /\ PartsOK /\ FootprintOK /\ regs \in Image /\ regs' \in Image
  BY DEF RInv, IInv, TypeOK
<1>b. pc = "data" /\ target = op /\ f \in Written \cap Regs
  BY DEF WriteData, target, RInv, RequestProgress
<1>c. live[f] = server_get_reg_value(f, regs) /\ live'[f] = server_get_reg_value(f, regs')
  BY <1>b DEF live
<1>1. target # [reg |-> "none", val |-> {}]
  BY <1>b DEF Regs
<1>2. regs' = put(regs, parts[1]) /\ 1 \in 1 .. Len(parts)
  <2>1. parts \in Seq(Part) /\ Len(parts) \in 1 .. 2
    BY <1>a, <1>b DEF PartsOK
  <2>2. 1 \in 1 .. Len(parts)
    BY <2>1
  <2>3. Head(parts) = parts[1]
    BY <2>1
  <2>4. QED
    BY <2>2, <2>3 DEF WriteData, Fails, Undisturbed
<1>3. bits \subseteq Diff(live[f], Truncated(f, op.val))
  BY <1>a, <1>b, <1>c, <1>2 DEF RInv, RequestProgress
<1>4. \A g \in Written \cap Regs : g # f => live'[g] = live[g]
  <2> SUFFICES ASSUME NEW g \in Written \cap Regs, g # f PROVE live'[g] = live[g]
    OBVIOUS
  <2>1. AgreeOutside(f, regs', regs)
    BY <1>a, DataAgrees
  <2>2. ~(f \in Overlap /\ g \in Overlap)
    BY <1>b DEF Undisturbed, Overlap
  <2>3. server_get_reg_value(g, regs') = server_get_reg_value(g, regs)
    BY <1>a, <1>b, <2>1, <2>2, OthersEqual
  <2>4. QED
    BY <2>3 DEF live
<1>5. live' = [live EXCEPT ![f] = Diff(@, bits)]
  <2>1. Diff(live[f], bits) = live'[f]
    BY Differ
  <2>2. live' = [g \in Written \cap Regs |-> live'[g]] /\ live = [g \in Written \cap Regs |-> live[g]]
    BY DEF live
  <2> HIDE DEF bits
  <2>3. QED
    BY <1>4, <2>1, <2>2
<1>6. saved' = saved /\ target' = target
  BY <1>b, SameStore DEF WriteData, target
<1>7. QED
  BY <1>b, <1>1, <1>3, <1>5, <1>6
  DEF Store!Write, Store!Idle, Store!Diff, Store!Truncated, Diff, Truncated

\* A request for a field is taken on; one for an unknown register is not.
LEMMA RequestIsBegin ==
    ASSUME NEW reg \in Written, NEW val \in Values, WriteConfig(reg, val)
    PROVE  Store!Next \/ Same
<1>1. target = [reg |-> "none", val |-> {}] /\ live' = live /\ saved' = saved
  BY SameStore DEF WriteConfig, target, NoAnswer, device
<1>2. CASE reg \in Regs
  <2>1. target' = [reg |-> reg, val |-> val]
    BY <1>2 DEF WriteConfig, target
  <2>2. Store!Begin(reg, val)
    BY <1>1, <2>1 DEF Store!Begin, Store!Idle
  <2>3. QED
    BY <1>2, <2>2 DEF Store!Next
<1>3. CASE reg \notin Regs
  BY <1>1, <1>3 DEF WriteConfig, target, NoAnswer, Same
<1>4. QED
  BY <1>2, <1>3

\* What the device has programmed is what is in the registers.
LEMMA ProgramDoneIsSave ==
    ASSUME RInv, ProgramDone
    PROVE  Store!Save
<1>1. pc = "wait" /\ pc' = "wait" /\ op' = op /\ eeprom' = regs /\ regs' = regs
  BY DEF RInv, SavedProgress, ProgramDone
<1>2. target = op /\ target' = op /\ op.reg \in Regs
  BY <1>1 DEF target, RInv, FootprintOK
<1>3. target # [reg |-> "none", val |-> {}]
  BY <1>2 DEF Regs
<1>4. saved' = live /\ live' = live
  BY <1>1, SameStore DEF saved, live
<1>5. QED
  BY <1>2, <1>3, <1>4 DEF Store!Save, Store!Idle

\* The wait after the last part ends with the value in place and saved.
LEMMA WaitIsFinish ==
    ASSUME RInv, RInv', EepromWriteWait
    PROVE  Store!Finish \/ Same
<1>1. pc = "wait" /\ ~busy /\ op' = op /\ regs' = regs /\ eeprom' = eeprom /\ clean' = clean
  BY DEF EepromWriteWait, device
<1>2. live' = live /\ saved' = saved /\ target = op /\ clean /\ op.reg \in Written \cap Regs
  BY <1>1, SameStore DEF target, RInv, RequestProgress
<1>3. CASE pc' = "data"
  BY <1>1, <1>2, <1>3 DEF target, Same
<1>4. CASE pc' = "idle"
  <2>1. target # [reg |-> "none", val |-> {}] /\ target' = [reg |-> "none", val |-> {}]
    BY <1>2, <1>4 DEF Regs, target, NoAnswer
  <2>2. live[op.reg] = Truncated(op.reg, op.val)
    <3>1. server_get_reg_value(op.reg, regs) = Truncated(op.reg, op.val)
      BY <1>1, <1>2, <1>4 DEF RInv, ReadBackProgress
    <3>2. QED
      BY <1>2, <3>1 DEF live
  <2>3. saved = live
    <3>1. eeprom = regs
      BY <1>1 DEF RInv, SavedProgress
    <3>2. QED
      BY <3>1 DEF saved, live
  <2>4. Store!Finish
    BY <1>2, <2>1, <2>2, <2>3 DEF Store!Finish, Store!Idle, Store!Truncated, Truncated
  <2>5. QED
    BY <2>4
<1>5. QED
  BY <1>3, <1>4 DEF EepromWriteWait

\* Of each field, what a power loss leaves is the old or the new value, bit by
\* bit, whichever bytes had been programmed.
LEMMA LossIsPowerLoss ==
    ASSUME Undisturbed, RInv, RInv', PowerLoss
    PROVE  Store!PowerLoss
<1>a. TypeOK /\ regs \in Image /\ eeprom \in Image /\ eeprom' \in Image
  BY DEF RInv, IInv, TypeOK
<1>1. saved' \in [Written \cap Regs -> Word]
  BY <1>a, RegValueWord DEF saved
<1>2. regs' = eeprom' /\ pc' = "boot"
  BY DEF PowerLoss, Forget
<1>3. live' = saved' /\ target' = [reg |-> "none", val |-> {}]
  BY <1>2 DEF live, saved, target, NoAnswer
<1>4. ASSUME NEW f \in Written \cap Regs
      PROVE  Diff(saved[f], saved'[f]) \subseteq Diff(saved[f], live[f])
  <2>1. /\ saved[f] = server_get_reg_value(f, eeprom) /\ live[f] = server_get_reg_value(f, regs)
        /\ saved'[f] = server_get_reg_value(f, eeprom')
    BY DEF saved, live
  <2>2. (\A a \in Addr : eeprom'[a] \in {eeprom[a], image[a]}) /\ (~busy => eeprom' = eeprom)
    BY <1>a, PowerLossMixes
  <2>3. CASE busy
    <3>1. image = regs
      BY <2>3 DEF RInv, SavedProgress
    <3>2. f \in Conforming
      BY DEF Undisturbed
    <3>3. QED
      BY <1>a, <2>1, <2>2, <3>1, <3>2, MixBetween
  <2>4. CASE ~busy
    <3>1. Diff(saved[f], saved'[f]) = {}
      BY <2>1, <2>2, <2>4 DEF Diff
    <3>2. QED
      BY <3>1
  <2>5. QED
    BY <2>3, <2>4
<1>5. QED
  BY <1>1, <1>3, <1>4
  DEF Store!PowerLoss, Store!Idle, Store!Between, Store!Diff, Diff, Store!Word, Word

LEMMA StoreStep ==
    ASSUME Undisturbed, RInv, RInv', [Next]_vars
    PROVE  Store!Next \/ Same
<1>1. ASSUME NEW reg \in Written, ReadConfig(reg) PROVE Same
  BY <1>1, SameStore DEF ReadConfig, device, target, Same
<1>2. ASSUME NEW reg \in Written, NEW val \in Values, WriteConfig(reg, val)
      PROVE  Store!Next \/ Same
  BY <1>2, RequestIsBegin
<1>3. CASE WriteData
  BY <1>3, DataIsWrite DEF Store!Next
<1>4. CASE ReadRegs \/ WriteKey \/ WriteCmd \/ Boot
  BY <1>4, SameStore DEF ReadRegs, WriteKey, WriteCmd, Boot, ProbeMt6701, ProbeIna228, device, target, Same
<1>5. CASE EepromWriteWait
  BY <1>5, WaitIsFinish DEF Store!Next
<1>6. CASE ProgramDone
  BY <1>6, ProgramDoneIsSave DEF Store!Next
<1>7. CASE PowerLoss
  BY <1>7, LossIsPowerLoss DEF Store!Next
<1>8. ~EspReset
  BY DEF EspReset, Undisturbed
<1>9. CASE UNCHANGED vars
  BY <1>9, SameStore DEF vars, target, Same
<1>10. QED
  BY <1>1, <1>2, <1>3, <1>4, <1>5, <1>6, <1>7, <1>8, <1>9 DEF Next, Task

\* The register writes, keys, commands and waits of the driver, with the device
\* behind them, are a store of independent fields: a WRITE_CONFIG changes its
\* own field only, ends when the value is in place and saved, and a loss of
\* power at any moment leaves each field, bit by bit, at its old or new value.
THEOREM DriverIsConfigStore ==
    ASSUME Undisturbed
    PROVE  Spec => ImplementsConfigStore
<1>1. RInv /\ RInv' /\ [Next]_vars => [Store!Next]_<<live, saved, target>>
  BY StoreStep DEF Same
<1>2. QED
  BY <1>1, StoreInit, RInductive, PTL DEF Spec, ImplementsConfigStore, Store!Spec
=============================================================================
