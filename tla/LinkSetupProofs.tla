--------------------------- MODULE LinkSetupProofs ---------------------------
(***************************************************************************)
(* The invariants of LinkSetup, for every set of programs and of command   *)
(* lines. A running program's radio is tuned as its command line says; the *)
(* rest is a comparison of two command lines.                              *)
(***************************************************************************)
EXTENDS LinkSetup, TLAPS

Stages == {"parse", "tunnel", "flags", "ip", "radio", "check", "pipes", "run", "exited"}

(* What set-up has done to the radio by the time p is at its stage. *)
IsTuned(p) == radio[p] = Tuned(options[p])

PipesOf(line) == [writing |-> Pipe(WritingAddress(line), 3),
                  reading |-> Pipe(ReadingAddress(line), 3)]

Shape ==
  /\ options \in [Programs -> CommandLines]
  /\ pc \in [Programs -> Stages]
  /\ radio = [p \in Programs |-> radio[p]]
  /\ pipes = [p \in Programs |-> pipes[p]]
  /\ thread \in [Programs -> BOOLEAN]

IsSetUp(p) ==
  /\ thread[p] => pc[p] \in {"pipes", "run"}
  /\ pc[p] \in {"pipes", "run"} => IsTuned(p)
  /\ pc[p] = "run" => pipes[p] = PipesOf(options[p])

SetupInv ==
  /\ Shape
  /\ hasty = {}
  /\ \A p \in Programs : IsSetUp(p)

-----------------------------------------------------------------------------
(* A step of p leaves the other programs alone. *)
LEMMA OthersStay ==
  ASSUME SetupInv, NEW p \in Programs, Shape', hasty' = hasty, IsSetUp(p)',
         \A q \in Programs \ {p} :
           /\ options'[q] = options[q] /\ pc'[q] = pc[q] /\ thread'[q] = thread[q]
           /\ radio'[q] = radio[q] /\ pipes'[q] = pipes[q]
  PROVE  SetupInv'
<1>1. ASSUME NEW q \in Programs PROVE IsSetUp(q)'
  <2>1. CASE q = p
    BY <2>1
  <2>2. CASE q # p
    BY <2>2 DEF SetupInv, IsSetUp, IsTuned
  <2> QED
    BY <2>1, <2>2
<1> QED
  BY <1>1 DEF SetupInv

(* Exit(p), in a stage before TunnelThread is started. *)
LEMMA ExitStep ==
  ASSUME SetupInv, NEW p \in Programs, Exit(p), pc[p] \notin {"pipes", "run"},
         UNCHANGED <<options, pipes>>,
         radio' = radio \/ \E r : radio' = [radio EXCEPT ![p] = r]
  PROVE  SetupInv'
<1>1. ~thread[p]
  BY DEF SetupInv, Shape, IsSetUp
<1>2. hasty' = hasty
  BY <1>1 DEF Exit
<1>3. pc' = [pc EXCEPT ![p] = "exited"] /\ thread' = [thread EXCEPT ![p] = FALSE]
  BY DEF Exit
<1>4. Shape'
  BY <1>3 DEF SetupInv, Shape, Stages
<1>5. pc'[p] = "exited" /\ ~thread'[p]
  BY <1>3 DEF SetupInv, Shape
<1>6. \A q \in Programs \ {p} :
        pc'[q] = pc[q] /\ thread'[q] = thread[q] /\ radio'[q] = radio[q]
  BY <1>3 DEF SetupInv, Shape
<1> QED
  BY <1>2, <1>4, <1>5, <1>6, OthersStay DEF IsSetUp

(* GoOn(p, stage) to a stage that asks nothing of the radio yet. *)
LEMMA EarlyStep ==
  ASSUME SetupInv, NEW p \in Programs, NEW stage \in Stages, GoOn(p, stage),
         pc[p] \notin {"pipes", "run"}, stage \notin {"pipes", "run"},
         NEW line \in CommandLines,
         options' = options \/ options' = [options EXCEPT ![p] = line],
         UNCHANGED <<radio, pipes>>
  PROVE  SetupInv'
<1>1. ~thread[p] /\ thread' = thread /\ hasty' = hasty /\ pc' = [pc EXCEPT ![p] = stage]
  BY DEF SetupInv, Shape, IsSetUp, GoOn
<1>2. Shape'
  BY <1>1 DEF SetupInv, Shape
<1>3. pc'[p] = stage
  BY <1>1 DEF SetupInv, Shape
<1>4. \A q \in Programs \ {p} : options'[q] = options[q] /\ pc'[q] = pc[q]
  BY <1>1 DEF SetupInv, Shape
<1> QED
  BY <1>1, <1>2, <1>3, <1>4, OthersStay DEF IsSetUp

(* A step of main, or of the constructor before it touches the radio. *)
LEMMA MainStep ==
  ASSUME SetupInv, NEW p \in Programs,
         \/ ParseOptions(p) \/ OpenTunnel(p) \/ SetInterfaceFlags(p)
         \/ SetIPAddress(p) \/ BeginRadio(p)
  PROVE  SetupInv'
<1>1. /\ UNCHANGED <<options, radio, pipes>>
      /\ pc[p] \notin {"pipes", "run"}
      /\ \/ Exit(p)
         \/ \E stage \in Stages \ {"pipes", "run"} : GoOn(p, stage)
  BY DEF ParseOptions, OpenTunnel, SetInterfaceFlags, SetIPAddress, BeginRadio, Stages
<1>2. options[p] \in CommandLines
  BY DEF SetupInv, Shape
<1>3. CASE Exit(p)
  BY <1>1, <1>3, ExitStep
<1>4. CASE \E stage \in Stages \ {"pipes", "run"} : GoOn(p, stage)
  BY <1>1, <1>2, <1>4, EarlyStep
<1> QED
  BY <1>1, <1>3, <1>4

LEMMA CheckRadioStep ==
  ASSUME SetupInv, NEW p \in Programs, CheckRadio(p)
  PROVE  SetupInv'
<1>1. /\ radio' = [radio EXCEPT ![p] = Tuned(options[p])]
      /\ UNCHANGED <<options, pipes>>
      /\ pc[p] \notin {"pipes", "run"}
  BY DEF CheckRadio
<1>2. CASE Exit(p)
  BY <1>1, <1>2, ExitStep
<1>3. CASE /\ pc' = [pc EXCEPT ![p] = "pipes"]
           /\ thread' = [thread EXCEPT ![p] = TRUE]
           /\ UNCHANGED hasty
  <2>1. Shape'
    BY <1>1, <1>3 DEF SetupInv, Shape, Stages
  <2>2. pc'[p] = "pipes" /\ IsTuned(p)'
    BY <1>1, <1>3 DEF SetupInv, Shape, IsTuned
  <2>3. \A q \in Programs \ {p} :
          pc'[q] = pc[q] /\ thread'[q] = thread[q] /\ radio'[q] = radio[q]
    BY <1>1, <1>3 DEF SetupInv, Shape
  <2> QED
    BY <1>1, <1>3, <2>1, <2>2, <2>3, OthersStay DEF IsSetUp
<1> QED
  BY <1>2, <1>3 DEF CheckRadio

LEMMA OpenPipesStep ==
  ASSUME SetupInv, NEW p \in Programs, OpenPipes(p)
  PROVE  SetupInv'
<1>1. IsTuned(p)
  BY DEF SetupInv, IsSetUp, OpenPipes
<1>2. radio[p].width = 3
  BY <1>1 DEF IsTuned, Tuned
<1>3. pipes' = [pipes EXCEPT ![p] = PipesOf(options[p])]
  BY <1>2 DEF OpenPipes, PipesOf
<1>4. /\ pc' = [pc EXCEPT ![p] = "run"]
      /\ UNCHANGED <<options, radio, thread, hasty>>
  BY DEF OpenPipes, GoOn
<1>5. Shape'
  BY <1>3, <1>4 DEF SetupInv, Shape, Stages
<1>6. pc'[p] = "run" /\ IsTuned(p)' /\ pipes'[p] = PipesOf(options'[p])
  BY <1>1, <1>3, <1>4 DEF SetupInv, Shape, IsTuned
<1>7. \A q \in Programs \ {p} : pc'[q] = pc[q] /\ pipes'[q] = pipes[q]
  BY <1>3, <1>4 DEF SetupInv, Shape
<1> QED
  BY <1>4, <1>5, <1>6, <1>7, OthersStay DEF IsSetUp

LEMMA StopStartStep ==
  ASSUME SetupInv, NEW p \in Programs, Stop(p) \/ Start(p)
  PROVE  SetupInv'
<1>1. CASE Stop(p)
  <2>1. /\ pc' = [pc EXCEPT ![p] = "exited"] /\ thread' = [thread EXCEPT ![p] = FALSE]
        /\ UNCHANGED <<options, radio, pipes, hasty>>
    BY <1>1 DEF Stop
  <2>2. Shape'
    BY <2>1 DEF SetupInv, Shape, Stages
  <2>3. /\ pc'[p] = "exited" /\ ~thread'[p]
        /\ \A q \in Programs \ {p} : pc'[q] = pc[q] /\ thread'[q] = thread[q]
    BY <2>1 DEF SetupInv, Shape
  <2> QED
    BY <2>1, <2>2, <2>3, OthersStay DEF IsSetUp
<1>2. CASE Start(p)
  <2>1. PICK line \in CommandLines : options' = [options EXCEPT ![p] = line]
    BY <1>2 DEF Start
  <2> QED
    BY <1>2, <2>1, EarlyStep DEF Start, Stages
<1> QED
  BY <1>1, <1>2

-----------------------------------------------------------------------------
LEMMA SetupInit == Init => SetupInv
<1> SUFFICES ASSUME Init PROVE SetupInv
  OBVIOUS
<1> QED
  BY DEF Init, SetupInv, Shape, IsSetUp, Stages

LEMMA SetupStep == SetupInv /\ [Next]_vars => SetupInv'
<1> SUFFICES ASSUME SetupInv, [Next]_vars PROVE SetupInv'
  OBVIOUS
<1>1. CASE UNCHANGED vars
  BY <1>1 DEF vars, SetupInv, Shape, IsSetUp, IsTuned
<1>2. CASE Next
  BY <1>2, MainStep, CheckRadioStep, OpenPipesStep, StopStartStep DEF Next
<1> QED
  BY <1>1, <1>2

THEOREM SetupHolds == Spec => []SetupInv
BY SetupInit, SetupStep, PTL DEF Spec

(* Every CHECK comes before TunnelThread is started. *)
THEOREM ChecksComeFirst == Spec => []ExitsBeforeThread
<1>1. SetupInv => ExitsBeforeThread
  BY DEF SetupInv, ExitsBeforeThread
<1> QED
  BY <1>1, SetupHolds, PTL

(* Two programs with the same link options, one in each role, hear one     *)
(* another once both run.                                                  *)
THEOREM PartnersMeet == Spec => []PartnersHear
<1>1. SetupInv => PartnersHear
  <2> SUFFICES ASSUME SetupInv, NEW p \in Running, NEW q \in Running, ArePartners(p, q)
               PROVE  Hears(p, q) /\ Hears(q, p)
    BY DEF PartnersHear
  <2>1. /\ IsTuned(p) /\ pipes[p] = PipesOf(options[p])
        /\ IsTuned(q) /\ pipes[q] = PipesOf(options[q])
    BY DEF SetupInv, Shape, IsSetUp, Running
  <2>2. options[p].primary # options[q].primary
        /\ options[p].primary \in BOOLEAN /\ options[q].primary \in BOOLEAN
    BY SetupAssumption DEF SetupInv, Shape, Running, ArePartners, SetupAssumption
  <2>3. /\ WritingAddress(options[p]) = ReadingAddress(options[q])
        /\ WritingAddress(options[q]) = ReadingAddress(options[p])
    BY <2>2 DEF ArePartners, LinkOptions, WritingAddress, ReadingAddress
  <2>4. /\ AirChannel(options[p]) = AirChannel(options[q])
        /\ options[p].rf_data_rate = options[q].rf_data_rate
        /\ options[p].rf_crc = options[q].rf_crc
    BY DEF ArePartners, LinkOptions
  <2> QED
    BY <2>1, <2>3, <2>4 DEF IsTuned, Tuned, PipesOf, Hears
<1> QED
  BY <1>1, SetupHolds, PTL

(* If the links' addresses differ in the bytes that the radio uses, nobody *)
(* but its partner hears a program.                                        *)
THEOREM OnlyPartnersMeet == Spec => []StrangersUnheard
<1>1. SetupInv => StrangersUnheard
  <2> SUFFICES ASSUME SetupInv, WellAddressed, NEW p \in Running, NEW q \in Running,
                      Hears(q, p)
               PROVE  ArePartners(p, q)
    BY DEF StrangersUnheard
  <2> DEFINE a == options[p]
             b == options[q]
  <2>1. /\ IsTuned(p) /\ pipes[p] = PipesOf(options[p])
        /\ IsTuned(q) /\ pipes[q] = PipesOf(options[q])
    BY DEF SetupInv, Shape, IsSetUp, Running
  <2>2. a \in CommandLines /\ b \in CommandLines
    BY DEF SetupInv, Shape, IsSetUp, Running
  <2>3. a.primary \in BOOLEAN /\ b.primary \in BOOLEAN
    BY <2>2, SetupAssumption DEF SetupAssumption
  <2>4. /\ Pipe(WritingAddress(a), 3) = Pipe(ReadingAddress(b), 3)
        /\ AirChannel(a) = AirChannel(b) /\ a.rf_data_rate = b.rf_data_rate /\ a.rf_crc = b.rf_crc
    <3>1. Tuned(a) = Tuned(b) /\ PipesOf(a).writing = PipesOf(b).reading
      BY <2>1 DEF Hears, IsTuned
    <3> HIDE DEF a, b
    <3> QED
      BY <3>1 DEF Tuned, PipesOf
  <2> HIDE DEF a, b
  <2>5. /\ Pipe(a.primary_addr, 3) # Pipe(b.secondary_addr, 3)
        /\ Pipe(b.primary_addr, 3) # Pipe(a.secondary_addr, 3)
        /\ \/ Pipe(a.primary_addr, 3) = Pipe(b.primary_addr, 3)
           \/ Pipe(a.secondary_addr, 3) = Pipe(b.secondary_addr, 3)
           => a.primary_addr = b.primary_addr /\ a.secondary_addr = b.secondary_addr
    BY <2>2 DEF WellAddressed
  <2>6. a.primary # b.primary /\ LinkOptions(a) = LinkOptions(b)
    BY <2>3, <2>4, <2>5 DEF WritingAddress, ReadingAddress, LinkOptions
  <2> QED
    BY <2>6 DEF ArePartners, a, b
<1> QED
  BY <1>1, SetupHolds, PTL
=============================================================================
