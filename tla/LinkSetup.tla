------------------------------ MODULE LinkSetup ------------------------------
(***************************************************************************)
(* How the programs of one or more links come up: main and its helpers     *)
(* (src/nerfnet/net/nerfnet_main.cc), which set up the TUN device, and the *)
(* constructors of RadioInterface, PrimaryRadioInterface and               *)
(* SecondaryRadioInterface, which tune the radio, start TunnelThread and   *)
(* open the two pipes. Every CHECK that fails ends the program with exit.  *)
(* Nerfnet takes it from there, for two programs that hear one another and *)
(* nobody else.                                                            *)
(***************************************************************************)
EXTENDS Integers, Sequences

CONSTANTS
  Programs,        (* the programs, each on a machine of its own           *)
  CommandLines,    (* the command lines that somebody may give             *)
  NotGiven         (* an option that is not on the command line            *)

Byte == 0..255

(* The bytes of a uint32_t, the lowest first. *)
Address == [1..4 -> Byte]

(* The text of an option is a sequence of characters, given by their codes. *)
ASSUME SetupAssumption ==
  \A line \in CommandLines :
    /\ line.primary \in BOOLEAN
    /\ line.primary_addr \in Address /\ line.secondary_addr \in Address
    /\ line.channel = NotGiven \/ line.channel \in Seq(Byte)
    /\ line.rf_retry_delay \in Nat /\ line.rf_retry_count \in Nat

VARIABLES
  options,         (* options[p]: p's command line                         *)
  pc,              (* pc[p]: what p does next; "run": the protocol;        *)
                   (* "exited": a CHECK failed, or p was stopped           *)
  radio,           (* radio[p]: how p's radio is tuned                     *)
  pipes,           (* pipes[p]: the addresses it writes to and listens to  *)
  thread,          (* thread[p]: TunnelThread runs                         *)
  hasty            (* history: programs that called exit while it ran      *)

vars == <<options, pc, radio, pipes, thread, hasty>>

Untuned == [channel |-> 0, data_rate |-> "", crc |-> "", width |-> 0]
NoPipes == [writing |-> <<>>, reading |-> <<>>]

-----------------------------------------------------------------------------
(* Options.                                                                *)

(* TCLAP reads the text with >> into a uint8_t, which takes one character, *)
(* and refuses a text of which something is left.                          *)
IsChannelText(text) == text = NotGiven \/ Len(text) = 1

Channel(line) == IF line.channel = NotGiven THEN 1 ELSE line.channel[1]

IsAccepted(line) ==
  /\ IsChannelText(line.channel)
  /\ line.rf_data_rate \in {"2mbps", "1mbps", "250kbps"}
  /\ line.rf_crc \in {"8", "16"}
  /\ line.rf_retry_delay <= 15
  /\ line.rf_retry_count <= 15

-----------------------------------------------------------------------------
(* main, one action per call that can fail.                                *)

(* exit(-1): the TUN device is gone with the program. *)
Exit(p) ==
  /\ pc' = [pc EXCEPT ![p] = "exited"]
  /\ thread' = [thread EXCEPT ![p] = FALSE]
  /\ hasty' = IF thread[p] THEN hasty \cup {p} ELSE hasty

GoOn(p, next) ==
  /\ pc' = [pc EXCEPT ![p] = next]
  /\ UNCHANGED <<thread, hasty>>

ParseOptions(p) ==
  /\ pc[p] = "parse"
  /\ IF IsAccepted(options[p]) THEN GoOn(p, "tunnel") ELSE Exit(p)
  /\ UNCHANGED <<options, radio, pipes>>

OpenTunnel(p) ==
  /\ pc[p] = "tunnel"
  /\ GoOn(p, "flags") \/ Exit(p)
  /\ UNCHANGED <<options, radio, pipes>>

SetInterfaceFlags(p) ==
  /\ pc[p] = "flags"
  /\ GoOn(p, "ip") \/ Exit(p)
  /\ UNCHANGED <<options, radio, pipes>>

SetIPAddress(p) ==
  /\ pc[p] = "ip"
  /\ GoOn(p, "radio") \/ Exit(p)
  /\ UNCHANGED <<options, radio, pipes>>

-----------------------------------------------------------------------------
(* The constructors.                                                       *)

(* RadioInterface up to radio_.begin(). *)
BeginRadio(p) ==
  /\ pc[p] = "radio"
  /\ \/ Channel(options[p]) < 128 /\ GoOn(p, "check")
     \/ Exit(p)
  /\ UNCHANGED <<options, radio, pipes>>

(* RF24::setChannel: the chip has 126 channels, and those above are the    *)
(* last of them.                                                           *)
AirChannel(line) == IF Channel(line) > 125 THEN 125 ELSE Channel(line)

(* Mutant: addresses are as short as the chip allows at least. *)
TunedNarrow(line) ==
  [channel |-> AirChannel(line), data_rate |-> line.rf_data_rate, crc |-> line.rf_crc,
   width |-> 2]

(* The retry settings, which concern nobody else, and the pipes, which the *)
(* chip keeps from whatever ran before, are left out.                      *)
Tuned(line) ==
  [channel |-> AirChannel(line), data_rate |-> line.rf_data_rate, crc |-> line.rf_crc,
   width |-> 3]

(* Mutant: TunnelThread is started before the chip is asked. *)
CheckRadioThreadFirst(p) ==
  /\ pc[p] = "check"
  /\ radio' = [radio EXCEPT ![p] = Tuned(options[p])]
  /\ thread' = [thread EXCEPT ![p] = TRUE]
  /\ \/ pc' = [pc EXCEPT ![p] = "pipes"] /\ UNCHANGED hasty
     \/ pc' = [pc EXCEPT ![p] = "exited"] /\ hasty' = hasty \cup {p}
  /\ UNCHANGED <<options, pipes>>

(* The rest of it: the settings, the test whether the chip is there (which *)
(* is the last CHECK of all), InitializeIrq, whose exception ends the      *)
(* program as a CHECK does (see IrqLine), and the thread.                  *)
CheckRadio(p) ==
  /\ pc[p] = "check"
  /\ radio' = [radio EXCEPT ![p] = Tuned(options[p])]
  /\ \/ /\ pc' = [pc EXCEPT ![p] = "pipes"]
        /\ thread' = [thread EXCEPT ![p] = TRUE]
        /\ UNCHANGED hasty
     \/ Exit(p)
  /\ UNCHANGED <<options, pipes>>

(* The radio is given five bytes and uses as many as its address width. *)
Pipe(address, width) == SubSeq(Append(address, 0), 1, width)

(* Mutant: both roles write to the primary's address. *)
WritingAddressOfPrimary(line) == line.primary_addr

WritingAddress(line) == IF line.primary THEN line.primary_addr ELSE line.secondary_addr

ReadingAddress(line) == IF line.primary THEN line.secondary_addr ELSE line.primary_addr

(* PrimaryRadioInterface or SecondaryRadioInterface. *)
OpenPipes(p) ==
  /\ pc[p] = "pipes"
  /\ pipes' = [pipes EXCEPT ![p] =
                 [writing |-> Pipe(WritingAddress(options[p]), radio[p].width),
                  reading |-> Pipe(ReadingAddress(options[p]), radio[p].width)]]
  /\ GoOn(p, "run")
  /\ UNCHANGED <<options, radio>>

(* Run does not return: somebody stops the program, and starts it again,   *)
(* with the same command line or another one.                              *)
Stop(p) ==
  /\ pc[p] = "run"
  /\ pc' = [pc EXCEPT ![p] = "exited"]
  /\ thread' = [thread EXCEPT ![p] = FALSE]
  /\ UNCHANGED <<options, radio, pipes, hasty>>

Start(p) ==
  /\ pc[p] = "exited"
  /\ \E line \in CommandLines : options' = [options EXCEPT ![p] = line]
  /\ GoOn(p, "parse")
  /\ UNCHANGED <<radio, pipes>>

-----------------------------------------------------------------------------
Init ==
  /\ options \in [Programs -> CommandLines]
  /\ pc = [p \in Programs |-> "parse"]
  /\ radio = [p \in Programs |-> Untuned]
  /\ pipes = [p \in Programs |-> NoPipes]
  /\ thread = [p \in Programs |-> FALSE]
  /\ hasty = {}

Next ==
  \E p \in Programs :
    \/ ParseOptions(p) \/ OpenTunnel(p) \/ SetInterfaceFlags(p) \/ SetIPAddress(p)
    \/ BeginRadio(p) \/ CheckRadio(p) \/ OpenPipes(p)
    \/ Stop(p) \/ Start(p)

Spec == Init /\ [][Next]_vars

-----------------------------------------------------------------------------
(* What p sends, q's chip takes in. *)
Hears(q, p) == pipes[p].writing = pipes[q].reading /\ radio[p] = radio[q]

LinkOptions(line) ==
  <<line.primary_addr, line.secondary_addr, AirChannel(line), line.rf_data_rate, line.rf_crc>>

ArePartners(p, q) ==
  /\ LinkOptions(options[p]) = LinkOptions(options[q])
  /\ options[p].primary # options[q].primary

Running == {p \in Programs : pc[p] = "run"}

(* Two programs that run with the same link options, one in each role,     *)
(* hear one another, whatever ran on their radios before: this is what the *)
(* README asks of the two ends, and what Nerfnet starts from.              *)
PartnersHear ==
  \A p, q \in Running : ArePartners(p, q) => Hears(p, q) /\ Hears(q, p)

(* The operators of the links have chosen addresses that differ in the     *)
(* bytes that the radio uses, and use no address twice.                    *)
WellAddressed ==
  \A line, other \in CommandLines :
    LET OnAir(address) == Pipe(address, 3)
    IN  /\ OnAir(line.primary_addr) # OnAir(other.secondary_addr)
        /\ \/ OnAir(line.primary_addr) = OnAir(other.primary_addr)
           \/ OnAir(line.secondary_addr) = OnAir(other.secondary_addr)
           => /\ line.primary_addr = other.primary_addr
              /\ line.secondary_addr = other.secondary_addr

(* A program hears nobody but programs that are its partner by their       *)
(* options: not one of another link, of another channel, or in its role.   *)
(* This is why Nerfnet's frames have one end to go to.                     *)
StrangersUnheard ==
  WellAddressed =>
    \A p, q \in Running : p # q /\ Hears(q, p) => ArePartners(p, q)

(* No CHECK calls exit, which destroys the static objects, under the feet  *)
(* of a TunnelThread that still runs.                                      *)
ExitsBeforeThread == hasty = {}

(* The channel is the one that the command line names (README.md: the      *)
(* examples give --channel 1, which is also the default).                  *)
ChannelAsGiven ==
  \A p \in Running :
    LET text == options[p].channel
    IN  radio[p].channel = IF text = NotGiven THEN 1 ELSE text[1] - 48
=============================================================================
