---------------------------- MODULE DeviceProofs ----------------------------
(* What the driver and the codec write into the rings, the other finds, and    *)
(* poll_command returns the response to its own verb, for every size of the    *)
(* rings, every set of verbs and wherever the pointers were before the setup.  *)
(* A stream is programmed while it is stopped and is heard, for every path to  *)
(* a converter and every number of streams.  The scan of the bus lists what is *)
(* there and leaves it as it was, for every machine.                           *)
EXTENDS CommandRing, SoundStreams, Pci, SequenceTheorems, WellFoundedInduction, TLAPS

RingSizes == {Entries[c] : c \in DOMAIN Entries}
Responses == {Answer(v) : v \in Verbs} \cup {NONE}

\* The rings have a size and hold what they can hold.
RingTypes ==
    /\ corb_entries \in RingSizes /\ rirb_entries \in RingSizes
    /\ corb \in [Slots -> Verbs \cup {NONE}] /\ rirb \in [Slots -> Responses]
    /\ at \in {"setup corb", "setup rirb", "enable", "idle", "write entry",
               "write pointer", "poll", "read"}
    /\ corb_run \in BOOLEAN /\ rirb_run \in BOOLEAN /\ RIRBSTS \in BOOLEAN

\* Before the rings run nothing moves.
SetupInv ==
    at \in {"setup corb", "setup rirb", "enable"} =>
        /\ ~corb_run /\ ~rirb_run
        /\ inside = <<>> /\ ~RIRBSTS /\ verb = NONE /\ corb_wp = 0
        /\ at # "setup corb" => CORBRP = 0 /\ CORBWP = 0
        /\ at = "enable" => RIRBWP = 0 /\ read_ptr = 0

\* Afterwards the pointers are inside the rings.
Pointers ==
    at \notin {"setup corb", "setup rirb", "enable"} =>
        /\ CORBWP \in 0 .. corb_entries - 1 /\ CORBRP \in 0 .. corb_entries - 1
        /\ corb_wp \in 0 .. corb_entries - 1
        /\ RIRBWP \in 0 .. rirb_entries - 1 /\ read_ptr \in 0 .. rirb_entries - 1

\* Where the one command is: in the CORB, inside the codec, or answered
InCorb ==
    /\ CORBRP # CORBWP /\ after(CORBRP, corb_entries) = CORBWP /\ corb[CORBWP] = verb
    /\ inside = <<>> /\ RIRBWP = read_ptr /\ ~RIRBSTS
InCodec == CORBRP = CORBWP /\ inside = <<verb>> /\ RIRBWP = read_ptr /\ ~RIRBSTS
Answered ==
    /\ CORBRP = CORBWP /\ inside = <<>>
    /\ RIRBWP = after(read_ptr, rirb_entries) /\ rirb[RIRBWP] = Answer(verb)
Nowhere == CORBRP = CORBWP /\ inside = <<>> /\ RIRBWP = read_ptr /\ ~RIRBSTS

CommandInv ==
    /\ at = "idle" => verb = NONE /\ Nowhere
    /\ at \in {"write entry", "write pointer", "poll", "read"} => verb \in Verbs
    /\ at \in {"write entry", "write pointer"} =>
           Nowhere /\ corb_wp = after(CORBWP, corb_entries)
    /\ at = "write pointer" => corb[corb_wp] = verb
    /\ at = "poll" => InCorb \/ InCodec \/ Answered
    /\ at = "read" => Answered

IInv == RingTypes /\ SetupInv /\ Pointers /\ CommandInv

-----------------------------------------------------------------------------
(* Pointers that wrap *)

LEMMA Sizes ==
    ASSUME NEW n \in RingSizes
    PROVE  n \in Nat /\ n >= 2 /\ Slots = 0 .. Entries["large"] - 1
           /\ \A p \in 0 .. n - 1 : p \in Slots
<1>1. PICK c \in DOMAIN Entries : n = Entries[c]
  BY DEF RingSizes
<1>2. n \in Nat \ {0, 1} /\ n <= Entries["large"] /\ Entries["large"] \in Nat
  BY <1>1, CommandRingAssumption
<1> QED
  BY <1>2 DEF Slots

LEMMA After ==
    ASSUME NEW n \in RingSizes, NEW p \in 0 .. n - 1
    PROVE  /\ after(p, n) = IF p + 1 = n THEN 0 ELSE p + 1
           /\ after(p, n) \in 0 .. n - 1 /\ after(p, n) # p
           /\ (p + 1) % n = after(p, n)
<1>1. n \in Nat /\ n >= 2
  BY Sizes
<1>2. CASE p + 1 = n
  <2>1. (p + 1) % n = 0
    BY <1>1, <1>2
  <2> QED
    BY <1>1, <1>2, <2>1 DEF after
<1>3. CASE p + 1 # n
  <2>1. p + 1 \in 0 .. n - 1
    BY <1>1, <1>3
  <2>2. (p + 1) % n = p + 1
    BY <1>1, <2>1
  <2> QED
    BY <1>1, <1>3, <2>2 DEF after
<1> QED
  BY <1>2, <1>3

\* The driver computes the number of responses: none or one.
LEMMA Waiting ==
    ASSUME rirb_entries \in RingSizes, read_ptr \in 0 .. rirb_entries - 1
    PROVE  /\ RIRBWP = read_ptr => ~rirb_has_responses
           /\ RIRBWP = after(read_ptr, rirb_entries) => rirb_has_responses
<1>1. rirb_entries \in Nat /\ rirb_entries >= 2
  BY Sizes
<1>2. /\ after(read_ptr, rirb_entries) = IF read_ptr + 1 = rirb_entries THEN 0 ELSE read_ptr + 1
  BY After
<1> QED
  BY <1>1, <1>2 DEF rirb_has_responses, ring_buffer_size

-----------------------------------------------------------------------------
(* The invariant is inductive *)

LEMMA InitIInv == Init => IInv
<1> SUFFICES ASSUME Init PROVE IInv
  OBVIOUS
<1>1. Entries["small"] \in RingSizes
  BY CommandRingAssumption DEF RingSizes
<1>2. RingTypes
  BY <1>1 DEF Init, RingTypes, Responses
<1> QED
  BY <1>2 DEF Init, IInv, SetupInv, Pointers, CommandInv

\* The sizes the driver chooses are sizes of a ring.
LEMMA Chosen == \A supported : chosen(supported) \in RingSizes
BY CommandRingAssumption DEF chosen, RingSizes

LEMMA SetupStep == IInv /\ Setup => IInv'
<1> SUFFICES ASSUME IInv, Setup PROVE IInv'
  OBVIOUS
<1> USE DEF IInv, SetupInv, Pointers, CommandInv
<1>1. CASE SetupCorb
  <2>1. chosen(caps.corb) \in RingSizes
    BY Chosen
  <2> QED
    BY <1>1, <2>1 DEF SetupCorb, RingTypes
<1>2. CASE SetupRirb
  <2>1. chosen(caps.rirb) \in RingSizes
    BY Chosen
  <2>2. RIRBWP' = 0 /\ read_ptr' = 0 /\ at = "setup rirb" /\ at' = "enable"
    BY <1>2 DEF SetupRirb, reset_rirb_wp
  <2>3. RingTypes'
    BY <1>2, <2>1 DEF SetupRirb, RingTypes
  <2> QED
    BY <1>2, <2>2, <2>3 DEF SetupRirb
<1>3. CASE EnableDma
  <2>1. corb_entries \in RingSizes /\ rirb_entries \in RingSizes
    BY DEF RingTypes
  <2>2. corb_entries \in Nat /\ corb_entries >= 2 /\ rirb_entries \in Nat /\ rirb_entries >= 2
    BY <2>1, Sizes
  <2>3. 0 \in 0 .. corb_entries - 1 /\ 0 \in 0 .. rirb_entries - 1
    BY ONLY <2>2
  <2>4. RingTypes' /\ at = "enable" /\ at' = "idle"
    <3>1. /\ corb_run' \in BOOLEAN /\ rirb_run' \in BOOLEAN
          /\ at = "enable" /\ at' = "idle" /\ RIRBSTS' = RIRBSTS
          /\ corb' = corb /\ rirb' = rirb
          /\ corb_entries' = corb_entries /\ rirb_entries' = rirb_entries
      BY <1>3 DEF EnableDma, ring
    <3> QED
      BY <3>1 DEF RingTypes
  <2>5. /\ CORBRP' = 0 /\ CORBWP' = 0 /\ RIRBWP' = 0 /\ read_ptr' = 0 /\ corb_wp' = 0
        /\ verb' = NONE /\ inside' = <<>> /\ ~RIRBSTS'
        /\ corb_entries' = corb_entries /\ rirb_entries' = rirb_entries
    BY <1>3, <2>4 DEF EnableDma, ring
  <2> QED
    BY <2>3, <2>4, <2>5 DEF Nowhere
<1> QED
  BY <1>1, <1>2, <1>3 DEF Setup

LEMMA StartSendStep == ASSUME NEW v \in Verbs PROVE IInv /\ StartSend(v) => IInv'
<1> SUFFICES ASSUME IInv, StartSend(v) PROVE IInv'
  OBVIOUS
<1> USE DEF IInv, SetupInv, Pointers, CommandInv
<1>1. CORBWP \in 0 .. corb_entries - 1 /\ corb_entries \in RingSizes /\ at = "idle"
  BY DEF StartSend, RingTypes
<1>2. after(CORBWP, corb_entries) \in 0 .. corb_entries - 1
  BY <1>1, After
<1> QED
  BY <1>1, <1>2 DEF StartSend, RingTypes, registers, ring, Nowhere

LEMMA SendStep == IInv /\ Send => IInv'
<1> SUFFICES ASSUME IInv, Send PROVE IInv'
  OBVIOUS
<1> USE DEF IInv, SetupInv, Pointers, CommandInv
<1>1. /\ corb_entries \in RingSizes /\ corb_wp \in 0 .. corb_entries - 1 /\ verb \in Verbs
      /\ Nowhere /\ corb_wp = after(CORBWP, corb_entries)
      /\ CORBWP \in 0 .. corb_entries - 1
  BY DEF Send, RingTypes
<1>2. corb_wp \in Slots /\ corb_wp # CORBWP
  BY <1>1, Sizes, After
<1>3. CASE at = "write entry"
  <2>1. /\ corb' = [corb EXCEPT ![corb_wp] = verb] /\ CORBWP' = CORBWP
        /\ at' = "write pointer"
    BY <1>3 DEF Send, Written
  <2>2. corb' \in [Slots -> Verbs \cup {NONE}] /\ corb'[corb_wp] = verb
    BY <1>1, <1>2, <2>1 DEF RingTypes
  <2> QED
    BY <1>1, <2>1, <2>2 DEF Send, RingTypes, registers, Nowhere
<1>4. CASE at = "write pointer"
  <2>1. corb' = corb /\ CORBWP' = corb_wp /\ at' = "poll"
    BY <1>4 DEF Send, Written
  <2>2. InCorb'
    BY <1>1, <1>2, <1>4, <2>1 DEF Send, InCorb, Nowhere, registers
  <2> QED
    BY <1>1, <2>1, <2>2 DEF Send, RingTypes, registers
<1> QED
  BY <1>3, <1>4 DEF Send

LEMMA PollStep == IInv /\ Poll => IInv'
<1> SUFFICES ASSUME IInv, Poll PROVE IInv'
  OBVIOUS
<1>1. rirb_entries \in RingSizes /\ read_ptr \in 0 .. rirb_entries - 1
  BY DEF IInv, RingTypes, Pointers, Poll
<1>2. RIRBWP # read_ptr
  BY <1>1, Waiting DEF Poll
<1>3. Answered
  BY <1>2 DEF IInv, CommandInv, Poll, InCorb, InCodec
<1> QED
  BY <1>3 DEF Poll, IInv, RingTypes, SetupInv, Pointers, CommandInv, Answered, registers, ring

LEMMA ReadStep == IInv /\ Read => IInv'
<1> SUFFICES ASSUME IInv, Read PROVE IInv'
  OBVIOUS
<1>1. /\ rirb_entries \in RingSizes /\ read_ptr \in 0 .. rirb_entries - 1
      /\ Answered
  BY DEF IInv, RingTypes, Pointers, CommandInv, Read
<1>2. after(read_ptr, rirb_entries) \in 0 .. rirb_entries - 1
  BY <1>1, After
<1> QED
  BY <1>1, <1>2
  DEF Read, IInv, RingTypes, SetupInv, Pointers, CommandInv, Answered, Nowhere, registers

LEMMA FetchStep == IInv /\ Fetch => IInv'
<1> SUFFICES ASSUME IInv, Fetch PROVE IInv'
  OBVIOUS
<1>1. at = "poll" /\ InCorb
  BY DEF Fetch, IInv, RingTypes, SetupInv, CommandInv, Nowhere, InCodec, Answered
<1>2. /\ corb_entries \in RingSizes
      /\ CORBRP \in 0 .. corb_entries - 1 /\ CORBWP \in 0 .. corb_entries - 1
  BY <1>1 DEF IInv, RingTypes, Pointers
<1>3. CORBRP' = CORBWP /\ corb[CORBRP'] = verb
  BY <1>1, <1>2, After DEF Fetch, InCorb
<1>4. inside' = <<verb>>
  BY <1>1, <1>3 DEF Fetch, InCorb
<1>5. InCodec'
  BY <1>1, <1>3, <1>4 DEF Fetch, InCorb, InCodec
<1> QED
  BY <1>1, <1>2, <1>3, <1>5
  DEF Fetch, IInv, RingTypes, SetupInv, Pointers, CommandInv, registers

LEMMA RespondStep == IInv /\ Respond => IInv'
<1> SUFFICES ASSUME IInv, Respond PROVE IInv'
  OBVIOUS
<1>1. at = "poll" /\ InCodec /\ verb \in Verbs
  BY DEF Respond, IInv, RingTypes, SetupInv, CommandInv, Nowhere, InCorb, Answered
<1>2. /\ rirb_entries \in RingSizes /\ RIRBWP \in 0 .. rirb_entries - 1
      /\ RIRBWP = read_ptr
  BY <1>1 DEF IInv, RingTypes, Pointers, InCodec
<1>3. /\ RIRBWP' = after(RIRBWP, rirb_entries) /\ RIRBWP' \in 0 .. rirb_entries - 1
      /\ RIRBWP' \in Slots
  BY <1>2, After, Sizes DEF Respond
<1>4. Head(inside) = verb /\ verb # NONE /\ inside' = <<>>
  BY <1>1, CommandRingAssumption DEF InCodec, Respond
<1>5. rirb' = [rirb EXCEPT ![RIRBWP'] = Answer(verb)]
  BY <1>4 DEF Respond
<1>6. rirb'[RIRBWP'] = Answer(verb) /\ rirb' \in [Slots -> Responses]
  BY <1>1, <1>3, <1>5 DEF IInv, RingTypes, Responses
<1>7. Answered'
  BY <1>1, <1>2, <1>3, <1>4, <1>6 DEF Respond, Answered, InCodec, registers
<1> QED
  BY <1>1, <1>3, <1>6, <1>7
  DEF Respond, IInv, RingTypes, SetupInv, Pointers, CommandInv, registers

LEMMA NextIInv == IInv /\ [Next]_vars => IInv'
<1>1. IInv /\ UNCHANGED vars => IInv'
  <2> SUFFICES ASSUME IInv, UNCHANGED vars PROVE IInv'
    OBVIOUS
  <2> USE DEF vars, registers, ring, IInv
  <2>1. RingTypes' /\ SetupInv' /\ Pointers'
    BY DEF RingTypes, SetupInv, Pointers
  <2>2. InCorb' = InCorb /\ InCodec' = InCodec /\ Answered' = Answered /\ Nowhere' = Nowhere
    BY DEF InCorb, InCodec, Answered, Nowhere
  <2>3. CommandInv'
    BY <2>2 DEF CommandInv
  <2> QED
    BY <2>1, <2>3
<1> QED
  BY <1>1, SetupStep, StartSendStep, SendStep, PollStep, ReadStep, FetchStep, RespondStep
  DEF Next, Driver, Codec

\* The inductive invariant: the one command is in the CORB, inside the codec, or
\* answered, and the pointers say which.
THEOREM Invariance == Spec => []IInv
<1> QED
  BY InitIInv, NextIInv, PTL DEF Spec

-----------------------------------------------------------------------------
(* What the invariant says *)

LEMMA IInvRings == IInv => RingsIntact
<1> SUFFICES ASSUME IInv PROVE RingsIntact
  OBVIOUS
<1>1. TypeOK
  BY DEF IInv, RingTypes, RingSizes, SetupInv, Pointers, CommandInv, TypeOK
<1>2. at = "poll" =>
        /\ corb_entries \in RingSizes /\ rirb_entries \in RingSizes
        /\ CORBRP \in 0 .. corb_entries - 1 /\ read_ptr \in 0 .. rirb_entries - 1
        /\ InCorb \/ InCodec \/ Answered
  BY DEF IInv, RingTypes, Pointers, CommandInv
<1>3. CommandsIntact
  <2>1. \A k \in 1 .. Len(inside) : inside[k] = verb
    <3>1. inside = <<>> \/ inside = <<verb>>
      BY DEF IInv, RingTypes, SetupInv, CommandInv, InCorb, InCodec, Answered, Nowhere
    <3> QED
      BY <3>1
  <2>2. at = "poll" /\ CORBRP # CORBWP =>
          corb[CORBWP] = verb /\ (CORBRP + 1) % corb_entries = CORBWP
    BY <1>2, After DEF InCorb, InCodec, Answered
  <2> QED
    BY <2>1, <2>2 DEF CommandsIntact
<1>4. SeesResponses
  <2> SUFFICES ASSUME at = "poll"
               PROVE  rirb_has_responses <=> CORBRP = CORBWP /\ inside = <<>>
    BY DEF SeesResponses
  <2>1. CASE InCorb
    BY <1>2, <2>1, Waiting DEF InCorb
  <2>2. CASE InCodec
    <3>1. inside # <<>>
      BY <2>2 DEF InCodec
    <3> QED
      BY <1>2, <2>2, <3>1, Waiting DEF InCodec
  <2>3. CASE Answered
    BY <1>2, <2>3, Waiting DEF Answered
  <2> QED
    BY <1>2, <2>1, <2>2, <2>3
<1> QED
  BY <1>1, <1>3, <1>4 DEF RingsIntact

\* Every step of the driver and of the controller is a step of the remote call,
\* or none: a call returns the response to its own verb.
LEMMA StepMaps == IInv /\ [Next]_vars => [Abstract!Next]_(Abstract!vars)
<1> SUFFICES ASSUME IInv, [Next]_vars PROVE [Abstract!Next]_(Abstract!vars)
  OBVIOUS
<1> USE DEF Abstract!Next, Abstract!vars
<1>1. ASSUME NEW v \in Verbs, StartSend(v) PROVE Abstract!Call
  BY <1>1 DEF StartSend, IInv, CommandInv, Abstract!Call
<1>2. CASE Read
  <2>1. Answered /\ verb \in Verbs /\ verb # NONE
    BY <1>2, CommandRingAssumption DEF Read, IInv, CommandInv
  <2>2. response' = Answer(verb) /\ verb' = NONE
    BY <1>2, <2>1 DEF Read, Answered
  <2> QED
    BY <2>1, <2>2 DEF Abstract!Return
<1>3. CASE Setup
  BY <1>3 DEF Setup, SetupCorb, SetupRirb, EnableDma
<1>4. CASE Send
  BY <1>4 DEF Send
<1>5. CASE Poll
  BY <1>5 DEF Poll
<1>6. CASE Codec
  BY <1>6 DEF Codec, Fetch, Respond
<1>7. CASE UNCHANGED vars
  BY <1>7 DEF vars
<1> QED
  BY <1>1, <1>2, <1>3, <1>4, <1>5, <1>6, <1>7 DEF Next, Driver

\* The pointers stay inside their rings, no command is overwritten or fetched too
\* early, and no response is seen before it is there or overlooked.
THEOREM RingsAlwaysIntact == Spec => []RingsIntact
<1> QED
  BY Invariance, IInvRings, PTL

\* poll_command implements the remote call: one call at a time, which returns the
\* response to its own verb.  (That it returns at all is left to the model checker.)
THEOREM Implements == Spec => Abstract!Init /\ [][Abstract!Next]_(Abstract!vars)
<1>1. Init => Abstract!Init
  BY DEF Init, Abstract!Init
<1> QED
  BY <1>1, Invariance, StepMaps, PTL DEF Spec

-----------------------------------------------------------------------------
(* Playing a sound *)

RegOf == [run : BOOLEAN, reset : BOOLEAN, tag : Nat, bdl : Nat, last : Nat]

\* How many streams have been made
made == Len(lst_streams)

\* The n-th of them
StreamAt(n) ==
    [number |-> n, data_address |-> DataPage(n + 1), data_phys |-> 2 * n + 1,
     bdl_address |-> BdlPage(n + 1), bdl_phys |-> 2 * n + 2]

\* The streams are in the list in the reverse order, each with two frames of its own.
StreamsMade ==
    /\ num_out \in Nat /\ num_in \in Nat /\ lst_outputs \in Seq(PathOf)
    /\ made \in Nat /\ made <= num_out
    /\ lst_streams = [k \in 1 .. made |-> StreamAt(made - k)]
    /\ DOMAIN pages = {DataPage(n) : n \in 0 .. made - 1} \cup {BdlPage(n) : n \in 0 .. made - 1}
    /\ \A n \in 0 .. made - 1 : pages[DataPage(n)] = 2 * n + 1 /\ pages[BdlPage(n)] = 2 * n + 2
    /\ DOMAIN memory = 1 .. 2 * made /\ memory = [k \in 1 .. 2 * made |-> memory[k]]

Configuring == {"tag", "stop", "reset", "program", "fill"}
OnPath == {"amp", "kind", "start", "playing"} \cup Configuring

\* The widgets before the one that is visited are set.
PathSet ==
    /\ play_at \in OnPath \cup {"setup", "assertion", "page fault", "null"}
    /\ play_at = "setup" => node = 1
    /\ play_at \in OnPath =>
          /\ num_out >= 1 /\ made = num_out /\ Len(lst_outputs) >= 2
          /\ node \in 1 .. Len(route)
          /\ \A k \in 1 .. node - 1 : /\ route[k].amp => k \in unmuted
                                      /\ route[k].type = "pin" => k \in enabled
          /\ play_at # "amp" => (route[node].amp => node \in unmuted)
          /\ play_at \notin {"amp", "kind"} => node = Len(route) /\ converter = 1

\* The register of the first stream is programmed step by step; the others keep
\* no buffer.
Programmed ==
    /\ reg \in [0 .. num_out + num_in - 1 -> RegOf]
    /\ \A r \in DOMAIN reg :
           reg[r].bdl # 0 => r = num_in /\ play_at \in {"fill", "start", "playing", "page fault"}
    /\ play_at \in {"reset", "program", "fill"} => ~reg[num_in].run
    /\ play_at \in {"program", "fill"} => ~reg[num_in].reset
    /\ play_at \in {"fill", "start", "playing"} => reg[num_in].tag = 1 /\ reg[num_in].bdl = 2
    /\ play_at = "playing" => reg[num_in].run

StreamsInv == StreamsMade /\ PathSet /\ Programmed

\* hda_test_sound plays the first stream that was made; its number is 0, and it
\* has number 1 for the converter.
LEMMA FirstStream ==
    ASSUME StreamsMade, made >= 1
    PROVE  /\ stream = StreamAt(0) /\ stream.number = 0 /\ sreg = num_in /\ tag = 1
           /\ stream.bdl_phys = 2 /\ stream.data_phys = 1
           /\ stream.bdl_address = BdlPage(1) /\ stream.data_address = DataPage(1)
           /\ num_in \in 0 .. num_out + num_in - 1
<1>1. stream = lst_streams[made]
  BY DEF stream, Last, made
<1>2. lst_streams[made] = StreamAt(made - made) /\ made - made = 0 /\ num_in \in Nat
  BY DEF StreamsMade
<1>3. stream = StreamAt(0)
  BY <1>1, <1>2
<1>4. /\ stream.number = 0 /\ stream.bdl_phys = 2 /\ stream.data_phys = 1
      /\ stream.bdl_address = BdlPage(1) /\ stream.data_address = DataPage(1)
  BY <1>3 DEF StreamAt
<1>5. num_in \in 0 .. num_out + num_in - 1
  BY DEF StreamsMade
<1> QED
  BY <1>2, <1>3, <1>4, <1>5 DEF sreg, tag

LEMMA RouteIsPath ==
    ASSUME StreamsMade, Len(lst_outputs) >= 2
    PROVE  /\ route \in Seq(WidgetOf) /\ Len(route) \in Nat
           /\ \A k \in 1 .. Len(route) : route[k].type = "out" <=> k = Len(route)
<1>1. lst_outputs \in Seq(PathOf) /\ 2 \in 1 .. Len(lst_outputs)
  BY DEF StreamsMade
<1>2. route \in PathOf
  BY <1>1 DEF route
<1> QED
  BY <1>2 DEF PathOf

LEMMA StreamsInitInv == StreamsInit => StreamsInv
<1> SUFFICES ASSUME StreamsInit PROVE StreamsInv
  OBVIOUS
<1>1. /\ num_out \in Nat /\ num_in \in Nat /\ lst_outputs \in Seq(PathOf) /\ node = 1
      /\ lst_streams = <<>> /\ pages = <<>> /\ memory = <<>> /\ play_at = "setup"
      /\ reg \in [0 .. num_out + num_in - 1 -> {Off, [Off EXCEPT !.run = TRUE, !.tag = 1]}]
  BY SoundStreamsAssumption DEF StreamsInit, StreamsBegin
<1>2. made = 0
  BY <1>1 DEF made
<1>3. StreamsMade
  BY <1>1, <1>2 DEF StreamsMade
<1>4. PathSet
  BY <1>1 DEF PathSet, OnPath, Configuring
<1>5. \A x \in {Off, [Off EXCEPT !.run = TRUE, !.tag = 1]} : x \in RegOf /\ x.bdl = 0
  <2>1. Off \in RegOf /\ Off.bdl = 0
    BY DEF Off, RegOf
  <2>2. [Off EXCEPT !.run = TRUE, !.tag = 1] \in RegOf
    BY <2>1 DEF RegOf
  <2>3. [Off EXCEPT !.run = TRUE, !.tag = 1].bdl = 0
    BY <2>1 DEF RegOf
  <2> QED
    BY <2>1, <2>2, <2>3
<1>6. Programmed
  BY <1>1, <1>5 DEF Programmed
<1> QED
  BY <1>3, <1>4, <1>6 DEF StreamsInv

\* One more stream is made.
LEMMA SetupStreamInv == ASSUME StreamsInv, SetupStream PROVE StreamsInv'
<1>1. /\ play_at = "setup" /\ made < num_out
      /\ UNCHANGED <<num_out, num_in, lst_outputs, play_at, node, unmuted, enabled, converter, reg>>
  BY DEF SetupStream, made
<1>2. /\ lst_streams' = <<StreamAt(made)>> \o lst_streams
      /\ memory' = memory \o <<"other", "other">>
      /\ pages' = [p \in DOMAIN pages \cup {DataPage(made), BdlPage(made)} |->
                      IF p = DataPage(made) THEN 2 * made + 1
                      ELSE IF p = BdlPage(made) THEN 2 * made + 2 ELSE pages[p]]
  BY DEF SetupStream, made, StreamAt
<1>3. /\ made \in Nat /\ num_out \in Nat /\ num_in \in Nat /\ lst_outputs \in Seq(PathOf)
      /\ lst_streams = [k \in 1 .. made |-> StreamAt(made - k)]
      /\ memory = [k \in 1 .. 2 * made |-> memory[k]]
  BY DEF StreamsInv, StreamsMade
<1>4. lst_streams' = [k \in 1 .. made + 1 |-> StreamAt(made + 1 - k)]
  <2>2. PICK S : lst_streams \in Seq(S) /\ StreamAt(made) \in S /\ Len(lst_streams) = made
    <3> DEFINE S == {StreamAt(m) : m \in Int}
    <3>1. \A k \in 1 .. made : StreamAt(made - k) \in S
      BY <1>3
    <3>2. lst_streams \in [1 .. made -> S]
      BY <1>3, <3>1
    <3>3. lst_streams \in Seq(S) /\ Len(lst_streams) = made
      BY <1>3, <3>2 DEF made
    <3>4. StreamAt(made) \in S
      BY <1>3
    <3> QED
      BY <3>3, <3>4
  <2>3. PICK x : x = StreamAt(made)
    OBVIOUS
  <2>4. lst_streams' = [k \in 1 .. made + 1 |-> IF k = 1 THEN x ELSE lst_streams[k - 1]]
    BY <1>2, <1>3, <2>2, <2>3
  <2>5. \A k \in 1 .. made + 1 : (IF k = 1 THEN x ELSE lst_streams[k - 1]) = StreamAt(made + 1 - k)
    <3> TAKE k \in 1 .. made + 1
    <3>1. CASE k = 1
      BY <1>3, <2>3, <3>1
    <3>2. CASE k # 1
      <4>1. k - 1 \in 1 .. made /\ made - (k - 1) = made + 1 - k
        BY <1>3, <3>2
      <4> QED
        BY <1>3, <3>2, <4>1
    <3> QED
      BY <3>1, <3>2
  <2> QED
    BY <2>4, <2>5
<1>5. made' = made + 1
  BY <1>3, <1>4 DEF made
<1>6. DOMAIN memory' = 1 .. 2 * (made + 1) /\ memory' = [k \in 1 .. 2 * (made + 1) |-> memory'[k]]
  <2>1. PICK S : memory \in Seq(S) /\ Len(memory) = 2 * made /\ "other" \in S
    <3> DEFINE S == {memory[k] : k \in 1 .. 2 * made} \cup {"other"}
    <3>1. memory \in [1 .. 2 * made -> S] /\ "other" \in S
      BY <1>3
    <3> HIDE DEF S
    <3>2. 2 * made \in Nat
      BY <1>3
    <3>3. memory \in Seq(S) /\ Len(memory) = 2 * made
      BY <3>1, <3>2
    <3> QED
      BY <3>1, <3>3
  <2>2. memory' \in Seq(S) /\ Len(memory') = 2 * made + 2
    BY <1>2, <1>3, <2>1
  <2>3. 2 * (made + 1) = 2 * made + 2
    BY <1>3
  <2> QED
    BY <2>2, <2>3
<1>7. /\ DOMAIN pages' = {DataPage(n) : n \in 0 .. made} \cup {BdlPage(n) : n \in 0 .. made}
      /\ \A n \in 0 .. made : pages'[DataPage(n)] = 2 * n + 1 /\ pages'[BdlPage(n)] = 2 * n + 2
  <2>1. /\ DOMAIN pages = {DataPage(n) : n \in 0 .. made - 1} \cup {BdlPage(n) : n \in 0 .. made - 1}
        /\ \A n \in 0 .. made - 1 : pages[DataPage(n)] = 2 * n + 1 /\ pages[BdlPage(n)] = 2 * n + 2
    BY DEF StreamsInv, StreamsMade
  <2>2. \A n : n \in 0 .. made <=> n \in 0 .. made - 1 \/ n = made
    BY <1>3
  <2>3. \A m, n : /\ DataPage(m) # BdlPage(n)
                  /\ DataPage(m) = DataPage(n) => m = n
                  /\ BdlPage(m) = BdlPage(n) => m = n
    BY DEF DataPage, BdlPage
  <2>4. DOMAIN pages' = DOMAIN pages \cup {DataPage(made), BdlPage(made)}
    BY <1>2
  <2>5. DOMAIN pages' = {DataPage(n) : n \in 0 .. made} \cup {BdlPage(n) : n \in 0 .. made}
    BY <2>1, <2>2, <2>4
  <2>6. ASSUME NEW n \in 0 .. made
        PROVE  pages'[DataPage(n)] = 2 * n + 1 /\ pages'[BdlPage(n)] = 2 * n + 2
    <3>1. DataPage(n) \in DOMAIN pages' /\ BdlPage(n) \in DOMAIN pages'
      BY <2>5
    <3>2. CASE n = made
      BY <1>2, <2>3, <2>4, <3>1, <3>2
    <3>3. CASE n # made
      <4>1. n \in 0 .. made - 1
        BY <2>2, <3>3
      <4>2. /\ pages'[DataPage(n)] = pages[DataPage(n)]
            /\ pages'[BdlPage(n)] = pages[BdlPage(n)]
        BY <1>2, <2>3, <2>4, <3>1, <3>3
      <4> QED
        BY <2>1, <4>1, <4>2
    <3> QED
      BY <3>2, <3>3
  <2> QED
    BY <2>5, <2>6
<1>8. made + 1 - 1 = made /\ made + 1 <= num_out /\ made + 1 \in Nat
  BY <1>1, <1>3
<1>a. PICK m \in Nat : m = made + 1
  BY <1>3
<1>b. made' = m /\ m - 1 = made /\ m <= num_out
  BY <1>3, <1>5, <1>8, <1>a
<1>c. lst_streams' = [k \in 1 .. m |-> StreamAt(m - k)]
  BY <1>3, <1>4, <1>a
<1>9. StreamsMade'
  <2>1. num_out' \in Nat /\ num_in' \in Nat /\ lst_outputs' \in Seq(PathOf)
    BY <1>1, <1>3
  <2>2. made' \in Nat /\ made' <= num_out'
    BY <1>1, <1>5, <1>8
  <2>3. lst_streams' = [k \in 1 .. made' |-> StreamAt(made' - k)]
    BY <1>b, <1>c
  <2>4. made' - 1 = made
    BY <1>b
  <2> QED
    BY <1>5, <1>6, <1>7, <2>1, <2>2, <2>3, <2>4, Zenon DEF StreamsMade
<1>10. PathSet'
  BY <1>1 DEF StreamsInv, PathSet, OnPath, Configuring
<1>11. Programmed'
  BY <1>1 DEF StreamsInv, Programmed
<1> QED
  BY <1>9, <1>10, <1>11 DEF StreamsInv

Fixed == <<num_out, num_in, lst_outputs, lst_streams, pages>>

\* Nothing else makes a stream.
LEMMA StreamsStay ==
    ASSUME StreamsMade, UNCHANGED Fixed, UNCHANGED memory
    PROVE  StreamsMade' /\ made' = made /\ route' = route
BY DEF StreamsMade, Fixed, made, route

LEMMA StartTestInv == ASSUME StreamsInv, StartTest PROVE StreamsInv'
<1>1. /\ play_at = "setup" /\ Len(lst_streams) = num_out
      /\ play_at' = IF num_out = 0 \/ lst_outputs = <<>> THEN "assertion"
                    ELSE IF Len(lst_outputs) = 1 THEN "null"
                    ELSE IF lst_outputs[2] = <<>> THEN "assertion" ELSE "amp"
      /\ UNCHANGED <<Fixed, memory, node, unmuted, enabled, converter, reg>>
  BY DEF StartTest, Fixed
<1>2. StreamsMade /\ node = 1
  BY <1>1 DEF StreamsInv, PathSet
<1>3. StreamsMade' /\ made' = made /\ route' = route
  BY <1>1, <1>2, StreamsStay
<1>4. num_out \in Nat /\ lst_outputs \in Seq(PathOf) /\ Len(lst_outputs) \in Nat
  BY <1>2 DEF StreamsMade
<1>5. play_at' \in {"amp", "assertion", "null"}
  BY <1>1
<1>6. CASE play_at' = "amp"
  <2>1. num_out # 0 /\ lst_outputs # <<>> /\ Len(lst_outputs) # 1 /\ route # <<>>
    BY <1>1, <1>6 DEF route
  <2>2. Len(lst_outputs) >= 2
    <3>1. Len(lst_outputs) # 0 /\ Len(lst_outputs) # 1
      BY <1>4, <2>1
    <3>2. \A l \in Nat : l # 0 /\ l # 1 => l >= 2
      OBVIOUS
    <3> QED
      BY <1>4, <3>1, <3>2, Zenon
  <2>6. num_out >= 1
    BY <1>4, <2>1
  <2>3. Len(route) >= 1 /\ Len(route) \in Nat
    BY <1>2, <2>1, <2>2, RouteIsPath
  <2>4. num_out' >= 1 /\ made' = num_out' /\ Len(lst_outputs') >= 2
    BY <1>1, <1>3, <2>2, <2>6 DEF made, Fixed
  <2>5. node' = 1 /\ node' \in 1 .. Len(route')
    BY <1>1, <1>2, <1>3, <2>3
  <2> QED
    BY <1>1, <1>3, <1>6, <2>4, <2>5 DEF StreamsInv, PathSet, Programmed, OnPath, Configuring, Fixed
<1>7. CASE play_at' # "amp"
  BY <1>1, <1>3, <1>5, <1>7 DEF StreamsInv, PathSet, Programmed, OnPath, Configuring, Fixed
<1> QED
  BY <1>6, <1>7

LEMMA VisitAmpInv == ASSUME StreamsInv, VisitAmp PROVE StreamsInv'
<1>1. /\ play_at = "amp" /\ play_at' = "kind"
      /\ unmuted' = IF route[node].amp THEN unmuted \cup {node} ELSE unmuted
      /\ UNCHANGED <<Fixed, memory, node, enabled, converter, reg>>
  BY DEF VisitAmp, Fixed
<1>2. StreamsMade' /\ made' = made /\ route' = route
  BY <1>1, StreamsStay DEF StreamsInv
<1>3. Programmed'
  BY <1>1 DEF StreamsInv, Programmed, Fixed
<1>4. PathSet'
  BY <1>1, <1>2 DEF StreamsInv, PathSet, OnPath, Configuring, Fixed
<1> QED
  BY <1>2, <1>3, <1>4 DEF StreamsInv

\* The last widget is the converter, so the visit goes on after a pin or a mixer.
LEMMA VisitKindInv == ASSUME StreamsInv, VisitKind PROVE StreamsInv'
<1>1. play_at = "kind" /\ UNCHANGED <<Fixed, memory, unmuted, reg>>
  BY DEF VisitKind, Fixed
<1>2. StreamsMade' /\ made' = made /\ route' = route
  BY <1>1, StreamsStay DEF StreamsInv
<1>3. /\ num_out >= 1 /\ made = num_out /\ Len(lst_outputs) >= 2 /\ node \in 1 .. Len(route)
      /\ \A k \in 1 .. node - 1 : /\ route[k].amp => k \in unmuted
                                  /\ route[k].type = "pin" => k \in enabled
      /\ route[node].amp => node \in unmuted
  BY <1>1 DEF StreamsInv, PathSet, OnPath
<1>4. Len(route) \in Nat /\ (route[node].type = "out" <=> node = Len(route))
  BY <1>3, RouteIsPath DEF StreamsInv
<1>5. tag = 1
  BY <1>3, FirstStream DEF StreamsInv
<1>6. /\ num_out' >= 1 /\ made' = num_out' /\ Len(lst_outputs') >= 2
      /\ \A k \in 1 .. node - 1 : route'[k].amp => k \in unmuted'
      /\ route'[node].amp => node \in unmuted'
  <2>1. UNCHANGED <<num_out, lst_outputs, unmuted>>
    BY <1>1 DEF Fixed
  <2> QED
    BY <1>2, <1>3, <2>1, Zenon
<1>7. play_at' \in {"amp", "tag", "assertion"} => Programmed'
  BY <1>1 DEF StreamsInv, Programmed, Fixed
<1>8. ASSUME Advance, route[node].type # "out", UNCHANGED converter,
             enabled \subseteq enabled', route[node].type = "pin" => node \in enabled'
      PROVE  StreamsInv'
  <2>1. play_at' = "amp" /\ node' = node + 1 /\ node + 1 \in 1 .. Len(route) /\ node + 1 - 1 = node
    BY <1>3, <1>4, <1>8 DEF Advance
  <2>2. \A k \in 1 .. node : /\ route[k].amp => k \in unmuted
                             /\ route[k].type = "pin" => k \in enabled'
    <3>1. \A k \in 1 .. node : k = node \/ k \in 1 .. node - 1
      BY <1>3
    <3> QED
      BY <1>3, <1>8, <3>1, Zenon
  <2>3. \A k \in 1 .. node' - 1 : /\ route'[k].amp => k \in unmuted'
                                  /\ route'[k].type = "pin" => k \in enabled'
    <3>1. PICK m \in Nat : m = node + 1
      BY <1>3
    <3>2. node' = m /\ m - 1 = node
      BY <1>3, <2>1, <3>1
    <3>3. \A k \in 1 .. node' - 1 : k \in 1 .. node
      BY <3>2, Zenon
    <3>4. unmuted' = unmuted
      BY <1>1
    <3> QED
      BY <1>2, <2>2, <3>3, <3>4, Zenon
  <2>4. node' \in 1 .. Len(route')
    BY <1>2, <2>1
  <2> QED
    BY <1>2, <1>6, <1>7, <2>1, <2>3, <2>4 DEF StreamsInv, PathSet, OnPath, Configuring
<1>9. CASE route[node].type = "pin"
  <2>1. CASE route[node].output_capable
    BY <1>8, <1>9, <2>1 DEF VisitKind
  <2>2. CASE ~route[node].output_capable
    <3>1. play_at' = "assertion"
      BY <1>9, <2>2 DEF VisitKind
    <3> QED
      BY <1>2, <1>7, <3>1 DEF StreamsInv, PathSet, OnPath, Configuring
  <2> QED
    BY <2>1, <2>2
<1>10. CASE route[node].type = "mixer"
  BY <1>8, <1>10 DEF VisitKind
<1>11. CASE route[node].type = "out"
  <2>1. play_at' = "tag" /\ converter' = 1 /\ UNCHANGED <<enabled, node>>
    BY <1>5, <1>11 DEF VisitKind
  <2>2. node' = Len(route') /\ node' \in 1 .. Len(route')
    BY <1>2, <1>3, <1>4, <1>11, <2>1
  <2>3. \A k \in 1 .. node' - 1 : /\ route'[k].amp => k \in unmuted'
                                  /\ route'[k].type = "pin" => k \in enabled'
    BY <1>1, <1>2, <1>3, <2>1
  <2> QED
    BY <1>2, <1>6, <1>7, <2>1, <2>2, <2>3 DEF StreamsInv, PathSet, OnPath, Configuring
<1> QED
  BY <1>9, <1>10, <1>11 DEF VisitKind

\* What the register of the first stream becomes, the others keep
LEMMA RegisterSet ==
    ASSUME NEW N, NEW M, NEW f \in [N -> M], NEW i \in N, NEW x \in M
    PROVE  /\ [f EXCEPT ![i] = x] \in [N -> M] /\ [f EXCEPT ![i] = x][i] = x
           /\ \A n \in N : n # i => [f EXCEPT ![i] = x][n] = f[n]
OBVIOUS

\* The first stream's register, while the sound is being set up
LEMMA Register ==
    ASSUME StreamsInv, play_at \in OnPath
    PROVE  /\ sreg = num_in /\ tag = 1 /\ stream.bdl_phys = 2
           /\ num_in \in 0 .. num_out + num_in - 1
           /\ reg \in [0 .. num_out + num_in - 1 -> RegOf] /\ reg[num_in] \in RegOf
<1>1. made >= 1 /\ StreamsMade
  BY DEF StreamsInv, PathSet
<1>2. sreg = num_in /\ tag = 1 /\ stream.bdl_phys = 2 /\ num_in \in 0 .. num_out + num_in - 1
  BY <1>1, FirstStream
<1>3. reg \in [0 .. num_out + num_in - 1 -> RegOf]
  BY DEF StreamsInv, Programmed
<1> QED
  BY <1>2, <1>3

LEMMA ConfigureInv == ASSUME StreamsInv, Configure PROVE StreamsInv'
<1>1. UNCHANGED <<Fixed, memory, node, unmuted, enabled, converter>>
  BY DEF Configure, Fixed
<1>2. play_at \in Configuring /\ play_at \in OnPath
  BY DEF Configure, Configuring, OnPath
<1>3. StreamsMade' /\ made' = made /\ route' = route
  BY <1>1, StreamsStay DEF StreamsInv
<1>4. play_at' \in Configuring /\ play_at' # "tag"
  BY DEF Configure, Configuring
<1>5. PathSet'
  BY <1>1, <1>2, <1>3, <1>4 DEF StreamsInv, PathSet, OnPath, Configuring, Fixed
<1>6. /\ sreg = num_in /\ tag = 1 /\ stream.bdl_phys = 2
      /\ num_in \in 0 .. num_out + num_in - 1
      /\ reg \in [0 .. num_out + num_in - 1 -> RegOf] /\ reg[num_in] \in RegOf
  BY <1>2, Register
<1>7. ASSUME NEW x \in RegOf, SetReg(x), x.bdl # 0 => play_at' = "fill",
             play_at' \in {"reset", "program", "fill"} => ~x.run,
             play_at' \in {"program", "fill"} => ~x.reset,
             play_at' = "fill" => x.tag = 1 /\ x.bdl = 2
      PROVE  Programmed'
  <2>1. reg' = [reg EXCEPT ![num_in] = x]
    BY <1>6, <1>7 DEF SetReg
  <2>2. /\ reg' \in [0 .. num_out + num_in - 1 -> RegOf] /\ reg'[num_in] = x
        /\ \A r \in 0 .. num_out + num_in - 1 : r # num_in => reg'[r] = reg[r]
    BY <1>6, <1>7, <2>1, RegisterSet
  <2>3. \A r \in 0 .. num_out + num_in - 1 : r # num_in => reg[r].bdl = 0
    BY <1>6 DEF StreamsInv, Programmed
  <2>4. UNCHANGED <<num_out, num_in>>
    BY <1>1 DEF Fixed
  <2> QED
    BY <1>4, <1>7, <2>2, <2>3, <2>4 DEF Programmed, Configuring
<1>8. play_at # "fill" => reg[num_in].bdl = 0
  BY <1>2, <1>6 DEF StreamsInv, Programmed, Configuring
<1>9. CASE play_at = "tag" /\ play_at' = "stop" /\ SetReg([reg[sreg] EXCEPT !.tag = tag, !.reset = TRUE])
  <2> DEFINE x == [reg[num_in] EXCEPT !.tag = 1, !.reset = TRUE]
  <2>1. x \in RegOf /\ x.bdl = 0
    BY <1>6, <1>8, <1>9 DEF RegOf
  <2>2. SetReg(x)
    BY <1>6, <1>9
  <2> QED
    BY <1>5, <1>3, <1>7, <1>9, <2>1, <2>2 DEF StreamsInv
<1>10. CASE play_at = "stop" /\ play_at' = "reset" /\ SetReg(Stopped(reg[sreg]))
  <2> DEFINE x == [reg[num_in] EXCEPT !.run = FALSE]
  <2>1. x \in RegOf /\ x.bdl = 0 /\ ~x.run
    BY <1>6, <1>8, <1>10 DEF RegOf
  <2>2. SetReg(x)
    BY <1>6, <1>10 DEF Stopped
  <2> QED
    BY <1>5, <1>3, <1>7, <1>10, <2>1, <2>2 DEF StreamsInv
<1>11. CASE play_at = "reset" /\ play_at' = "program" /\ SetReg(ResetRegister(reg[sreg]))
  <2> DEFINE x == ResetRegister(reg[num_in])
  <2>1. ~reg[num_in].run
    BY <1>11 DEF StreamsInv, Programmed
  <2>2. Off \in RegOf /\ Off.bdl = 0 /\ ~Off.reset /\ reg[num_in].run \in BOOLEAN
    BY <1>6 DEF RegOf, Off
  <2>3. x \in RegOf /\ x.bdl = 0 /\ ~x.run /\ ~x.reset
    BY <2>1, <2>2 DEF RegOf, ResetRegister
  <2>4. SetReg(x)
    BY <1>6, <1>11
  <2> QED
    BY <1>5, <1>3, <1>7, <1>11, <2>3, <2>4 DEF StreamsInv
<1>12. CASE /\ play_at = "program" /\ play_at' = "fill"
            /\ SetReg([reg[sreg] EXCEPT !.tag = tag, !.bdl = stream.bdl_phys])
  <2> DEFINE x == [reg[num_in] EXCEPT !.tag = 1, !.bdl = 2]
  <2>1. ~reg[num_in].run /\ ~reg[num_in].reset
    BY <1>12 DEF StreamsInv, Programmed
  <2>2. x \in RegOf /\ x.bdl = 2 /\ x.tag = 1 /\ ~x.run /\ ~x.reset
    BY <1>6, <2>1 DEF RegOf
  <2>3. SetReg(x)
    BY <1>6, <1>12
  <2> QED
    BY <1>5, <1>3, <1>7, <1>12, <2>2, <2>3 DEF StreamsInv
<1> QED
  BY <1>9, <1>10, <1>11, <1>12 DEF Configure

\* With one stream the address of its buffer is not mapped: the addresses were
\* advanced before they were stored.
LEMMA FillInv == ASSUME StreamsInv, Fill PROVE StreamsInv'
<1>1. play_at = "fill" /\ UNCHANGED <<Fixed, unmuted, enabled, converter>>
  BY DEF Fill, Fixed
<1>2. play_at \in OnPath
  BY <1>1 DEF OnPath, Configuring
<1>3. /\ sreg = num_in /\ tag = 1 /\ num_in \in 0 .. num_out + num_in - 1
      /\ reg \in [0 .. num_out + num_in - 1 -> RegOf] /\ reg[num_in] \in RegOf
  BY <1>2, Register
<1>4. StreamsMade /\ PathSet /\ Programmed
  BY DEF StreamsInv
<1>5. /\ node = Len(route) /\ node \in 1 .. Len(route)
      /\ reg[num_in].tag = 1 /\ reg[num_in].bdl = 2 /\ ~reg[num_in].run /\ ~reg[num_in].reset
  BY <1>1, <1>2, <1>4 DEF PathSet, Programmed
<1>6. CASE {stream.bdl_address, stream.data_address} \subseteq DOMAIN pages
  <2> DEFINE x == [reg[num_in] EXCEPT !.last = 1]
  <2>1. /\ memory' = [memory EXCEPT ![pages[stream.bdl_address]] = <<stream.data_phys>>,
                                    ![pages[stream.data_address]] = "music"]
        /\ reg' = [reg EXCEPT ![num_in] = x] /\ play_at' = "start" /\ UNCHANGED node
    BY <1>3, <1>5, <1>6 DEF Fill, SetReg, Advance
  <2>2. x \in RegOf /\ x.tag = 1 /\ x.bdl = 2
    BY <1>3, <1>5 DEF RegOf
  <2> HIDE DEF x
  <2>3. /\ reg' \in [0 .. num_out + num_in - 1 -> RegOf] /\ reg'[num_in] = x
        /\ \A r \in 0 .. num_out + num_in - 1 : r # num_in => reg'[r] = reg[r]
    BY <1>3, <2>1, <2>2, RegisterSet
  <2>4. \A r \in 0 .. num_out + num_in - 1 : r # num_in => reg[r].bdl = 0
    BY <1>3, <1>4 DEF Programmed
  <2>5. UNCHANGED <<num_out, num_in, lst_outputs, lst_streams, pages>>
    BY <1>1 DEF Fixed
  <2>6. Programmed'
    BY <2>1, <2>2, <2>3, <2>4, <2>5 DEF Programmed
  <2>7. made' = made /\ route' = route
    BY <2>5 DEF made, route
  <2>8. DOMAIN memory' = DOMAIN memory /\ memory' = [k \in DOMAIN memory |-> memory'[k]]
    BY <2>1
  <2>9. StreamsMade'
    BY <1>4, <2>5, <2>7, <2>8 DEF StreamsMade
  <2>10. PathSet'
    BY <1>1, <1>2, <1>4, <1>5, <2>1, <2>5, <2>7 DEF PathSet, OnPath, Configuring
  <2> QED
    BY <2>6, <2>9, <2>10 DEF StreamsInv
<1>7. CASE ~({stream.bdl_address, stream.data_address} \subseteq DOMAIN pages)
  <2>1. play_at' = "page fault" /\ UNCHANGED <<memory, reg, node>>
    BY <1>7 DEF Fill
  <2>2. StreamsMade'
    BY <1>1, <1>4, <2>1, StreamsStay
  <2>3. PathSet'
    BY <2>1 DEF PathSet, OnPath, Configuring
  <2>4. Programmed'
    BY <1>1, <1>4, <2>1 DEF Programmed, Fixed
  <2> QED
    BY <2>2, <2>3, <2>4 DEF StreamsInv
<1> QED
  BY <1>6, <1>7

LEMMA StartInv == ASSUME StreamsInv, Start PROVE StreamsInv'
<1>1. /\ play_at = "start" /\ play_at' = "playing"
      /\ UNCHANGED <<Fixed, memory, node, unmuted, enabled, converter>>
  BY DEF Start, Fixed
<1>2. play_at \in OnPath
  BY <1>1 DEF OnPath
<1>3. /\ sreg = num_in /\ num_in \in 0 .. num_out + num_in - 1
      /\ reg \in [0 .. num_out + num_in - 1 -> RegOf] /\ reg[num_in] \in RegOf
  BY <1>2, Register
<1>4. StreamsMade' /\ made' = made /\ route' = route
  BY <1>1, StreamsStay DEF StreamsInv
<1>5. PathSet'
  BY <1>1, <1>2, <1>4 DEF StreamsInv, PathSet, OnPath, Configuring, Fixed
<1> DEFINE x == [reg[num_in] EXCEPT !.run = TRUE]
<1>6. reg[num_in].tag = 1 /\ reg[num_in].bdl = 2
  BY <1>1 DEF StreamsInv, Programmed
<1>7. reg' = [reg EXCEPT ![num_in] = x] /\ x \in RegOf /\ x.run /\ x.tag = 1 /\ x.bdl = 2
  BY <1>3, <1>6 DEF Start, SetReg, RegOf
<1> HIDE DEF x
<1>8. /\ reg' \in [0 .. num_out + num_in - 1 -> RegOf] /\ reg'[num_in] = x
      /\ \A r \in 0 .. num_out + num_in - 1 : r # num_in => reg'[r] = reg[r]
  BY <1>3, <1>7, RegisterSet
<1>9. \A r \in 0 .. num_out + num_in - 1 : r # num_in => reg[r].bdl = 0
  BY <1>3 DEF StreamsInv, Programmed
<1>10. UNCHANGED <<num_out, num_in>>
  BY <1>1 DEF Fixed
<1>11. Programmed'
  BY <1>1, <1>7, <1>8, <1>9, <1>10 DEF Programmed
<1> QED
  BY <1>4, <1>5, <1>11 DEF StreamsInv

LEMMA StreamsNextInv == StreamsInv /\ [StreamsNext]_streams_vars => StreamsInv'
<1> SUFFICES ASSUME StreamsInv, [StreamsNext]_streams_vars PROVE StreamsInv'
  OBVIOUS
<1>1. CASE StreamsNext
  BY <1>1, SetupStreamInv, StartTestInv, VisitAmpInv, VisitKindInv, ConfigureInv, FillInv, StartInv
     DEF StreamsNext
<1>2. CASE UNCHANGED streams_vars
  BY <1>2
  DEF streams_vars, StreamsInv, StreamsMade, made, PathSet, OnPath, Configuring, route, Programmed
<1> QED
  BY <1>1, <1>2

\* However many streams and paths a controller has, the streams keep their frames,
\* the path is set widget by widget, and only the register of the first stream gets
\* a buffer: hda_setup_streams, hda_test_sound and configure_stream.
THEOREM StreamsInvariance == StreamsSpec => []StreamsInv
<1> QED
  BY StreamsInitInv, StreamsNextInv, PTL DEF StreamsSpec

LEMMA Halves == \A f \in Int : f = 2 * ((f - 1) \div 2) + 1 \/ f = 2 * ((f - 1) \div 2) + 2
OBVIOUS

\* Each frame belongs to one page.
LEMMA FramesOnce == ASSUME StreamsMade PROVE IsInjective(pages) /\ Range(pages) = 1 .. Len(memory)
<1>1. /\ made \in Nat
      /\ DOMAIN pages = {DataPage(n) : n \in 0 .. made - 1} \cup {BdlPage(n) : n \in 0 .. made - 1}
      /\ \A n \in 0 .. made - 1 : pages[DataPage(n)] = 2 * n + 1 /\ pages[BdlPage(n)] = 2 * n + 2
      /\ DOMAIN memory = 1 .. 2 * made /\ memory = [k \in 1 .. 2 * made |-> memory[k]]
  BY DEF StreamsMade
<1>2. Len(memory) = 2 * made
  BY <1>1
<1>3. ASSUME NEW a \in DOMAIN pages, NEW b \in DOMAIN pages, pages[a] = pages[b] PROVE a = b
  <2>1. \A p \in DOMAIN pages : \E n \in 0 .. made - 1 :
            \/ p = DataPage(n) /\ pages[p] = 2 * n + 1
            \/ p = BdlPage(n) /\ pages[p] = 2 * n + 2
    BY <1>1
  <2>2. PICK m \in 0 .. made - 1 :
            \/ a = DataPage(m) /\ pages[a] = 2 * m + 1
            \/ a = BdlPage(m) /\ pages[a] = 2 * m + 2
    BY <2>1
  <2>3. PICK n \in 0 .. made - 1 :
            \/ b = DataPage(n) /\ pages[b] = 2 * n + 1
            \/ b = BdlPage(n) /\ pages[b] = 2 * n + 2
    BY <2>1
  <2> m \in Int /\ n \in Int
    BY <1>1
  <2>4. 2 * m + 1 # 2 * n + 2 /\ 2 * m + 2 # 2 * n + 1
    OBVIOUS
  <2>5. (2 * m + 1 = 2 * n + 1 \/ 2 * m + 2 = 2 * n + 2) => m = n
    OBVIOUS
  <2> QED
    BY <1>3, <2>2, <2>3, <2>4, <2>5, Zenon
<1>4. ASSUME NEW p \in DOMAIN pages PROVE pages[p] \in 1 .. 2 * made
  <2>1. PICK n \in 0 .. made - 1 : pages[p] = 2 * n + 1 \/ pages[p] = 2 * n + 2
    BY <1>1
  <2> QED
    BY <1>1, <2>1
<1>5. ASSUME NEW f \in 1 .. 2 * made PROVE \E p \in DOMAIN pages : pages[p] = f
  <2>1. \E n \in 0 .. made - 1 : f = 2 * n + 1 \/ f = 2 * n + 2
    <3>1. (f - 1) \div 2 \in 0 .. made - 1
      BY <1>1
    <3>2. f = 2 * ((f - 1) \div 2) + 1 \/ f = 2 * ((f - 1) \div 2) + 2
      BY Halves
    <3> QED
      BY <3>1, <3>2
  <2>2. PICK n \in 0 .. made - 1 : f = 2 * n + 1 \/ f = 2 * n + 2
    BY <2>1
  <2>3. DataPage(n) \in DOMAIN pages /\ BdlPage(n) \in DOMAIN pages
    BY <1>1
  <2> QED
    BY <1>1, <2>2, <2>3, Zenon
<1>6. Range(pages) = 1 .. 2 * made
  BY <1>4, <1>5, Zenon DEF Range
<1> QED
  BY <1>2, <1>3, <1>6 DEF IsInjective

\* When the sound plays the path is open from the converter to the pin, and the
\* converter listens to the stream that runs: hda_test_sound and configure_stream,
\* for every controller and every list of paths.
THEOREM RouteIsOpen == StreamsSpec => []RouteOpen
<1>1. StreamsInv => RouteOpen
  <2> SUFFICES ASSUME StreamsInv PROVE RouteOpen
    OBVIOUS
  <2>1. StreamsMade /\ PathSet /\ Programmed
    BY DEF StreamsInv
  <2>2. IsInjective(pages) /\ Range(pages) = 1 .. Len(memory)
    BY <2>1, FramesOnce
  <2>3. \A k \in 1 .. Len(lst_streams) : lst_streams[k].number = Len(lst_streams) - k
    <3>1. made = Len(lst_streams) /\ lst_streams = [k \in 1 .. made |-> StreamAt(made - k)]
      BY <2>1 DEF StreamsMade, made
    <3>2. \A k \in 1 .. made : lst_streams[k] = StreamAt(made - k)
      BY <3>1
    <3>3. \A n : StreamAt(n).number = n
      BY DEF StreamAt
    <3> QED
      BY <3>1, <3>2, <3>3, Zenon
  <2>4. DOMAIN reg = 0 .. num_out + num_in - 1
    BY <2>1 DEF Programmed
  <2>5. play_at \in {"tag", "stop", "reset", "program", "fill"} => sreg >= num_in
    <3> SUFFICES ASSUME play_at \in {"tag", "stop", "reset", "program", "fill"} PROVE sreg >= num_in
      OBVIOUS
    <3>1. sreg = num_in /\ num_in \in Nat
      BY <2>1, Register DEF OnPath, Configuring, StreamsMade
    <3> QED
      BY <3>1
  <2>6. StreamsTypeOK
    BY <2>1, <2>2, <2>3, <2>4, <2>5 DEF StreamsTypeOK, PathSet, OnPath, Configuring
  <2>7. ASSUME play_at = "playing"
        PROVE  /\ \A k \in 1 .. Len(route) : /\ route[k].amp => k \in unmuted
                                             /\ route[k].type = "pin" => k \in enabled
               /\ converter # 0
               /\ \E r \in num_in .. num_in + num_out - 1 : reg[r].run /\ reg[r].tag = converter
    <3>1. /\ num_out >= 1 /\ Len(lst_outputs) >= 2 /\ node = Len(route) /\ converter = 1
          /\ \A k \in 1 .. node - 1 : /\ route[k].amp => k \in unmuted
                                      /\ route[k].type = "pin" => k \in enabled
          /\ route[node].amp => node \in unmuted
      BY <2>1, <2>7 DEF PathSet, OnPath
    <3>2. Len(route) \in Nat /\ \A k \in 1 .. Len(route) : route[k].type = "out" <=> k = Len(route)
      BY <2>1, <3>1, RouteIsPath
    <3>3. \A k \in 1 .. Len(route) : k = Len(route) \/ k \in 1 .. Len(route) - 1
      BY <3>2
    <3>4. \A k \in 1 .. Len(route) : /\ route[k].amp => k \in unmuted
                                     /\ route[k].type = "pin" => k \in enabled
      <4> TAKE k \in 1 .. Len(route)
      <4>1. CASE k = Len(route)
        <5>1. route[k].type = "out"
          BY <3>2, <4>1
        <5> QED
          BY <3>1, <4>1, <5>1
      <4>2. CASE k \in 1 .. Len(route) - 1
        BY <3>1, <4>2, Zenon
      <4> QED
        BY <3>3, <4>1, <4>2
    <3>5. num_in \in num_in .. num_in + num_out - 1
      BY <2>1, <3>1 DEF StreamsMade
    <3>6. reg[num_in].run /\ reg[num_in].tag = 1
      BY <2>1, <2>7 DEF Programmed
    <3> QED
      BY <3>1, <3>4, <3>5, <3>6
  <2> QED
    BY <2>6, <2>7, Zenon DEF RouteOpen
<1> QED
  BY <1>1, StreamsInvariance, PTL

\* A stream gets its buffer while it is stopped and out of reset, and it keeps the
\* buffer until it runs: configure_stream and stream_enable.
THEOREM ProgrammedWhileStopped == StreamsSpec => ProgrammedStopped
<1> DEFINE Step ==
      \A r \in DOMAIN reg :
        /\ reg'[r].bdl # reg[r].bdl => ~reg[r].run /\ ~reg[r].reset
        /\ play_at' = "playing" /\ r = sreg => reg[r].bdl # 0
<1>1. StreamsInv /\ [StreamsNext]_streams_vars => [Step]_streams_vars
  <2> SUFFICES ASSUME StreamsInv, StreamsNext PROVE Step
    BY Zenon
  <2>1. Programmed
    BY DEF StreamsInv
  <2>2. CASE Configure
    <3>1. play_at \in OnPath /\ play_at' # "playing"
      BY <2>2 DEF Configure, OnPath, Configuring
    <3>2. /\ sreg = num_in /\ num_in \in 0 .. num_out + num_in - 1
          /\ reg \in [0 .. num_out + num_in - 1 -> RegOf] /\ reg[num_in] \in RegOf
      BY <3>1, Register
    <3>3. \A x : SetReg(x) => \A r \in DOMAIN reg : r # num_in => reg'[r] = reg[r]
      BY <3>2 DEF SetReg
    <3>4. \A r \in DOMAIN reg : r # num_in => reg'[r] = reg[r]
      BY <2>2, <3>3, Zenon DEF Configure
    <3>5. CASE play_at = "program"
      <4>1. ~reg[num_in].run /\ ~reg[num_in].reset
        BY <2>1, <3>5 DEF Programmed
      <4> QED
        BY <3>1, <3>4, <4>1
    <3>6. CASE play_at # "program"
      <4>1. \/ SetReg([reg[sreg] EXCEPT !.tag = tag, !.reset = TRUE])
            \/ SetReg(Stopped(reg[sreg]))
            \/ play_at = "reset" /\ SetReg(ResetRegister(reg[sreg]))
        BY <2>2, <3>6 DEF Configure
      <4>2. reg[num_in].bdl = 0
        BY <2>1, <2>2, <3>2, <3>6 DEF Configure, Programmed
      <4>3. ASSUME NEW x, SetReg(x), x.bdl = 0 PROVE reg'[num_in].bdl = 0
        BY <3>2, <4>3 DEF SetReg
      <4>4. [reg[num_in] EXCEPT !.tag = tag, !.reset = TRUE].bdl = 0
        BY <3>2, <4>2 DEF RegOf
      <4>5. Stopped(reg[num_in]).bdl = 0
        BY <3>2, <4>2 DEF RegOf, Stopped
      <4>6. ResetRegister(reg[num_in]).bdl = 0
        BY DEF ResetRegister, Off
      <4>7. reg'[num_in].bdl = 0
        BY <3>2, <4>1, <4>3, <4>4, <4>5, <4>6, Zenon
      <4> QED
        BY <3>1, <3>4, <4>2, <4>7
    <3> QED
      BY <3>5, <3>6
  <2>3. CASE Fill
    <3>1. play_at = "fill" /\ play_at \in OnPath /\ play_at' # "playing"
      BY <2>3 DEF Fill, OnPath, Configuring, Advance
    <3>2. /\ sreg = num_in /\ num_in \in 0 .. num_out + num_in - 1
          /\ reg \in [0 .. num_out + num_in - 1 -> RegOf] /\ reg[num_in] \in RegOf
      BY <3>1, Register
    <3>3. reg' = reg \/ reg' = [reg EXCEPT ![num_in] = [reg[num_in] EXCEPT !.last = 1]]
      BY <2>3, <3>2 DEF Fill, SetReg
    <3>4. [reg[num_in] EXCEPT !.last = 1].bdl = reg[num_in].bdl
      BY <3>2 DEF RegOf
    <3>5. \A r \in DOMAIN reg : reg'[r].bdl = reg[r].bdl
      BY <3>2, <3>3, <3>4
    <3> QED
      BY <3>1, <3>5
  <2>4. CASE Start
    <3>1. play_at = "start" /\ play_at \in OnPath
      BY <2>4 DEF Start, OnPath
    <3>2. /\ sreg = num_in /\ num_in \in 0 .. num_out + num_in - 1
          /\ reg \in [0 .. num_out + num_in - 1 -> RegOf] /\ reg[num_in] \in RegOf
      BY <3>1, Register
    <3>3. reg' = [reg EXCEPT ![num_in] = [reg[num_in] EXCEPT !.run = TRUE]]
      BY <2>4, <3>2 DEF Start, SetReg
    <3>4. [reg[num_in] EXCEPT !.run = TRUE].bdl = reg[num_in].bdl
      BY <3>2 DEF RegOf
    <3>5. \A r \in DOMAIN reg : reg'[r].bdl = reg[r].bdl
      BY <3>2, <3>3, <3>4
    <3>6. reg[num_in].bdl = 2
      BY <2>1, <3>1 DEF Programmed
    <3> QED
      BY <3>2, <3>5, <3>6
  <2>5. CASE SetupStream \/ StartTest \/ VisitAmp \/ VisitKind
    <3>1. reg' = reg
      BY <2>5 DEF SetupStream, StartTest, VisitAmp, VisitKind
    <3>2. play_at' # "playing"
      <4>1. CASE SetupStream \/ VisitAmp
        BY <4>1 DEF SetupStream, VisitAmp
      <4>2. CASE StartTest
        BY <4>2 DEF StartTest
      <4>3. CASE VisitKind
        BY <4>3 DEF VisitKind, Advance
      <4> QED
        BY <2>5, <4>1, <4>2, <4>3
    <3> QED
      BY <3>1, <3>2
  <2> QED
    BY <2>2, <2>3, <2>4, <2>5 DEF StreamsNext
<1>2. StreamsSpec => [][Step]_streams_vars
  BY StreamsInvariance, <1>1, PTL DEF StreamsSpec
<1> QED
  BY <1>2 DEF ProgrammedStopped

-----------------------------------------------------------------------------
(* The scan of the bus: numbers and their remainders *)

LEMMA Multiple ==
    ASSUME NEW s \in Nat \ {0}, NEW v \in Nat
    PROVE  v % s \in 0 .. s - 1 /\ \E q \in Nat : v = q * s + (v % s)
<1>1. v % s \in 0 .. s - 1
  BY SMT
<1>2. v \div s \in Nat
  BY SMT
<1>3. v = (v \div s) * s + (v % s)
  BY SMT
<1> QED
  BY <1>1, <1>2, <1>3, Zenon

LEMMA Remainder ==
    ASSUME NEW s \in Nat \ {0}, NEW q \in Nat, NEW f \in 0 .. s - 1
    PROVE  (q * s + f) % s = f
<1> DEFINE v == q * s + f
<1>0. q * s \in Nat /\ v \in Nat
  BY SMT
<1>1. PICK p \in Nat : v = p * s + (v % s)
  BY <1>0, Multiple
<1>2. v % s \in 0 .. s - 1
  BY <1>0, Multiple
<1>3. ~(p < q)
  <2>1. SUFFICES ASSUME p < q PROVE FALSE
    OBVIOUS
  <2>2. (q - p) * s >= s
    BY <2>1, SMT
  <2>3. q * s = p * s + (q - p) * s
    BY SMT
  <2> QED
    BY <1>0, <1>1, <1>2, <2>2, <2>3, SMT
<1>4. ~(q < p)
  <2>1. SUFFICES ASSUME q < p PROVE FALSE
    OBVIOUS
  <2>2. (p - q) * s >= s
    BY <2>1, SMT
  <2>3. p * s = q * s + (p - q) * s
    BY SMT
  <2> QED
    BY <1>0, <1>1, <1>2, <2>2, <2>3, SMT
<1>5. p = q
  BY <1>3, <1>4
<1> QED
  BY <1>0, <1>1, <1>2, <1>5, SMT

-----------------------------------------------------------------------------
(* What a register keeps *)

\* What is kept of a value is a multiple of the size with the flags.
LEMMA KeptMultiple ==
    ASSUME NEW b, Decodes(b), b.kind # "none", NEW v \in Nat
    PROVE  \E q \in Nat : Kept(b, v) = q * b.size + b.flags /\ q * b.size <= v
<1>1. b.size \in Nat \ {0} /\ b.flags \in Nat
  BY DEF Decodes
<1>2. PICK q \in Nat : v = q * b.size + (v % b.size)
  BY <1>1, Multiple
<1>3. v % b.size \in 0 .. b.size - 1
  BY <1>1, Multiple
<1>4. q * b.size \in Nat
  BY <1>1, SMT
<1>5. Kept(b, v) = q * b.size + b.flags /\ q * b.size <= v
  BY <1>1, <1>2, <1>3, <1>4, SMT DEF Kept
<1> QED
  BY <1>5

\* A multiple of a divisor that is below a number leaves room for the divisor.
LEMMA RoomAbove ==
    ASSUME NEW s \in Nat \ {0}, NEW n \in Nat, n % s = 0, NEW q \in Nat, q * s < n
    PROVE  q * s + s <= n
<1>1. PICK p \in Nat : n = p * s + (n % s)
  BY Multiple
<1>2. n = p * s /\ p * s \in Nat /\ q * s \in Nat
  BY <1>1, SMT
<1>3. q < p
  <2>1. SUFFICES ASSUME p <= q PROVE FALSE
    OBVIOUS
  <2>2. (q - p) * s >= 0
    BY <2>1, SMT
  <2>3. q * s = p * s + (q - p) * s
    BY SMT
  <2> QED
    BY <1>2, <2>2, <2>3, SMT
<1>4. (p - q) * s >= s
  BY <1>3, SMT
<1>5. p * s = q * s + (p - q) * s
  BY SMT
<1> QED
  BY <1>2, <1>4, <1>5, SMT

LEMMA KeptValue ==
    ASSUME NEW b, Decodes(b), NEW v \in 0 .. VALUES - 1
    PROVE  Kept(b, v) \in 0 .. VALUES - 1
<1>0. VALUES \in Nat \ {0}
  BY PciAssumption
<1>1. CASE b.kind = "none"
  BY <1>0, <1>1, SMT DEF Kept
<1>2. CASE b.kind # "none"
  <2>1. /\ b.size \in Nat \ {0} /\ b.flags \in 0 .. b.size - 1 /\ VALUES % b.size = 0
    BY <1>2 DEF Decodes
  <2>2. PICK q \in Nat : Kept(b, v) = q * b.size + b.flags /\ q * b.size <= v
    BY <1>0, <1>2, KeptMultiple
  <2>3. q * b.size \in Nat /\ q * b.size < VALUES
    BY <1>0, <2>1, <2>2, SMT
  <2>4. q * b.size + b.size <= VALUES
    BY <1>0, <2>1, <2>3, RoomAbove
  <2> QED
    BY <1>0, <2>1, <2>2, <2>3, <2>4, SMT
<1> QED
  BY <1>1, <1>2

\* Written back, what was read is what was there.
LEMMA KeptTwice ==
    ASSUME NEW b, Decodes(b), NEW v \in Nat
    PROVE  Kept(b, Kept(b, v)) = Kept(b, v)
<1>1. CASE b.kind = "none"
  BY <1>1 DEF Kept
<1>2. CASE b.kind # "none"
  <2>1. b.size \in Nat \ {0} /\ b.flags \in 0 .. b.size - 1
    BY <1>2 DEF Decodes
  <2>2. PICK q \in Nat : Kept(b, v) = q * b.size + b.flags
    BY <1>2, KeptMultiple
  <2>3. (q * b.size + b.flags) % b.size = b.flags
    BY <2>1, Remainder
  <2>4. q * b.size \in Nat
    BY <2>1, SMT
  <2>5. Kept(b, q * b.size + b.flags) = q * b.size + b.flags
    BY <1>2, <2>1, <2>3, <2>4, SMT DEF Kept
  <2> QED
    BY <2>2, <2>5
<1> QED
  BY <1>1, <1>2

LEMMA NegatedValue == ASSUME NEW v \in Nat PROVE Negated(v) \in 0 .. VALUES - 1
<1>1. VALUES \in Nat \ {0}
  BY PciAssumption
<1>2. VALUES - (v - (v % 16)) \in Int
  BY <1>1, SMT
<1>3. \A n \in Int : n % VALUES \in 0 .. VALUES - 1
  BY <1>1, SMT
<1> QED
  BY <1>2, <1>3 DEF Negated

\* The sizing of a memory register gives its size, of one that is not there zero.
SizedRight(b, size) ==
    (b.kind = "memory" => size = b.size) /\ (b.kind = "none" => size = 0)

LEMMA SizedIsRight ==
    ASSUME NEW b, Decodes(b)
    PROVE  SizedRight(b, Negated(Kept(b, VALUES - 1)))
<1>0. VALUES \in Nat \ {0} /\ VALUES % 16 = 0
  BY PciAssumption
<1>1. CASE b.kind = "none"
  <2>1. Kept(b, VALUES - 1) = 0
    BY <1>1 DEF Kept
  <2>2. Negated(0) = VALUES % VALUES
    BY <1>0, SMT DEF Negated
  <2>3. (1 * VALUES + 0) % VALUES = 0
    BY <1>0, Remainder
  <2>4. VALUES % VALUES = 0
    BY <1>0, <2>3, SMT
  <2> QED
    BY <1>1, <2>1, <2>2, <2>4 DEF SizedRight
<1>2. CASE b.kind = "memory"
  <2>1. /\ b.size \in Nat \ {0} /\ b.flags \in 0 .. b.size - 1 /\ VALUES % b.size = 0
        /\ b.size % 16 = 0 /\ b.size < VALUES /\ b.flags < 16
    BY <1>2 DEF Decodes
  <2>2. (VALUES - 1) % b.size = b.size - 1
    <3>1. PICK p \in Nat : VALUES = p * b.size + (VALUES % b.size)
      BY <1>0, <2>1, Multiple
    <3>2. VALUES = p * b.size
      BY <2>1, <3>1, SMT
    <3>3. p # 0
      BY <1>0, <2>1, <3>2, SMT
    <3>4. p - 1 \in Nat /\ VALUES - 1 = (p - 1) * b.size + (b.size - 1)
      BY <2>1, <3>2, <3>3, SMT
    <3>5. ((p - 1) * b.size + (b.size - 1)) % b.size = b.size - 1
      <4>1. b.size - 1 \in 0 .. b.size - 1
        BY <2>1, SMT
      <4> QED
        BY <2>1, <3>4, <4>1, Remainder
    <3> QED
      BY <3>4, <3>5
  <2>3. Kept(b, VALUES - 1) = (VALUES - b.size) + b.flags
    BY <1>0, <1>2, <2>1, <2>2, SMT DEF Kept
  <2>4. ((VALUES - b.size) + b.flags) % 16 = b.flags
    BY <1>0, <2>1, SMT
  <2>5. Negated((VALUES - b.size) + b.flags) = b.size % VALUES
    <3>1. VALUES - (((VALUES - b.size) + b.flags) - b.flags) = b.size
      BY <1>0, <2>1, SMT
    <3>2. Negated((VALUES - b.size) + b.flags)
            = (VALUES - (((VALUES - b.size) + b.flags) - (((VALUES - b.size) + b.flags) % 16))) % VALUES
      BY DEF Negated
    <3> QED
      BY <2>4, <3>1, <3>2, Zenon
  <2>6. b.size % VALUES = b.size
    BY <1>0, <2>1, SMT
  <2> QED
    BY <1>2, <2>3, <2>5, <2>6 DEF SizedRight
<1>3. CASE b.kind \notin {"none", "memory"}
  BY <1>3 DEF SizedRight
<1> QED
  BY <1>1, <1>2, <1>3

-----------------------------------------------------------------------------
(* The inductive invariant *)

\* The entry of a function, with the sizes found so far
EntryOf(s, f, sizes) ==
    LET d == FunctionAt(Answering(s, f))
    IN  [slot |-> s, function |-> f,
         vendor |-> FunctionAt(Answering(s, 0)).vendor, device |-> d.device,
         class |-> d.class, header |-> d.header, mf |-> Multi(s),
         bar_address |-> AtRest(Answering(s, f)), bar_sizes |-> sizes]

BarSizes == [Bars -> 0 .. VALUES - 1]
BusEntries == {EntryOf(s, f, z) : s \in PciSlots, f \in PciFunctions, z \in BarSizes}
BarAt(s, f, b) == FunctionAt(Answering(s, f)).bars[b]

RegistersInv == bar_registers \in [Places -> BarSizes] /\ BarsRestored

\* While a function is sized, it is the one at which the scan is.
Busy == step \in {"orig", "ones", "size", "restore"}
SizingInv ==
    Busy =>
        /\ Present(slot, func) /\ config.header = 0
        /\ config = EntryOf(slot, func, config.bar_sizes) /\ config.bar_sizes \in BarSizes
        /\ \A b \in 1 .. bar - 1 : SizedRight(BarAt(slot, func, b), config.bar_sizes[b])
        /\ step = "restore" => SizedRight(BarAt(slot, func, bar), config.bar_sizes[bar])
        /\ step = "size" =>
               bar_registers[ConfigAt][bar] = Kept(BarAt(slot, func, bar), VALUES - 1)
        /\ step # "orig" => orig = AtRest(ConfigAt)[bar]

\* The list has the functions that are there of those the scan is past, each once.
Right(c) ==
    /\ Present(c.slot, c.function) /\ c.header \in 0 .. 2
    /\ c.header = 0 => \A b \in Bars : SizedRight(BarAt(c.slot, c.function, b), c.bar_sizes[b])
IsAt(c, s, f) == c.slot = s /\ c.function = f

ListInv ==
    /\ lst_pci_devices \in Seq(BusEntries)
    /\ \A k \in DOMAIN lst_pci_devices :
           LET c == lst_pci_devices[k] IN Passed(c.slot, c.function) /\ Right(c)
    /\ \A j, k \in DOMAIN lst_pci_devices :
           IsAt(lst_pci_devices[j], lst_pci_devices[k].slot, lst_pci_devices[k].function) => j = k
    /\ \A s \in PciSlots, f \in PciFunctions : Passed(s, f) /\ Present(s, f) =>
           \E k \in DOMAIN lst_pci_devices : IsAt(lst_pci_devices[k], s, f)
    /\ Len(lst_pci_devices) <= IF Scanned THEN NumSlots * NumFunctions
                               ELSE slot * NumFunctions + func

HdaInv ==
    /\ step \in {"found", "assert"} => hda_index # 0 /\ hda = lst_pci_devices[hda_index]
    /\ step \notin {"found", "assert"} => hda = <<>>
    /\ step = "panic" => hda_index = 0

ScanTypes ==
    /\ pci_machine \in PciMachines
    /\ slot \in PciSlots /\ func \in PciFunctions /\ bar \in Bars
    /\ step \in {"probe", "orig", "ones", "size", "restore", "search", "found", "assert", "panic",
                "bad header", "no memory"}

PciIInv == ScanTypes /\ RegistersInv /\ SizingInv /\ ListInv /\ HdaInv /\ StopsRight

-----------------------------------------------------------------------------
(* The machine *)

LEMMA Numbers ==
    /\ NumSlots \in Nat \ {0} /\ NumFunctions \in Nat \ {0} /\ NumBars \in Nat \ {0}
    /\ VALUES \in Nat \ {0}
    /\ 0 \in PciSlots /\ 0 \in PciFunctions /\ 1 \in Bars
BY PciAssumption, SMT DEF PciSlots, PciFunctions, Bars

\* Something answers where a function is present, and its registers decode.
LEMMA PresentThere ==
    ASSUME pci_machine \in PciMachines,
           NEW s \in PciSlots, NEW f \in PciFunctions, Present(s, f)
    PROVE  /\ Answering(s, f) \in Places /\ FunctionAt(Answering(s, f)) # NoFunction
           /\ \A b \in Bars : Decodes(BarAt(s, f, b))
<1>1. Answering(s, f) \in Places
  BY Numbers DEF Answering, Places
<1>2. FunctionAt(Answering(s, f)) # NoFunction
  BY DEF Present, NoFunction
<1>3. Answering(s, f)[1] \in PciSlots /\ Answering(s, f)[2] \in PciFunctions
  BY <1>1 DEF Places
<1>4. \A b \in Bars : Decodes(BarAt(s, f, b))
  BY <1>2, <1>3, PciAssumption DEF FunctionAt, BarAt
<1> QED
  BY <1>1, <1>2, <1>4

\* A function that is there is present and answers for itself.
LEMMA TherePresent ==
    ASSUME pci_machine \in PciMachines,
           NEW s \in PciSlots, NEW f \in PciFunctions, FunctionAt(<<s, f>>) # NoFunction
    PROVE  Present(s, f) /\ Answering(s, f) = <<s, f>>
<1>1. Answering(s, f) = <<s, f>>
  BY PciAssumption DEF FunctionAt, Answering
<1>2. Answering(s, 0) = <<s, 0>>
  BY DEF Answering
<1>3. FunctionAt(<<s, 0>>) # NoFunction
  BY PciAssumption DEF FunctionAt
<1>4. FunctionAt(<<s, 0>>).vendor # "FFFF"
  BY <1>3, Numbers, PciAssumption DEF FunctionAt
<1>5. FunctionAt(<<s, f>>).device # "FFFF"
  BY PciAssumption DEF FunctionAt
<1> QED
  BY <1>1, <1>2, <1>4, <1>5 DEF Present

LEMMA AtRestValues ==
    ASSUME pci_machine \in PciMachines, NEW p \in Places
    PROVE  AtRest(p) \in BarSizes
<1>1. ASSUME NEW b \in Bars, FunctionAt(p) # NoFunction
      PROVE  Kept(FunctionAt(p).bars[b], FunctionAt(p).bars[b].base) \in 0 .. VALUES - 1
  <2>1. Decodes(FunctionAt(p).bars[b])
    BY <1>1, PciAssumption DEF FunctionAt, Places
  <2>2. CASE FunctionAt(p).bars[b].kind = "none"
    BY <2>2, Numbers DEF Kept
  <2>3. CASE FunctionAt(p).bars[b].kind # "none"
    BY <2>1, <2>3, KeptValue DEF Decodes
  <2> QED
    BY <2>2, <2>3
<1> QED
  BY <1>1, Numbers, SMT DEF AtRest, BarSizes

\* Writing back what is there at rest leaves it.
LEMMA AtRestStays ==
    ASSUME pci_machine \in PciMachines,
           NEW s \in PciSlots, NEW f \in PciFunctions, Present(s, f), NEW b \in Bars
    PROVE  Kept(BarAt(s, f, b), AtRest(Answering(s, f))[b]) = AtRest(Answering(s, f))[b]
<1>1. FunctionAt(Answering(s, f)) # NoFunction /\ Decodes(BarAt(s, f, b))
  BY PresentThere
<1>2. AtRest(Answering(s, f))[b] = Kept(BarAt(s, f, b), BarAt(s, f, b).base)
  BY <1>1 DEF AtRest, BarAt
<1>3. CASE BarAt(s, f, b).kind = "none"
  BY <1>2, <1>3 DEF Kept
<1>4. CASE BarAt(s, f, b).kind # "none"
  <2>1. BarAt(s, f, b).base \in Nat
    BY <1>1, <1>4, Numbers, SMT DEF Decodes
  <2> QED
    BY <1>1, <1>2, <2>1, KeptTwice
<1> QED
  BY <1>3, <1>4

\* What is said of the machine stays.
LEMMA MachineStays ==
    ASSUME pci_machine' = pci_machine
    PROVE  /\ \A s, f : Answering(s, f)' = Answering(s, f) /\ (Present(s, f)' <=> Present(s, f))
           /\ \A p : FunctionAt(p)' = FunctionAt(p) /\ AtRest(p)' = AtRest(p)
           /\ \A s, f, b : BarAt(s, f, b)' = BarAt(s, f, b)
           /\ \A s, f, z : EntryOf(s, f, z)' = EntryOf(s, f, z)
           /\ BusEntries' = BusEntries
           /\ \A c : Right(c)' <=> Right(c)
<1>1. /\ \A s, f : Answering(s, f)' = Answering(s, f)
      /\ \A p : FunctionAt(p)' = FunctionAt(p)
  BY DEF Answering, FunctionAt
<1>2. /\ \A s, f : Present(s, f)' <=> Present(s, f)
      /\ \A p : AtRest(p)' = AtRest(p)
      /\ \A s, f, b : BarAt(s, f, b)' = BarAt(s, f, b)
  BY <1>1 DEF Present, AtRest, BarAt
<1>3. \A s : Multi(s)' = Multi(s)
  BY DEF Multi
<1>4. \A s, f, z : EntryOf(s, f, z)' = EntryOf(s, f, z)
  BY <1>1, <1>2, <1>3 DEF EntryOf
<1>5. BusEntries' = BusEntries
  BY <1>4 DEF BusEntries
<1>6. \A c : Right(c)' <=> Right(c)
  BY <1>2 DEF Right
<1> QED
  BY <1>1, <1>2, <1>4, <1>5, <1>6

-----------------------------------------------------------------------------
(* The list *)

Room == IF Scanned THEN NumSlots * NumFunctions ELSE slot * NumFunctions + func

\* The loops go over every function, one after the other.
LEMMA GoesOn ==
    ASSUME slot \in PciSlots, func \in PciFunctions, ~Scanned, NextFunction
    PROVE  /\ slot' \in PciSlots /\ func' \in PciFunctions /\ step' \in {"probe", "search"}
           /\ \A s \in PciSlots, f \in PciFunctions :
                  Passed(s, f)' <=> Passed(s, f) \/ (s = slot /\ f = func)
           /\ Room' = Room + 1
<1>0. /\ NumSlots \in Nat \ {0} /\ NumFunctions \in Nat \ {0}
      /\ slot \in 0 .. NumSlots - 1 /\ func \in 0 .. NumFunctions - 1
  BY Numbers DEF PciSlots, PciFunctions
<1>1. CASE func < NumFunctions - 1
  <2>1. func' = func + 1 /\ step' = "probe" /\ slot' = slot
    BY <1>1 DEF NextFunction
  <2>2. ~Scanned'
    BY <2>1 DEF Scanned
  <2>3. Room' = Room + 1
    BY <1>0, <2>1, <2>2, SMT DEF Room
  <2> QED
    BY <1>0, <1>1, <2>1, <2>2, <2>3, SMT DEF Passed, PciSlots, PciFunctions
<1>2. CASE func = NumFunctions - 1 /\ slot < NumSlots - 1
  <2>1. func' = 0 /\ slot' = slot + 1 /\ step' = "probe"
    BY <1>0, <1>2, SMT DEF NextFunction
  <2>2. ~Scanned'
    BY <2>1 DEF Scanned
  <2>3. Room' = Room + 1
    <3>1. (slot + 1) * NumFunctions = slot * NumFunctions + NumFunctions
      BY <1>0, SMT
    <3> QED
      BY <1>0, <1>2, <2>1, <2>2, <3>1, SMT DEF Room
  <2> QED
    BY <1>0, <1>2, <2>1, <2>2, <2>3, SMT DEF Passed, PciSlots, PciFunctions
<1>3. CASE func = NumFunctions - 1 /\ slot = NumSlots - 1
  <2>1. func' = func /\ slot' = slot /\ step' = "search"
    BY <1>0, <1>3, SMT DEF NextFunction
  <2>2. Scanned'
    BY <2>1 DEF Scanned
  <2>3. Room' = Room + 1
    <3>1. NumSlots * NumFunctions = (NumSlots - 1) * NumFunctions + NumFunctions
      BY <1>0, SMT
    <3>2. Room' = NumSlots * NumFunctions
      BY <2>2 DEF Room
    <3>3. Room = slot * NumFunctions + func
      BY DEF Room
    <3>4. slot * NumFunctions = (NumSlots - 1) * NumFunctions
      BY <1>3
    <3>5. slot * NumFunctions \in Nat
      BY <1>0, SMT
    <3> QED
      BY <1>0, <1>3, <3>1, <3>2, <3>3, <3>4, <3>5, SMT
  <2> QED
    BY <1>0, <1>3, <2>1, <2>2, <2>3, SMT DEF Passed, PciSlots, PciFunctions
<1> QED
  BY <1>0, <1>1, <1>2, <1>3, SMT

LEMMA RoomThere == ASSUME slot \in PciSlots, func \in PciFunctions PROVE Room \in Nat
<1>1. slot \in Nat /\ func \in Nat /\ NumSlots \in Nat /\ NumFunctions \in Nat
  BY Numbers DEF PciSlots, PciFunctions
<1>2. \A m, n \in Nat : m * n \in Nat
  BY SMT
<1>3. slot * NumFunctions \in Nat /\ NumSlots * NumFunctions \in Nat
  BY <1>1, <1>2
<1> QED
  BY <1>1, <1>3, SMT DEF Room

LEMMA NotYetPassed ==
    ASSUME slot \in PciSlots, func \in PciFunctions, ~Scanned
    PROVE  ~Passed(slot, func)
BY Numbers, SMT DEF Passed, PciSlots, PciFunctions

\* The entry of a function is at its numbers.
LEMMA EntryIsAt ==
    ASSUME NEW s, NEW f, NEW z
    PROVE  /\ IsAt(EntryOf(s, f, z), s, f)
           /\ EntryOf(s, f, z).bar_sizes = z
           /\ EntryOf(s, f, z).bar_address = AtRest(Answering(s, f))
           /\ EntryOf(s, f, z).header = FunctionAt(Answering(s, f)).header
           /\ EntryOf(s, f, z).device = FunctionAt(Answering(s, f)).device
           /\ EntryOf(s, f, z).class = FunctionAt(Answering(s, f)).class
           /\ EntryOf(s, f, z).vendor = FunctionAt(Answering(s, 0)).vendor
BY DEF EntryOf, IsAt

LEMMA EntryNumbers ==
    ASSUME NEW c \in BusEntries
    PROVE  /\ c.slot \in PciSlots /\ c.function \in PciFunctions /\ c.bar_sizes \in BarSizes
           /\ c = EntryOf(c.slot, c.function, c.bar_sizes)
<1>1. PICK s \in PciSlots, f \in PciFunctions, z \in BarSizes : c = EntryOf(s, f, z)
  BY DEF BusEntries
<1>2. c.slot = s /\ c.function = f /\ c.bar_sizes = z
  BY <1>1, EntryIsAt DEF IsAt
<1> QED
  BY <1>1, <1>2

\* A function that is not there is passed over.
LEMMA ListSkips ==
    ASSUME ScanTypes, ListInv, ~Scanned, NextFunction, ~Present(slot, func),
           pci_machine' = pci_machine, lst_pci_devices' = lst_pci_devices
    PROVE  ListInv'
<1>0. slot \in PciSlots /\ func \in PciFunctions
  BY DEF ScanTypes
<1>1. /\ \A s \in PciSlots, f \in PciFunctions :
             Passed(s, f)' <=> Passed(s, f) \/ (s = slot /\ f = func)
      /\ Room' = Room + 1
  BY <1>0, GoesOn
<1>2. BusEntries' = BusEntries /\ \A c : Right(c)' <=> Right(c)
  BY MachineStays
<1>3. \A s, f : Present(s, f)' <=> Present(s, f)
  BY MachineStays
<1>4. lst_pci_devices' \in Seq(BusEntries')
  BY <1>2 DEF ListInv
<1>5. ASSUME NEW k \in DOMAIN lst_pci_devices
      PROVE  Passed(lst_pci_devices[k].slot, lst_pci_devices[k].function)'
  <2>1. lst_pci_devices[k] \in BusEntries
    BY ElementOfSeq DEF ListInv
  <2>2. Passed(lst_pci_devices[k].slot, lst_pci_devices[k].function)
    BY DEF ListInv
  <2>3. PICK s \in PciSlots, f \in PciFunctions : IsAt(lst_pci_devices[k], s, f)
    BY <2>1, EntryNumbers DEF IsAt
  <2>4. Passed(s, f)
    BY <2>2, <2>3 DEF IsAt
  <2>5. Passed(s, f)'
    BY <1>1, <2>4
  <2> QED
    BY <2>3, <2>5 DEF Passed, IsAt
<1>6. ASSUME NEW s \in PciSlots, NEW f \in PciFunctions, Passed(s, f)', Present(s, f)'
      PROVE  \E k \in DOMAIN lst_pci_devices' : IsAt(lst_pci_devices'[k], s, f)
  <2>1. Present(s, f) /\ Passed(s, f)
    BY <1>1, <1>3, <1>6
  <2> QED
    BY <2>1 DEF ListInv
<1>7. Len(lst_pci_devices') <= Room'
  <2>1. Len(lst_pci_devices) <= Room
    BY DEF ListInv, Room
  <2>2. Len(lst_pci_devices) \in Nat
    BY DEF ListInv
  <2>3. Room \in Nat
    BY <1>0, RoomThere
  <2> QED
    BY <1>1, <2>1, <2>2, <2>3, SMT
<1> QED
  BY <1>2, <1>4, <1>5, <1>6, <1>7 DEF ListInv, Room

LEMMA InFront ==
    ASSUME NEW S, NEW lst \in Seq(S), NEW c \in S
    PROVE  /\ <<c>> \o lst \in Seq(S) /\ Len(<<c>> \o lst) = Len(lst) + 1
           /\ (<<c>> \o lst)[1] = c
           /\ \A k \in DOMAIN lst : k + 1 \in DOMAIN (<<c>> \o lst) /\ (<<c>> \o lst)[k + 1] = lst[k]
           /\ \A k \in DOMAIN (<<c>> \o lst) : k = 1 \/ k - 1 \in DOMAIN lst
<1>1. <<c>> \in Seq(S) /\ Len(<<c>>) = 1 /\ <<c>>[1] = c
  BY SMT
<1>2. DOMAIN lst = 1 .. Len(lst) /\ Len(lst) \in Nat
  OBVIOUS
<1> DEFINE new == <<c>> \o lst
<1>3. new \in Seq(S) /\ Len(new) = Len(lst) + 1 /\ DOMAIN new = 1 .. Len(lst) + 1
  BY <1>1, <1>2, SMT
<1>4. new[1] = c
  BY <1>1, <1>2, SMT
<1>5. \A k \in 1 .. Len(lst) : new[k + 1] = lst[k]
  BY <1>1, <1>2, SMT
<1> QED
  BY <1>2, <1>3, <1>4, <1>5, SMT

\* A function that is there is inserted, in front of those before it.
LEMMA ListInserts ==
    ASSUME ScanTypes, ListInv, ~Scanned, NextFunction, Present(slot, func),
           pci_machine' = pci_machine,
           NEW z \in BarSizes, NEW c, c = EntryOf(slot, func, z), Right(c),
           lst_pci_devices' = <<c>> \o lst_pci_devices
    PROVE  ListInv'
<1>0. slot \in PciSlots /\ func \in PciFunctions
  BY DEF ScanTypes
<1>1. /\ \A s \in PciSlots, f \in PciFunctions :
             Passed(s, f)' <=> Passed(s, f) \/ (s = slot /\ f = func)
      /\ Room' = Room + 1
  BY <1>0, GoesOn
<1>2. BusEntries' = BusEntries /\ \A d : Right(d)' <=> Right(d)
  BY MachineStays
<1>3. \A s, f : Present(s, f)' <=> Present(s, f)
  BY MachineStays
<1>4. c \in BusEntries /\ IsAt(c, slot, func)
  BY <1>0, EntryIsAt DEF BusEntries
<1>5. lst_pci_devices \in Seq(BusEntries)
  BY DEF ListInv
<1>6. /\ lst_pci_devices' \in Seq(BusEntries)
      /\ Len(lst_pci_devices') = Len(lst_pci_devices) + 1
      /\ lst_pci_devices'[1] = c
      /\ \A k \in DOMAIN lst_pci_devices :
             k + 1 \in DOMAIN lst_pci_devices' /\ lst_pci_devices'[k + 1] = lst_pci_devices[k]
      /\ \A k \in DOMAIN lst_pci_devices' : k = 1 \/ k - 1 \in DOMAIN lst_pci_devices
  BY <1>4, <1>5, InFront
<1>7. DOMAIN lst_pci_devices' \subseteq Nat /\ 1 \in DOMAIN lst_pci_devices'
  BY <1>5, <1>6, SMT
<1>8. \A k \in DOMAIN lst_pci_devices' :
          k # 1 => k - 1 \in DOMAIN lst_pci_devices /\ lst_pci_devices'[k] = lst_pci_devices[k - 1]
  <2> TAKE k \in DOMAIN lst_pci_devices'
  <2> HAVE k # 1
  <2>1. k - 1 \in DOMAIN lst_pci_devices /\ (k - 1) + 1 = k
    BY <1>6, <1>7, SMT
  <2>2. lst_pci_devices'[(k - 1) + 1] = lst_pci_devices[k - 1]
    BY <1>6, <2>1
  <2> QED
    BY <2>1, <2>2
\* Where an entry of the list was and is
<1>9. ASSUME NEW k \in DOMAIN lst_pci_devices'
      PROVE  \/ k = 1 /\ lst_pci_devices'[k] = c
             \/ /\ k # 1 /\ k - 1 \in DOMAIN lst_pci_devices
                /\ lst_pci_devices'[k] = lst_pci_devices[k - 1]
                /\ Passed(lst_pci_devices[k - 1].slot, lst_pci_devices[k - 1].function)
                /\ Right(lst_pci_devices[k - 1])
  BY <1>6, <1>8 DEF ListInv
<1>10. ASSUME NEW k \in DOMAIN lst_pci_devices'
       PROVE  Right(lst_pci_devices[k])'
  <2>1. PICK d : d = lst_pci_devices'[k] /\ Right(d)
    BY <1>9
  <2>2. Right(d)'
    BY <1>2, <2>1
  <2> QED
    BY <2>1, <2>2 DEF Right
<1>11. ASSUME NEW k \in DOMAIN lst_pci_devices'
       PROVE  /\ Passed(lst_pci_devices[k].slot, lst_pci_devices[k].function)'
              /\ k # 1 => ~IsAt(lst_pci_devices'[k], slot, func)
  <2>1. lst_pci_devices'[k] \in BusEntries
    BY <1>6, ElementOfSeq
  <2>2. PICK s \in PciSlots, f \in PciFunctions : IsAt(lst_pci_devices'[k], s, f)
    BY <2>1, EntryNumbers DEF IsAt
  <2>3. Passed(s, f)'
    <3>1. CASE k = 1
      BY <1>1, <1>4, <1>6, <2>2, <3>1 DEF IsAt
    <3>2. CASE k # 1
      BY <1>1, <1>9, <2>2, <3>2 DEF IsAt
    <3> QED
      BY <3>1, <3>2
  <2>4. Passed(lst_pci_devices[k].slot, lst_pci_devices[k].function)'
    BY <2>2, <2>3 DEF Passed, IsAt
  <2>5. k # 1 => ~IsAt(lst_pci_devices'[k], slot, func)
    <3>1. k # 1 => Passed(s, f)
      BY <1>9, <2>2 DEF IsAt
    <3> QED
      BY <1>0, <2>2, <3>1, NotYetPassed DEF IsAt
  <2> QED
    BY <2>4, <2>5
<1>12. ASSUME NEW j \in DOMAIN lst_pci_devices', NEW k \in DOMAIN lst_pci_devices',
              IsAt(lst_pci_devices'[j], lst_pci_devices'[k].slot, lst_pci_devices'[k].function)
       PROVE  j = k
  <2>1. CASE j = 1 /\ k # 1
    <3>1. IsAt(lst_pci_devices'[k], slot, func)
      BY <1>4, <1>6, <1>12, <2>1 DEF IsAt
    <3> QED
      BY <1>11, <2>1, <3>1
  <2>2. CASE j # 1 /\ k = 1
    <3>1. IsAt(lst_pci_devices'[j], slot, func)
      BY <1>4, <1>6, <1>12, <2>2 DEF IsAt
    <3> QED
      BY <1>11, <2>2, <3>1
  <2>3. CASE j # 1 /\ k # 1
    <3>1. j - 1 = k - 1
      BY <1>9, <1>12, <2>3 DEF ListInv
    <3> QED
      BY <1>7, <3>1, SMT
  <2> QED
    BY <2>1, <2>2, <2>3
<1>13. ASSUME NEW s \in PciSlots, NEW f \in PciFunctions, Passed(s, f)', Present(s, f)'
       PROVE  \E k \in DOMAIN lst_pci_devices' : IsAt(lst_pci_devices'[k], s, f)
  <2>1. CASE s = slot /\ f = func
    BY <1>4, <1>6, <1>7, <2>1
  <2>2. CASE Passed(s, f)
    <3>1. PICK k \in DOMAIN lst_pci_devices : IsAt(lst_pci_devices[k], s, f)
      BY <1>3, <1>13, <2>2 DEF ListInv
    <3> QED
      BY <1>6, <3>1
  <2> QED
    BY <1>1, <1>13, <2>1, <2>2
<1>14. Len(lst_pci_devices') <= Room'
  <2>1. Len(lst_pci_devices) <= Room
    BY DEF ListInv, Room
  <2>2. Len(lst_pci_devices) \in Nat
    BY <1>5
  <2>3. Room \in Nat
    BY <1>0, RoomThere
  <2> QED
    BY <1>1, <1>6, <2>1, <2>2, <2>3, SMT
<1>15. lst_pci_devices' \in Seq(BusEntries')
  BY <1>2, <1>6
<1> QED
  BY <1>10, <1>11, <1>12, <1>13, <1>14, <1>15 DEF ListInv, Room

\* A step at a function leaves the list.
LEMMA ListStays ==
    ASSUME ScanTypes, ListInv, pci_machine' = pci_machine, lst_pci_devices' = lst_pci_devices,
           slot' = slot, func' = func, Scanned' <=> Scanned
    PROVE  ListInv'
<1>1. \A s, f : Passed(s, f)' <=> Passed(s, f)
  BY DEF Passed
<1>2. BusEntries' = BusEntries /\ \A c : Right(c)' <=> Right(c)
  BY MachineStays
<1>3. \A s, f : Present(s, f)' <=> Present(s, f)
  BY MachineStays
<1>4. ASSUME NEW k \in DOMAIN lst_pci_devices
      PROVE  (Passed(lst_pci_devices[k].slot, lst_pci_devices[k].function)
                 /\ Right(lst_pci_devices[k]))'
  <2>1. PICK c : c = lst_pci_devices[k]
    OBVIOUS
  <2>2. Passed(c.slot, c.function) /\ Right(c)
    BY <2>1 DEF ListInv
  <2>3. Passed(c.slot, c.function)' /\ Right(c)'
    BY <1>1, <1>2, <2>2
  <2> QED
    BY <2>1, <2>3 DEF Passed, Right
<1> QED
  BY <1>1, <1>2, <1>3, <1>4 DEF ListInv

-----------------------------------------------------------------------------
(* The steps *)

LEMMA BusyAt ==
    ASSUME PciIInv, Busy
    PROVE  /\ ConfigAt = Answering(slot, func) /\ ConfigAt \in Places /\ Present(slot, func)
           /\ FunctionAt(ConfigAt).bars[bar] = BarAt(slot, func, bar)
           /\ Decodes(BarAt(slot, func, bar))
           /\ AtRest(ConfigAt) \in BarSizes
<1>1. /\ Present(slot, func) /\ config = EntryOf(slot, func, config.bar_sizes)
      /\ slot \in PciSlots /\ func \in PciFunctions /\ pci_machine \in PciMachines /\ bar \in Bars
  BY DEF PciIInv, SizingInv, ScanTypes
<1>2. config.slot = slot /\ config.function = func
  BY <1>1, EntryIsAt DEF IsAt
<1>3. ConfigAt = Answering(slot, func)
  BY <1>2 DEF ConfigAt
<1> QED
  BY <1>1, <1>3, PresentThere, AtRestValues DEF BarAt

\* Outside of a sizing all registers are at rest.
LEMMA AllAtRest ==
    ASSUME PciIInv, ~Sizing, NEW p \in Places
    PROVE  bar_registers[p] = AtRest(p)
<1>1. bar_registers[p] \in BarSizes /\ AtRest(p) \in BarSizes
  BY AtRestValues DEF PciIInv, RegistersInv, ScanTypes
<1>2. \A b \in Bars : bar_registers[p][b] = AtRest(p)[b]
  BY DEF PciIInv, RegistersInv, BarsRestored
<1> QED
  BY <1>1, <1>2 DEF BarSizes

LEMMA RegistersStay ==
    ASSUME PciIInv, ~Sizing, bar_registers' = bar_registers, pci_machine' = pci_machine
    PROVE  RegistersInv'
<1>1. \A p \in Places : AtRest(p)' = AtRest(p)
  BY MachineStays
<1>2. \A p \in Places, b \in Bars : bar_registers[p][b] = AtRest(p)[b]
  BY AllAtRest
<1>3. BarsRestored'
  BY <1>1, <1>2 DEF BarsRestored
<1> QED
  BY <1>3 DEF RegistersInv, PciIInv

\* A step that does not stop the scan leaves the memory that the list takes, if it
\* leaves the list.
LEMMA StopsStay ==
    ASSUME PciIInv, pci_machine' = pci_machine, lst_pci_devices' = lst_pci_devices, ~ScanStopped'
    PROVE  StopsRight'
<1>1. Taken' = Taken /\ Taken <= PciRoom[pci_machine]
  BY DEF Taken, PciIInv, StopsRight
<1> QED
  BY <1>1 DEF StopsRight, ScanStopped

\* The scan stops at a function that is there.
LEMMA StopsThere ==
    ASSUME PciIInv, Present(slot, func), pci_machine' = pci_machine,
           slot' = slot, func' = func, lst_pci_devices' = lst_pci_devices,
           \/ step' = "no memory" /\ ~Fits(CONFIG_SIZE + NODE_SIZE)
           \/ step' = "bad header" /\ FunctionAt(Answering(slot, func)).header \notin 0 .. 2
    PROVE  StopsRight'
<1>1. Taken' = Taken /\ Taken <= PciRoom[pci_machine]
  BY DEF Taken, PciIInv, StopsRight
<1>2. Present(slot, func)'
  BY DEF Present, FunctionAt, Answering
<1>3. Fits(CONFIG_SIZE + NODE_SIZE)' <=> Fits(CONFIG_SIZE + NODE_SIZE)
  BY <1>1 DEF Fits
<1>4. FunctionAt(Answering(slot, func))' = FunctionAt(Answering(slot, func))
  BY DEF FunctionAt, Answering
<1> QED
  BY <1>1, <1>2, <1>3, <1>4 DEF StopsRight

\* What the functions listed take is a number of the water mark's, and it does not
\* fit one more if it does not fit its pci_config_t.
LEMMA SizesThere ==
    ASSUME PciIInv
    PROVE  /\ CONFIG_SIZE \in Nat /\ NODE_SIZE \in Nat /\ PciRoom[pci_machine] \in Nat
           /\ Len(lst_pci_devices) \in Nat /\ Taken \in Nat
           /\ ~Fits(CONFIG_SIZE) => ~Fits(CONFIG_SIZE + NODE_SIZE)
<1>1. CONFIG_SIZE \in Nat /\ NODE_SIZE \in Nat /\ PciRoom[pci_machine] \in Nat
  BY PciAssumption DEF PciIInv, ScanTypes
<1>2. Len(lst_pci_devices) \in Nat
  BY DEF PciIInv, ListInv
<1>3. \A m, n \in Nat : m * n \in Nat
  BY SMT
<1>4. Taken \in Nat
  BY <1>1, <1>2, <1>3 DEF Taken
<1>5. ~Fits(CONFIG_SIZE) => ~Fits(CONFIG_SIZE + NODE_SIZE)
  BY <1>1, <1>4, SMT DEF Fits
<1> QED
  BY <1>1, <1>2, <1>4, <1>5

\* A function is listed, or there is no room for its node.
LEMMA InsertStep ==
    ASSUME PciIInv, ~Scanned, Present(slot, func), pci_machine' = pci_machine,
           NEW z \in BarSizes, NEW c, c = EntryOf(slot, func, z), Right(c), Insert(c)
    PROVE  /\ ListInv' /\ StopsRight'
           /\ slot' \in PciSlots /\ func' \in PciFunctions
           /\ step' \in {"probe", "search", "no memory"}
<1>1. /\ ScanTypes /\ ListInv /\ slot \in PciSlots /\ func \in PciFunctions
      /\ Taken <= PciRoom[pci_machine]
  BY DEF PciIInv, ScanTypes, StopsRight
<1>2. CASE /\ Fits(CONFIG_SIZE + NODE_SIZE)
           /\ lst_pci_devices' = <<c>> \o lst_pci_devices /\ NextFunction
  <2>1. slot' \in PciSlots /\ func' \in PciFunctions /\ step' \in {"probe", "search"}
    BY <1>1, <1>2, GoesOn
  <2>2. ListInv'
    BY <1>1, <1>2, ListInserts
  <2>3. Taken' = Taken + (CONFIG_SIZE + NODE_SIZE)
    <3>1. Len(lst_pci_devices') = Len(lst_pci_devices) + 1
      <4>1. lst_pci_devices \in Seq(BusEntries) /\ c \in BusEntries
        BY <1>1 DEF ListInv, BusEntries
      <4> QED
        BY <1>2, <4>1, InFront
    <3>2. \A n, m \in Nat : (n + 1) * m = n * m + m
      BY SMT
    <3>3. Len(lst_pci_devices) \in Nat /\ CONFIG_SIZE + NODE_SIZE \in Nat
      BY SizesThere
    <3> QED
      BY <3>1, <3>2, <3>3 DEF Taken
  <2>4. StopsRight'
    <3>1. Taken' <= PciRoom[pci_machine']
      BY <1>2, <2>3 DEF Fits
    <3> QED
      BY <2>1, <3>1 DEF StopsRight, ScanStopped
  <2> QED
    BY <2>1, <2>2, <2>4
<1>3. CASE ~Fits(CONFIG_SIZE + NODE_SIZE) /\ NoMemory
  <2>1. /\ step' = "no memory" /\ slot' = slot /\ func' = func
        /\ lst_pci_devices' = lst_pci_devices
    BY <1>3 DEF NoMemory
  <2>2. ~Scanned'
    BY <2>1 DEF Scanned
  <2>3. ListInv'
    BY <1>1, <2>1, <2>2, ListStays
  <2>4. StopsRight'
    BY <1>3, <2>1, StopsThere
  <2> QED
    BY <1>1, <2>1, <2>3, <2>4
<1> QED
  BY <1>2, <1>3 DEF Insert

\* A step that stops the scan at a function that is there.
LEMMA StopStep ==
    ASSUME PciIInv, step = "probe", Present(slot, func), pci_machine' = pci_machine,
           bar_registers' = bar_registers, orig' = orig, hda' = hda, config' = config, bar' = bar,
           slot' = slot, func' = func, lst_pci_devices' = lst_pci_devices,
           \/ step' = "no memory" /\ ~Fits(CONFIG_SIZE + NODE_SIZE)
           \/ step' = "bad header" /\ FunctionAt(Answering(slot, func)).header \notin 0 .. 2
    PROVE  PciIInv'
<1>1. ~Sizing /\ ~Scanned /\ ~Scanned' /\ ~Busy'
  BY DEF Sizing, Scanned, Busy
<1>2. RegistersInv'
  BY <1>1, RegistersStay
<1>3. ListInv'
  BY <1>1, ListStays DEF PciIInv
<1>4. StopsRight'
  BY StopsThere
<1>5. ScanTypes' /\ SizingInv' /\ HdaInv'
  BY <1>1 DEF ScanTypes, SizingInv, HdaInv, PciIInv
<1> QED
  BY <1>2, <1>3, <1>4, <1>5 DEF PciIInv

LEMMA ProbeStep == ASSUME PciIInv, Probe PROVE PciIInv'
<1>1. /\ step = "probe" /\ pci_machine' = pci_machine /\ bar_registers' = bar_registers
      /\ orig' = orig /\ hda' = hda
  BY DEF Probe
<1>2. /\ slot \in PciSlots /\ func \in PciFunctions /\ pci_machine \in PciMachines
      /\ ~Scanned /\ ~Sizing /\ bar \in Bars
  BY <1>1 DEF Scanned, Sizing, PciIInv, ScanTypes
<1>3. RegistersInv'
  BY <1>1, <1>2, RegistersStay
<1> DEFINE zeros == [b \in Bars |-> 0]
<1>4. zeros \in BarSizes
  BY Numbers, SMT DEF BarSizes
<1>5. CASE ~Present(slot, func)
  <2>1. NextFunction /\ bar' = bar /\ lst_pci_devices' = lst_pci_devices
    BY <1>5 DEF Probe
  <2>2. slot' \in PciSlots /\ func' \in PciFunctions /\ step' \in {"probe", "search"}
    BY <1>2, <2>1, GoesOn
  <2>3. ListInv'
    BY <1>1, <1>2, <1>5, <2>1, ListSkips DEF PciIInv
  <2>4. ScanTypes'
    BY <1>1, <1>2, <2>1, <2>2 DEF ScanTypes
  <2>5. SizingInv' /\ HdaInv'
    BY <1>1, <2>2 DEF SizingInv, HdaInv, Busy, PciIInv
  <2>6. StopsRight'
    BY <1>1, <2>1, <2>2, StopsStay DEF ScanStopped
  <2> QED
    BY <1>3, <2>3, <2>4, <2>5, <2>6 DEF PciIInv
<1>6. CASE Present(slot, func) /\ ~Fits(CONFIG_SIZE)
  <2>1. /\ step' = "no memory" /\ slot' = slot /\ func' = func
        /\ lst_pci_devices' = lst_pci_devices /\ config' = config /\ bar' = bar
    BY <1>6 DEF Probe, NoMemory
  <2> QED
    BY <1>1, <1>6, <2>1, SizesThere, StopStep
<1>7. CASE Present(slot, func) /\ Fits(CONFIG_SIZE)
  <2>1. Answering(slot, func) \in Places /\ Decodes(BarAt(slot, func, 1))
    BY <1>2, <1>7, PresentThere, Numbers
  <2>2. ReadConfig(slot, func) = EntryOf(slot, func, zeros)
    BY <1>2, <2>1, AllAtRest DEF ReadConfig, EntryOf
  <2>3. ReadConfig(slot, func).header = EntryOf(slot, func, zeros).header
    BY <2>2
  <2>4. CASE EntryOf(slot, func, zeros).header = 0
    <3>1. /\ config' = EntryOf(slot, func, zeros) /\ bar' = 1 /\ step' = "orig"
          /\ slot' = slot /\ func' = func /\ lst_pci_devices' = lst_pci_devices
      <4>1. /\ ReadConfig(slot, func).header \notin 1 .. 2
            /\ ReadConfig(slot, func).header \in 0 .. 2
        BY <2>3, <2>4, SMT
      <4> QED
        BY <1>7, <2>2, <2>4, <4>1 DEF Probe
    <3>2. ScanTypes'
      BY <1>1, <1>2, <3>1, Numbers DEF ScanTypes
    <3>3. config'.bar_sizes = zeros /\ config'.header = 0
      BY <2>4, <3>1, EntryIsAt
    <3>4. EntryOf(slot, func, zeros)' = EntryOf(slot, func, zeros)
      <4>1. PICK s, f : s = slot /\ f = func
        OBVIOUS
      <4>2. EntryOf(s, f, zeros)' = EntryOf(s, f, zeros)
        BY <1>1, MachineStays
      <4> QED
        BY <3>1, <4>1, <4>2 DEF EntryOf
    <3>5. Present(slot, func)'
      BY <1>1, <1>7, <3>1 DEF Present, FunctionAt, Answering
    <3>6. SizingInv'
      <4>1. config' = EntryOf(slot, func, config.bar_sizes)'
        BY <3>1, <3>3, <3>4 DEF EntryOf
      <4>2. 1 .. bar' - 1 = {}
        BY <3>1, SMT
      <4>3. config'.bar_sizes \in BarSizes
        BY <1>4, <3>3
      <4> QED
        BY <3>1, <3>3, <3>5, <4>1, <4>2, <4>3 DEF SizingInv, BarSizes
    <3>7. ListInv'
      <4>1. Scanned' <=> Scanned
        BY <1>1, <3>1 DEF Scanned
      <4> QED
        BY <1>1, <1>2, <3>1, <4>1, ListStays DEF PciIInv
    <3>8. HdaInv'
      BY <1>1, <3>1 DEF HdaInv, PciIInv
    <3>9. StopsRight'
      BY <1>1, <3>1, StopsStay DEF ScanStopped
    <3> QED
      BY <1>3, <3>2, <3>6, <3>7, <3>8, <3>9 DEF PciIInv
  <2>5. CASE EntryOf(slot, func, zeros).header \in 1 .. 2
    <3>1. PICK c : c = EntryOf(slot, func, zeros)
      OBVIOUS
    <3>2. Insert(c) /\ bar' = bar
      <4>1. c.header # 0 /\ c.header \in 0 .. 2
        BY <2>5, <3>1, SMT
      <4> QED
        BY <1>7, <2>2, <3>1, <4>1 DEF Probe
    <3>3. Right(c)
      <4>1. c.header \in 0 .. 2 /\ c.header # 0
        BY <2>5, <3>1, SMT
      <4> QED
        BY <1>7, <3>1, <4>1, EntryIsAt DEF Right, IsAt
    <3>4. /\ ListInv' /\ StopsRight' /\ slot' \in PciSlots /\ func' \in PciFunctions
          /\ step' \in {"probe", "search", "no memory"}
      BY <1>1, <1>2, <1>4, <1>7, <3>1, <3>2, <3>3, InsertStep
    <3>5. ScanTypes'
      BY <1>1, <1>2, <3>2, <3>4 DEF ScanTypes
    <3>6. SizingInv' /\ HdaInv'
      BY <1>1, <3>4 DEF SizingInv, HdaInv, Busy, PciIInv
    <3> QED
      BY <1>3, <3>4, <3>5, <3>6 DEF PciIInv
  <2>6. CASE EntryOf(slot, func, zeros).header \notin 0 .. 2
    <3>1. EntryOf(slot, func, zeros).header # 0 /\ EntryOf(slot, func, zeros).header \notin 1 .. 2
      BY <2>6, SMT
    <3>2. /\ step' = "bad header" /\ slot' = slot /\ func' = func
          /\ lst_pci_devices' = lst_pci_devices /\ config' = config /\ bar' = bar
      BY <1>7, <2>2, <2>6, <3>1 DEF Probe
    <3>3. FunctionAt(Answering(slot, func)).header \notin 0 .. 2
      BY <2>6, EntryIsAt
    <3> QED
      BY <1>1, <1>7, <3>2, <3>3, StopStep
  <2>7. \/ EntryOf(slot, func, zeros).header = 0 \/ EntryOf(slot, func, zeros).header \in 1 .. 2
        \/ EntryOf(slot, func, zeros).header \notin 0 .. 2
    BY SMT
  <2> QED
    BY <2>4, <2>5, <2>6, <2>7
<1> QED
  BY <1>5, <1>6, <1>7

\* While a function is sized the scan stays there.
LEMMA StaysThere ==
    ASSUME PciIInv, Busy, Busy', pci_machine' = pci_machine, slot' = slot, func' = func,
           lst_pci_devices' = lst_pci_devices,
           config'.slot = config.slot, config'.function = config.function, hda' = hda
    PROVE  /\ ListInv' /\ HdaInv' /\ StopsRight' /\ ConfigAt' = ConfigAt
           /\ (Present(slot, func))' /\ AtRest(ConfigAt)' = AtRest(ConfigAt)
           /\ \A b : BarAt(slot, func, b)' = BarAt(slot, func, b)
           /\ \A z : EntryOf(slot, func, z)' = EntryOf(slot, func, z)
<1>1. ~Scanned /\ ~Scanned' /\ ListInv /\ ScanTypes
  BY DEF Scanned, Busy, PciIInv
<1>2. ListInv'
  BY <1>1, ListStays
<1>3. HdaInv'
  BY DEF Busy, HdaInv, PciIInv
<1>4. ConfigAt' = ConfigAt
  BY DEF ConfigAt, Answering
<1>5. PICK s, f, p : s = slot /\ f = func /\ p = ConfigAt
  OBVIOUS
<1>6. /\ Present(s, f)' <=> Present(s, f)
      /\ AtRest(p)' = AtRest(p)
      /\ \A b : BarAt(s, f, b)' = BarAt(s, f, b)
      /\ \A z : EntryOf(s, f, z)' = EntryOf(s, f, z)
  BY MachineStays
<1>7. Present(slot, func)' /\ AtRest(ConfigAt)' = AtRest(ConfigAt)
  BY <1>4, <1>5, <1>6, BusyAt DEF Present, AtRest
<1>8. \A b : BarAt(slot, func, b)' = BarAt(slot, func, b)
  BY <1>5, <1>6 DEF BarAt
<1>9. \A z : EntryOf(slot, func, z)' = EntryOf(slot, func, z)
  BY <1>5, <1>6 DEF EntryOf
<1>10. StopsRight'
  BY StopsStay DEF Busy, ScanStopped
<1> QED
  BY <1>2, <1>3, <1>4, <1>7, <1>8, <1>9, <1>10

LEMMA ReadOrigStep == ASSUME PciIInv, ReadOrig PROVE PciIInv'
<1>1. /\ step = "orig" /\ step' = "ones" /\ orig' = bar_registers[ConfigAt][bar]
      /\ pci_machine' = pci_machine /\ bar_registers' = bar_registers /\ slot' = slot
      /\ func' = func /\ bar' = bar /\ config' = config
      /\ lst_pci_devices' = lst_pci_devices /\ hda' = hda
  BY DEF ReadOrig
<1>2. Busy /\ Busy' /\ ~Sizing
  BY <1>1 DEF Busy, Sizing
<1>3. RegistersInv'
  BY <1>1, <1>2, RegistersStay
<1>4. /\ ListInv' /\ HdaInv' /\ StopsRight' /\ ConfigAt' = ConfigAt
      /\ (Present(slot, func))' /\ AtRest(ConfigAt)' = AtRest(ConfigAt)
      /\ \A b : BarAt(slot, func, b)' = BarAt(slot, func, b)
      /\ \A z : EntryOf(slot, func, z)' = EntryOf(slot, func, z)
  BY <1>1, <1>2, StaysThere
<1>5. orig' = AtRest(ConfigAt)[bar]
  BY <1>1, <1>2, AllAtRest, BusyAt
<1>6. ScanTypes'
  BY <1>1 DEF ScanTypes, PciIInv
<1>7. SizingInv'
  <2>1. EntryOf(slot, func, config.bar_sizes)' = EntryOf(slot, func, config.bar_sizes)
    <3>1. PICK z : z = config.bar_sizes
      OBVIOUS
    <3> QED
      BY <1>1, <1>4, <3>1 DEF EntryOf
  <2>2. \A b \in 1 .. bar - 1 : SizedRight(BarAt(slot, func, b)', config.bar_sizes[b])
    BY <1>2, <1>4 DEF PciIInv, SizingInv
  <2>3. (\A b \in 1 .. bar - 1 : SizedRight(BarAt(slot, func, b), config.bar_sizes[b]))'
    BY <1>1, <2>2 DEF SizedRight
  <2> QED
    BY <1>1, <1>2, <1>4, <1>5, <2>1, <2>3 DEF PciIInv, SizingInv, BarSizes
<1> QED
  BY <1>3, <1>4, <1>6, <1>7 DEF PciIInv

\* A write to the register that is sized leaves the others.
LEMMA RegisterWritten ==
    ASSUME PciIInv, Busy, pci_machine' = pci_machine,
           NEW v \in 0 .. VALUES - 1, WriteBar(v)
    PROVE  /\ bar_registers' \in [Places -> BarSizes]
           /\ bar_registers'[ConfigAt][bar] = Kept(BarAt(slot, func, bar), v)
           /\ \A p \in Places, b \in Bars :
                  p # ConfigAt \/ b # bar => bar_registers'[p][b] = AtRest(p)[b]
<1>1. /\ ConfigAt \in Places /\ FunctionAt(ConfigAt).bars[bar] = BarAt(slot, func, bar)
      /\ Decodes(BarAt(slot, func, bar))
  BY BusyAt
<1>2. bar \in Bars /\ bar_registers \in [Places -> BarSizes]
  BY DEF PciIInv, ScanTypes, RegistersInv
<1> DEFINE w == Kept(BarAt(slot, func, bar), v)
<1>3. w \in 0 .. VALUES - 1
  BY <1>1, KeptValue
<1>4. bar_registers' = [bar_registers EXCEPT ![ConfigAt][bar] = w]
  BY <1>1 DEF WriteBar
<1> HIDE DEF w
<1>5. bar_registers' \in [Places -> BarSizes]
  BY <1>1, <1>2, <1>3, <1>4 DEF BarSizes
<1>6. bar_registers'[ConfigAt][bar] = w
  BY <1>1, <1>2, <1>4 DEF BarSizes
<1>7. ASSUME NEW p \in Places, NEW b \in Bars, p # ConfigAt \/ b # bar
      PROVE  bar_registers'[p][b] = bar_registers[p][b]
  BY <1>1, <1>2, <1>4, <1>7 DEF BarSizes
<1>8. \A p \in Places, b \in Bars :
          p # ConfigAt \/ b # bar => bar_registers[p][b] = AtRest(p)[b]
  BY DEF PciIInv, RegistersInv, BarsRestored
<1> QED
  BY <1>5, <1>6, <1>7, <1>8 DEF w

LEMMA WriteOnesStep == ASSUME PciIInv, WriteOnes PROVE PciIInv'
<1>1. /\ step = "ones" /\ step' = "size" /\ WriteBar(VALUES - 1)
      /\ pci_machine' = pci_machine /\ orig' = orig /\ slot' = slot
      /\ func' = func /\ bar' = bar /\ config' = config
      /\ lst_pci_devices' = lst_pci_devices /\ hda' = hda
  BY DEF WriteOnes
<1>2. Busy /\ Busy' /\ Sizing'
  BY <1>1 DEF Busy, Sizing
<1>3. /\ ListInv' /\ HdaInv' /\ StopsRight' /\ ConfigAt' = ConfigAt
      /\ (Present(slot, func))' /\ AtRest(ConfigAt)' = AtRest(ConfigAt)
      /\ \A b : BarAt(slot, func, b)' = BarAt(slot, func, b)
      /\ \A z : EntryOf(slot, func, z)' = EntryOf(slot, func, z)
  BY <1>1, <1>2, StaysThere
<1>4. VALUES - 1 \in 0 .. VALUES - 1
  BY Numbers
<1>5. /\ bar_registers' \in [Places -> BarSizes]
      /\ bar_registers'[ConfigAt][bar] = Kept(BarAt(slot, func, bar), VALUES - 1)
      /\ \A p \in Places, b \in Bars :
             p # ConfigAt \/ b # bar => bar_registers'[p][b] = AtRest(p)[b]
  BY <1>1, <1>2, <1>4, RegisterWritten
<1>6. ScanTypes'
  BY <1>1 DEF ScanTypes, PciIInv
<1>7. RegistersInv'
  <2>1. \A p : AtRest(p)' = AtRest(p)
    BY <1>1, MachineStays
  <2>2. BarsRestored'
    BY <1>1, <1>2, <1>3, <1>5, <2>1 DEF BarsRestored
  <2> QED
    BY <1>5, <2>2 DEF RegistersInv, BarSizes
<1>8. SizingInv'
  <2>1. EntryOf(slot, func, config.bar_sizes)' = EntryOf(slot, func, config.bar_sizes)
    <3>1. PICK z : z = config.bar_sizes
      OBVIOUS
    <3> QED
      BY <1>1, <1>3, <3>1 DEF EntryOf
  <2>2. \A b \in 1 .. bar - 1 : SizedRight(BarAt(slot, func, b)', config.bar_sizes[b])
    BY <1>2, <1>3 DEF PciIInv, SizingInv
  <2>3. (\A b \in 1 .. bar - 1 : SizedRight(BarAt(slot, func, b), config.bar_sizes[b]))'
    BY <1>1, <2>2 DEF SizedRight
  <2>4. (bar_registers[ConfigAt][bar] = Kept(BarAt(slot, func, bar), VALUES - 1))'
    <3>1. PICK b : b = bar
      OBVIOUS
    <3>2. BarAt(slot, func, b)' = BarAt(slot, func, b)
      BY <1>3
    <3>3. BarAt(slot, func, bar)' = BarAt(slot, func, bar)
      BY <1>1, <3>1, <3>2 DEF BarAt
    <3> QED
      BY <1>1, <1>3, <1>5, <3>3 DEF Kept
  <2> QED
    BY <1>1, <1>2, <1>3, <2>1, <2>3, <2>4 DEF PciIInv, SizingInv, BarSizes
<1> QED
  BY <1>3, <1>6, <1>7, <1>8 DEF PciIInv

LEMMA ReadSizeStep == ASSUME PciIInv, ReadSize PROVE PciIInv'
<1> DEFINE size == Negated(bar_registers[ConfigAt][bar])
<1> DEFINE sizes == [config.bar_sizes EXCEPT ![bar] = size]
<1>1. /\ step = "size" /\ step' = "restore"
      /\ config' = [config EXCEPT !.bar_sizes[bar] = size]
      /\ pci_machine' = pci_machine /\ bar_registers' = bar_registers /\ orig' = orig
      /\ slot' = slot /\ func' = func /\ bar' = bar
      /\ lst_pci_devices' = lst_pci_devices /\ hda' = hda
  BY DEF ReadSize
<1>2. Busy /\ Busy' /\ Sizing /\ Sizing'
  BY <1>1 DEF Busy, Sizing
<1>3. /\ config = EntryOf(slot, func, config.bar_sizes) /\ config.bar_sizes \in BarSizes
      /\ config.header = 0 /\ bar \in Bars
      /\ \A b \in 1 .. bar - 1 : SizedRight(BarAt(slot, func, b), config.bar_sizes[b])
      /\ bar_registers[ConfigAt][bar] = Kept(BarAt(slot, func, bar), VALUES - 1)
      /\ orig = AtRest(ConfigAt)[bar]
  BY <1>1, <1>2 DEF PciIInv, SizingInv, ScanTypes
<1>4. size \in 0 .. VALUES - 1 /\ SizedRight(BarAt(slot, func, bar), size)
  <2>1. Decodes(BarAt(slot, func, bar))
    BY <1>2, BusyAt
  <2>2. VALUES - 1 \in 0 .. VALUES - 1
    BY Numbers
  <2>3. Kept(BarAt(slot, func, bar), VALUES - 1) \in Nat
    BY <2>1, <2>2, KeptValue, Numbers
  <2> QED
    BY <1>3, <2>1, <2>3, NegatedValue, SizedIsRight
<1> HIDE DEF size
<1>5. sizes \in BarSizes /\ sizes[bar] = size /\ \A b \in Bars \ {bar} : sizes[b] = config.bar_sizes[b]
  BY <1>3, <1>4 DEF BarSizes
<1>6. config' = EntryOf(slot, func, sizes)
  BY <1>1, <1>3 DEF EntryOf
<1> HIDE DEF sizes
<1>7. /\ config'.slot = slot /\ config'.function = func /\ config'.bar_sizes = sizes
      /\ config'.header = 0 /\ config.slot = slot /\ config.function = func
  BY <1>3, <1>6, EntryIsAt DEF IsAt
<1>8. /\ ListInv' /\ HdaInv' /\ StopsRight' /\ ConfigAt' = ConfigAt
      /\ (Present(slot, func))' /\ AtRest(ConfigAt)' = AtRest(ConfigAt)
      /\ \A b : BarAt(slot, func, b)' = BarAt(slot, func, b)
      /\ \A z : EntryOf(slot, func, z)' = EntryOf(slot, func, z)
  BY <1>1, <1>2, <1>7, StaysThere
<1>9. ScanTypes'
  BY <1>1 DEF ScanTypes, PciIInv
<1>10. RegistersInv'
  <2>1. \A p : AtRest(p)' = AtRest(p)
    BY <1>1, MachineStays
  <2>2. BarsRestored'
    BY <1>1, <1>2, <1>8, <2>1 DEF BarsRestored, PciIInv, RegistersInv
  <2> QED
    BY <1>1, <2>2 DEF RegistersInv, BarSizes, PciIInv
<1>11. SizingInv'
  <2>1. EntryOf(slot, func, config.bar_sizes)' = config'
    <3>1. PICK z : z = sizes
      OBVIOUS
    <3>2. EntryOf(slot, func, z)' = EntryOf(slot, func, z)
      BY <1>8
    <3> QED
      BY <1>6, <1>7, <3>1, <3>2 DEF EntryOf
  <2>2. (\A b \in 1 .. bar - 1 : SizedRight(BarAt(slot, func, b), config.bar_sizes[b]))'
    <3>1. \A b \in 1 .. bar - 1 : b \in Bars \ {bar}
      BY <1>3, Numbers DEF Bars
    <3>2. \A b \in 1 .. bar - 1 : SizedRight(BarAt(slot, func, b)', sizes[b])
      BY <1>3, <1>5, <1>8, <3>1
    <3> QED
      BY <1>1, <1>7, <3>2 DEF SizedRight
  <2>3. SizedRight(BarAt(slot, func, bar), config.bar_sizes[bar])'
    <3>1. PICK b : b = bar
      OBVIOUS
    <3>2. BarAt(slot, func, b)' = BarAt(slot, func, b)
      BY <1>8
    <3>3. BarAt(slot, func, bar)' = BarAt(slot, func, bar)
      BY <1>1, <3>1, <3>2 DEF BarAt
    <3> QED
      BY <1>1, <1>4, <1>5, <1>7, <3>3 DEF SizedRight
  <2> QED
    BY <1>1, <1>3, <1>5, <1>7, <1>8, <2>1, <2>2, <2>3 DEF SizingInv, BarSizes
<1> QED
  BY <1>8, <1>9, <1>10, <1>11 DEF PciIInv

LEMMA RestoreStep == ASSUME PciIInv, Restore PROVE PciIInv'
<1>1. /\ step = "restore" /\ WriteBar(orig)
      /\ pci_machine' = pci_machine /\ orig' = orig /\ config' = config /\ hda' = hda
  BY DEF Restore, Written_back
<1>2. Busy /\ ~Scanned /\ Sizing
  BY <1>1 DEF Busy, Scanned, Sizing
<1>3. /\ config = EntryOf(slot, func, config.bar_sizes) /\ config.bar_sizes \in BarSizes
      /\ config.header = 0 /\ bar \in Bars /\ slot \in PciSlots /\ func \in PciFunctions
      /\ Present(slot, func) /\ pci_machine \in PciMachines
      /\ \A b \in 1 .. bar - 1 : SizedRight(BarAt(slot, func, b), config.bar_sizes[b])
      /\ SizedRight(BarAt(slot, func, bar), config.bar_sizes[bar])
      /\ orig = AtRest(ConfigAt)[bar]
  BY <1>1, <1>2 DEF PciIInv, SizingInv, ScanTypes
<1>4. ConfigAt = Answering(slot, func) /\ ConfigAt \in Places /\ AtRest(ConfigAt) \in BarSizes
  BY <1>2, BusyAt
<1>5. orig \in 0 .. VALUES - 1 /\ Kept(BarAt(slot, func, bar), orig) = AtRest(ConfigAt)[bar]
  BY <1>3, <1>4, AtRestStays DEF BarSizes
<1>6. RegistersInv'
  <2>1. /\ bar_registers' \in [Places -> BarSizes]
        /\ bar_registers'[ConfigAt][bar] = Kept(BarAt(slot, func, bar), orig)
        /\ \A p \in Places, b \in Bars :
               p # ConfigAt \/ b # bar => bar_registers'[p][b] = AtRest(p)[b]
    BY <1>1, <1>2, <1>5, RegisterWritten
  <2>2. \A p \in Places, b \in Bars : bar_registers'[p][b] = AtRest(p)[b]
    BY <1>5, <2>1
  <2>3. \A p : AtRest(p)' = AtRest(p)
    BY <1>1, MachineStays
  <2>4. BarsRestored'
    BY <2>2, <2>3 DEF BarsRestored
  <2> QED
    BY <2>1, <2>4 DEF RegistersInv, BarSizes
<1>7. CASE bar < NumBars
  <2>1. /\ bar' = bar + 1 /\ step' = "orig" /\ slot' = slot /\ func' = func
        /\ lst_pci_devices' = lst_pci_devices
    BY <1>7 DEF Restore
  <2>2. Busy'
    BY <2>1 DEF Busy
  <2>3. /\ ListInv' /\ HdaInv' /\ StopsRight' /\ (Present(slot, func))'
        /\ \A b : BarAt(slot, func, b)' = BarAt(slot, func, b)
        /\ \A z : EntryOf(slot, func, z)' = EntryOf(slot, func, z)
    BY <1>1, <1>2, <2>1, <2>2, StaysThere
  <2>4. ScanTypes'
    BY <1>1, <1>3, <1>7, <2>1, Numbers, SMT DEF ScanTypes, Bars
  <2>5. SizingInv'
    <3>1. EntryOf(slot, func, config.bar_sizes)' = EntryOf(slot, func, config.bar_sizes)
      <4>1. PICK z : z = config.bar_sizes
        OBVIOUS
      <4> QED
        BY <1>1, <2>3, <4>1 DEF EntryOf
    <3>2. \A b \in 1 .. bar' - 1 : b = bar \/ b \in 1 .. bar - 1
      BY <1>3, <2>1, Numbers DEF Bars
    <3>3. \A b \in 1 .. bar' - 1 : SizedRight(BarAt(slot, func, b), config.bar_sizes[b])
      BY <1>3, <3>2
    <3>4. (\A b \in 1 .. bar - 1 : SizedRight(BarAt(slot, func, b), config.bar_sizes[b]))'
      BY <1>1, <2>3, <3>3 DEF SizedRight
    <3> QED
      BY <1>1, <1>3, <2>1, <2>3, <3>1, <3>4 DEF SizingInv, BarSizes
  <2> QED
    BY <1>6, <2>3, <2>4, <2>5 DEF PciIInv
<1>8. CASE ~(bar < NumBars)
  <2>1. Insert(config) /\ bar' = bar
    BY <1>8 DEF Restore
  <2>3. Right(config)
    <3>1. config.slot = slot /\ config.function = func
      BY <1>3, EntryIsAt DEF IsAt
    <3>2. \A b \in Bars : b = bar \/ b \in 1 .. bar - 1
      BY <1>3, <1>8, Numbers DEF Bars
    <3>3. \A b \in Bars : SizedRight(BarAt(slot, func, b), config.bar_sizes[b])
      BY <1>3, <3>2
    <3>4. config.header \in 0 .. 2
      BY <1>3, SMT
    <3> QED
      BY <1>3, <3>1, <3>3, <3>4 DEF Right
  <2>4. PICK z, c : z = config.bar_sizes /\ c = config
    OBVIOUS
  <2>5. z \in BarSizes /\ c = EntryOf(slot, func, z)
    BY <1>3, <2>4
  <2>6. /\ ListInv' /\ StopsRight' /\ slot' \in PciSlots /\ func' \in PciFunctions
        /\ step' \in {"probe", "search", "no memory"}
    BY <1>1, <1>2, <1>3, <2>1, <2>3, <2>4, <2>5, InsertStep
  <2>7. ScanTypes'
    BY <1>1, <1>3, <2>1, <2>6 DEF ScanTypes
  <2>8. SizingInv' /\ HdaInv'
    BY <1>1, <2>6 DEF SizingInv, HdaInv, Busy, PciIInv
  <2> QED
    BY <1>6, <2>6, <2>7, <2>8 DEF PciIInv
<1> QED
  BY <1>7, <1>8

\* The smallest of some numbers is one of them.
LEMMA LeastThere == ASSUME NEW T, T \subseteq Nat, T # {} PROVE Min(T) \in T
<1> DEFINE R == {ss \in Nat \X Nat : ss[1] < ss[2]}
<1>1. IsWellFoundedOn(R, Nat)
  <2>1. OpToRel(<, Nat) = R
    BY DEF OpToRel
  <2> QED
    BY <2>1, NatLessThanWellFounded, Zenon
<1> HIDE DEF R
<1>2. PICK m \in T : \A k \in T : <<k, m>> \notin R
  BY <1>1, WFMin, Zenon
<1>3. ASSUME NEW k \in T PROVE m <= k
  <2>1. k \in Nat /\ m \in Nat /\ <<k, m>> \notin R
    BY <1>2
  <2> QED
    BY <2>1 DEF R
<1> QED
  BY <1>3 DEF Min

\* The two passes over the list
FirstFound ==
    {k \in 1 .. Len(lst_pci_devices) :
        <<lst_pci_devices[k].vendor, lst_pci_devices[k].device>> \in FirstPass}
SecondFound ==
    {k \in 1 .. Len(lst_pci_devices) :
        <<lst_pci_devices[k].vendor, lst_pci_devices[k].class>> \in SecondPass}

LEMMA HdaIndex ==
    ASSUME Len(lst_pci_devices) \in Nat
    PROVE  /\ FirstFound # {} => hda_index \in FirstFound
           /\ FirstFound = {} /\ SecondFound # {} => hda_index \in SecondFound
           /\ FirstFound = {} /\ SecondFound = {} => hda_index = 0
<1>1. Find(LAMBDA c : <<c.vendor, c.device>> \in FirstPass)
          = IF FirstFound # {} THEN Min(FirstFound) ELSE 0
  BY DEF Find, SelectInSeq, FirstFound
<1>2. Find(LAMBDA c : <<c.vendor, c.class>> \in SecondPass)
          = IF SecondFound # {} THEN Min(SecondFound) ELSE 0
  BY DEF Find, SelectInSeq, SecondFound
<1>3. FirstFound \subseteq Nat \ {0} /\ SecondFound \subseteq Nat \ {0}
  BY SMT DEF FirstFound, SecondFound
<1>4. hda_index = IF (IF FirstFound # {} THEN Min(FirstFound) ELSE 0) # 0
                  THEN (IF FirstFound # {} THEN Min(FirstFound) ELSE 0)
                  ELSE (IF SecondFound # {} THEN Min(SecondFound) ELSE 0)
  BY <1>1, <1>2 DEF hda_index
<1>5. FirstFound # {} => Min(FirstFound) \in FirstFound
  BY <1>3, LeastThere
<1>6. SecondFound # {} => Min(SecondFound) \in SecondFound
  BY <1>3, LeastThere
<1> QED
  BY <1>3, <1>4, <1>5, <1>6

LEMMA SearchStep == ASSUME PciIInv, Search PROVE PciIInv'
<1>1. /\ step = "search" /\ pci_machine' = pci_machine /\ bar_registers' = bar_registers
      /\ slot' = slot /\ func' = func /\ bar' = bar /\ orig' = orig /\ config' = config
      /\ lst_pci_devices' = lst_pci_devices
      /\ step' \in {"found", "assert", "panic"}
  BY DEF Search
<1>2. ~Sizing /\ Scanned /\ Scanned' /\ ~Busy'
  BY <1>1 DEF Sizing, Scanned, Busy
<1>3. RegistersInv'
  BY <1>1, <1>2, RegistersStay
<1>4. ListInv'
  BY <1>1, <1>2, ListStays DEF PciIInv
<1>5. ScanTypes'
  BY <1>1 DEF ScanTypes, PciIInv
<1>6. hda_index' = hda_index
  BY <1>1 DEF hda_index, Find, SelectInSeq
<1>7. HdaInv'
  <2>1. CASE hda_index = 0
    <3>1. step' = "panic" /\ hda' = hda
      BY <2>1 DEF Search
    <3> QED
      BY <1>1, <1>6, <2>1, <3>1 DEF HdaInv, PciIInv
  <2>2. CASE hda_index # 0
    <3>1. step' \in {"found", "assert"} /\ hda' = lst_pci_devices[hda_index]
      BY <2>2 DEF Search
    <3> QED
      BY <1>1, <1>6, <2>2, <3>1 DEF HdaInv
  <2> QED
    BY <2>1, <2>2
<1>8. StopsRight'
  BY <1>1, StopsStay DEF ScanStopped
<1> QED
  BY <1>2, <1>3, <1>4, <1>5, <1>7, <1>8 DEF PciIInv, SizingInv

LEMMA PciIInvInit == PciInit => PciIInv
<1> SUFFICES ASSUME PciInit PROVE PciIInv
  OBVIOUS
<1>1. /\ pci_machine \in PciMachines /\ bar_registers = [p \in Places |-> AtRest(p)]
      /\ slot = 0 /\ func = 0 /\ step = "probe" /\ bar = 1
      /\ lst_pci_devices = <<>> /\ hda = <<>>
  BY DEF PciInit, PciBegin
<1>2. ScanTypes
  BY <1>1, Numbers DEF ScanTypes
<1>3. RegistersInv
  BY <1>1, AtRestValues DEF RegistersInv, BarsRestored
<1>4. SizingInv /\ HdaInv
  BY <1>1 DEF SizingInv, HdaInv, Busy
<1>5. ListInv
  <2>1. /\ lst_pci_devices \in Seq(BusEntries) /\ DOMAIN lst_pci_devices = {}
        /\ Len(lst_pci_devices) = 0
    BY <1>1
  <2>2. ~Scanned
    BY <1>1 DEF Scanned
  <2>3. \A s \in PciSlots, f \in PciFunctions : ~Passed(s, f)
    BY <1>1, <2>2, Numbers, SMT DEF Passed, PciSlots, PciFunctions
  <2>4. slot * NumFunctions + func = 0
    BY <1>1, Numbers
  <2> QED
    BY <2>1, <2>2, <2>3, <2>4, SMT DEF ListInv
<1>6. StopsRight
  <2>1. Taken = 0
    <3>1. Len(lst_pci_devices) = 0 /\ CONFIG_SIZE + NODE_SIZE \in Nat
      BY <1>1, PciAssumption, SMT
    <3>2. \A n \in Nat : 0 * n = 0
      BY SMT
    <3> QED
      BY <3>1, <3>2 DEF Taken
  <2>2. PciRoom[pci_machine] \in Nat
    BY <1>1, PciAssumption
  <2> QED
    BY <1>1, <2>1, <2>2, SMT DEF StopsRight, ScanStopped
<1> QED
  BY <1>2, <1>3, <1>4, <1>5, <1>6 DEF PciIInv

LEMMA PciIInvStep == PciIInv /\ [PciNext]_pci_vars => PciIInv'
<1> SUFFICES ASSUME PciIInv, [PciNext]_pci_vars PROVE PciIInv'
  OBVIOUS
<1>1. CASE UNCHANGED pci_vars
  <2>1. /\ pci_machine' = pci_machine /\ bar_registers' = bar_registers
        /\ slot' = slot /\ func' = func /\ step' = step /\ bar' = bar /\ orig' = orig
        /\ config' = config /\ lst_pci_devices' = lst_pci_devices /\ hda' = hda
    BY <1>1 DEF pci_vars
  <2>2. ScanTypes'
    BY <2>1 DEF PciIInv, ScanTypes
  <2>3. RegistersInv'
    BY <2>1 DEF PciIInv, RegistersInv, BarsRestored, AtRest, FunctionAt, BarSizes, ConfigAt,
                Answering, Sizing
  <2>4. SizingInv'
    <3>1. CASE ~Busy
      BY <2>1, <3>1 DEF SizingInv, Busy
    <3>2. CASE Busy
      <4>1. Busy'
        BY <2>1, <3>2 DEF Busy
      <4>2. /\ ConfigAt' = ConfigAt
            /\ (Present(slot, func))' /\ AtRest(ConfigAt)' = AtRest(ConfigAt)
            /\ \A b : BarAt(slot, func, b)' = BarAt(slot, func, b)
            /\ \A z : EntryOf(slot, func, z)' = EntryOf(slot, func, z)
        BY <2>1, <3>2, <4>1, StaysThere
      <4>3. PICK z, b : z = config.bar_sizes /\ b = bar
        OBVIOUS
      <4>4. EntryOf(slot, func, config.bar_sizes)' = EntryOf(slot, func, config.bar_sizes)
        BY <2>1, <4>2, <4>3 DEF EntryOf
      <4>5. BarAt(slot, func, bar)' = BarAt(slot, func, bar)
        BY <2>1, <4>2, <4>3 DEF BarAt
      <4>6. \A c \in 1 .. bar - 1 : SizedRight(BarAt(slot, func, c)', config.bar_sizes[c])
        BY <3>2, <4>2 DEF PciIInv, SizingInv
      <4>7. (\A c \in 1 .. bar - 1 : SizedRight(BarAt(slot, func, c), config.bar_sizes[c]))'
        BY <2>1, <4>6 DEF SizedRight
      <4>8. (step = "restore" => SizedRight(BarAt(slot, func, bar), config.bar_sizes[bar]))'
        BY <2>1, <3>2, <4>5 DEF PciIInv, SizingInv, SizedRight
      <4>9. (step = "size" =>
                 bar_registers[ConfigAt][bar] = Kept(BarAt(slot, func, bar), VALUES - 1))'
        BY <2>1, <3>2, <4>2, <4>5 DEF PciIInv, SizingInv, Kept
      <4> QED
        BY <2>1, <3>2, <4>2, <4>4, <4>7, <4>8, <4>9 DEF PciIInv, SizingInv, BarSizes
    <3> QED
      BY <3>1, <3>2
  <2>5. Scanned' <=> Scanned
    BY <2>1 DEF Scanned
  <2>6. ListInv'
    BY <2>1, <2>5, ListStays DEF PciIInv
  <2>7. hda_index' = hda_index
    BY <2>1 DEF hda_index, Find, SelectInSeq
  <2>8. HdaInv'
    BY <2>1, <2>7 DEF PciIInv, HdaInv
  <2>9. StopsRight'
    <3>1. CASE ScanStopped
      BY <2>1, <3>1, StopsThere DEF PciIInv, StopsRight, ScanStopped
    <3>2. CASE ~ScanStopped
      BY <2>1, <3>2, StopsStay DEF ScanStopped
    <3> QED
      BY <3>1, <3>2
  <2> QED
    BY <2>2, <2>3, <2>4, <2>6, <2>8, <2>9 DEF PciIInv
<1> QED
  BY <1>1, ProbeStep, ReadOrigStep, WriteOnesStep, ReadSizeStep, RestoreStep, SearchStep
  DEF PciNext

-----------------------------------------------------------------------------
(* What the scan promises *)

\* What an entry of the list says
LEMMA EntrySays ==
    ASSUME PciIInv, NEW k \in DOMAIN lst_pci_devices
    PROVE  LET c == lst_pci_devices[k]
               p == Answering(c.slot, c.function)
           IN  /\ c.slot \in PciSlots /\ c.function \in PciFunctions
               /\ p \in Places /\ FunctionAt(p) # NoFunction /\ p[1] = c.slot
               /\ c.device = FunctionAt(p).device /\ c.class = FunctionAt(p).class
               /\ c.header = FunctionAt(p).header /\ c.bar_address = AtRest(p)
               /\ c.vendor = FunctionAt(<<c.slot, 0>>).vendor
<1> DEFINE c == lst_pci_devices[k]
<1>1. c \in BusEntries
  BY ElementOfSeq DEF PciIInv, ListInv
<1>2. /\ c.slot \in PciSlots /\ c.function \in PciFunctions
      /\ c = EntryOf(c.slot, c.function, c.bar_sizes)
  BY <1>1, EntryNumbers
<1>3. Right(c) /\ pci_machine \in PciMachines
  BY DEF PciIInv, ListInv, ScanTypes
<1> HIDE DEF c
<1>4. /\ Answering(c.slot, c.function) \in Places
      /\ FunctionAt(Answering(c.slot, c.function)) # NoFunction
  BY <1>2, <1>3, PresentThere DEF Right
<1>5. Answering(c.slot, c.function)[1] = c.slot /\ Answering(c.slot, 0) = <<c.slot, 0>>
  BY DEF Answering
<1> QED
  BY <1>2, <1>4, <1>5, EntryIsAt DEF c

LEMMA TypesFollow == PciIInv => PciTypeOK
<1> SUFFICES ASSUME PciIInv PROVE PciTypeOK
  OBVIOUS
<1>1. ScanTypes /\ bar_registers \in [Places -> BarSizes]
  BY DEF PciIInv, RegistersInv
<1>2. Len(lst_pci_devices) <= Room /\ Len(lst_pci_devices) \in Nat
  BY DEF PciIInv, ListInv, Room
<1>3. Room <= NumSlots * NumFunctions
  <2>1. /\ slot \in 0 .. NumSlots - 1 /\ func \in 0 .. NumFunctions - 1
        /\ NumSlots \in Nat /\ NumFunctions \in Nat
    BY <1>1, Numbers DEF ScanTypes, PciSlots, PciFunctions
  <2>2. (NumSlots - 1 - slot) * NumFunctions >= 0
    BY <2>1, SMT
  <2>3. NumSlots * NumFunctions
            = (slot * NumFunctions + NumFunctions) + (NumSlots - 1 - slot) * NumFunctions
    BY <2>1, SMT
  <2>4. slot * NumFunctions \in Nat /\ NumSlots * NumFunctions \in Nat
    BY <2>1, SMT
  <2>5. slot * NumFunctions + func <= NumSlots * NumFunctions
    BY <2>1, <2>2, <2>3, <2>4, SMT
  <2> QED
    BY <2>4, <2>5, SMT DEF Room
<1>4. Room \in Nat /\ NumSlots * NumFunctions \in Nat
  <2>1. \A m, n \in Nat : m * n \in Nat
    BY SMT
  <2> QED
    BY <1>1, <2>1, RoomThere, Numbers DEF ScanTypes
<1>5. Len(lst_pci_devices) <= NumSlots * NumFunctions
  BY <1>2, <1>3, <1>4, SMT
<1> QED
  BY <1>1, <1>5 DEF PciTypeOK, ScanTypes, BarSizes, Sizing, Scanned, ScanStopped

LEMMA SizesFollow == PciIInv => SizesRight
<1> SUFFICES ASSUME PciIInv, NEW k \in DOMAIN lst_pci_devices, lst_pci_devices[k].header = 0,
                    NEW b \in Bars
             PROVE  LET c == lst_pci_devices[k]
                        bars == FunctionAt(Answering(c.slot, c.function)).bars
                    IN  /\ bars[b].kind = "memory" => c.bar_sizes[b] = bars[b].size
                        /\ bars[b].kind = "none" => c.bar_sizes[b] = 0
  BY DEF SizesRight
<1>1. Right(lst_pci_devices[k])
  BY DEF PciIInv, ListInv
<1> QED
  BY <1>1 DEF Right, SizedRight, BarAt

LEMMA ListFollows == PciIInv => AllListed
<1> SUFFICES ASSUME PciIInv, NEW p \in Places, FunctionAt(p) # NoFunction, Passed(p[1], p[2])
             PROVE  /\ EntriesOf(p) # {}
                    /\ ~pci_machine[p[1]].mirrors => \A j, k \in EntriesOf(p) : j = k
                    /\ FunctionAt(p).header \in 0 .. 2
                    /\ \A k \in EntriesOf(p) :
                           /\ lst_pci_devices[k].device = FunctionAt(p).device
                           /\ lst_pci_devices[k].bar_address = AtRest(p)
  BY DEF AllListed
<1>1. PICK s \in PciSlots, f \in PciFunctions : p = <<s, f>>
  BY DEF Places
<1>2. Present(s, f) /\ Answering(s, f) = p /\ Passed(s, f)
  BY <1>1, TherePresent DEF PciIInv, ScanTypes
<1>3. EntriesOf(p) # {}
  <2>1. PICK k \in DOMAIN lst_pci_devices : IsAt(lst_pci_devices[k], s, f)
    BY <1>2 DEF PciIInv, ListInv
  <2>2. k \in EntriesOf(p)
    BY <1>2, <2>1 DEF EntriesOf, IsAt
  <2> QED
    BY <2>2
<1>4. ASSUME ~pci_machine[p[1]].mirrors, NEW j \in EntriesOf(p), NEW k \in EntriesOf(p)
      PROVE  j = k
  <2>1. ~pci_machine[s].mirrors
    BY <1>1, <1>4
  <2>2. \A i \in EntriesOf(p) : i \in DOMAIN lst_pci_devices /\ IsAt(lst_pci_devices[i], s, f)
    BY <1>1, <2>1 DEF EntriesOf, Answering, IsAt
  <2> QED
    BY <2>2 DEF PciIInv, ListInv, IsAt
<1>5. ASSUME NEW k \in EntriesOf(p)
      PROVE  /\ lst_pci_devices[k].device = FunctionAt(p).device
             /\ lst_pci_devices[k].bar_address = AtRest(p)
  BY EntrySays DEF EntriesOf
<1>6. FunctionAt(p).header \in 0 .. 2
  <2>1. PICK k \in EntriesOf(p) : TRUE
    BY <1>3
  <2>2. k \in DOMAIN lst_pci_devices /\ lst_pci_devices[k].header = FunctionAt(p).header
    BY <2>1, EntrySays DEF EntriesOf
  <2>3. Right(lst_pci_devices[k])
    BY <2>2 DEF PciIInv, ListInv
  <2> QED
    BY <2>2, <2>3 DEF Right
<1> QED
  BY <1>3, <1>4, <1>5, <1>6

\* The functions of a device are of one vendor, as the scan takes for granted when
\* it asks function 0.
OneVendor ==
    \A m \in PciMachines, s \in PciSlots, f \in PciFunctions :
        m[s].functions[f] # NoFunction => m[s].functions[f].vendor = m[s].functions[0].vendor

LEMMA EntryVendor ==
    ASSUME OneVendor, PciIInv, NEW k \in DOMAIN lst_pci_devices
    PROVE  lst_pci_devices[k].vendor
               = FunctionAt(Answering(lst_pci_devices[k].slot, lst_pci_devices[k].function)).vendor
<1> DEFINE c == lst_pci_devices[k]
           p == Answering(c.slot, c.function)
<1>1. /\ c.slot \in PciSlots /\ p \in Places /\ FunctionAt(p) # NoFunction /\ p[1] = c.slot
      /\ c.vendor = FunctionAt(<<c.slot, 0>>).vendor
  BY EntrySays
<1>2. p[1] \in PciSlots /\ p[2] \in PciFunctions /\ pci_machine \in PciMachines
  BY <1>1 DEF Places, PciIInv, ScanTypes
<1> HIDE DEF p, c
<1>3. FunctionAt(p).vendor = FunctionAt(<<p[1], 0>>).vendor
  BY <1>1, <1>2 DEF OneVendor, FunctionAt
<1> QED
  BY <1>1, <1>3 DEF p, c

LEMMA HdaFollows == ASSUME OneVendor PROVE PciIInv => HdaFound
<1> SUFFICES ASSUME PciIInv, step \in {"found", "assert", "panic"} PROVE HdaFound
  BY DEF HdaFound
<1>0. DOMAIN lst_pci_devices = 1 .. Len(lst_pci_devices) /\ Len(lst_pci_devices) \in Nat
  BY DEF PciIInv, ListInv
<1>1. ASSUME NEW k \in DOMAIN lst_pci_devices
      PROVE  LET p == Answering(lst_pci_devices[k].slot, lst_pci_devices[k].function)
             IN  /\ p \in Places /\ FunctionAt(p) # NoFunction
                 /\ lst_pci_devices[k].vendor = FunctionAt(p).vendor
                 /\ lst_pci_devices[k].device = FunctionAt(p).device
                 /\ lst_pci_devices[k].class = FunctionAt(p).class
                 /\ lst_pci_devices[k] # <<>>
  <2>1. lst_pci_devices[k] # <<>>
    <3>1. lst_pci_devices[k] \in BusEntries
      BY ElementOfSeq DEF PciIInv, ListInv
    <3>2. PICK s, f, z : lst_pci_devices[k] = EntryOf(s, f, z)
      BY <3>1 DEF BusEntries
    <3>3. "slot" \in DOMAIN lst_pci_devices[k]
      BY <3>2 DEF EntryOf
    <3>4. DOMAIN <<>> = {}
      OBVIOUS
    <3> QED
      BY <3>3, <3>4
  <2> QED
    BY <2>1, EntrySays, EntryVendor
<1>2. ASSUME NEW p \in Places, FunctionAt(p) # NoFunction
      PROVE  \E k \in DOMAIN lst_pci_devices :
                 /\ lst_pci_devices[k].vendor = FunctionAt(p).vendor
                 /\ lst_pci_devices[k].device = FunctionAt(p).device
                 /\ lst_pci_devices[k].class = FunctionAt(p).class
  <2>1. EntriesOf(p) # {}
    BY <1>2, ListFollows DEF AllListed, Passed, Scanned
  <2>2. PICK k \in EntriesOf(p) : TRUE
    BY <2>1
  <2> QED
    BY <1>1, <2>2 DEF EntriesOf
<1>3. /\ FirstFound # {} => hda_index \in FirstFound
      /\ FirstFound = {} /\ SecondFound # {} => hda_index \in SecondFound
      /\ FirstFound = {} /\ SecondFound = {} => hda_index = 0
  BY <1>0, HdaIndex
<1>4. /\ step = "panic" => hda_index = 0 /\ hda = <<>>
      /\ step \in {"found", "assert"} => hda_index # 0 /\ hda = lst_pci_devices[hda_index]
  BY DEF PciIInv, HdaInv
<1>5. 0 \notin FirstFound /\ 0 \notin SecondFound
  BY <1>0, SMT DEF FirstFound, SecondFound
<1>6. CASE FirstFound # {}
  <2>1. hda_index \in FirstFound /\ hda_index # 0
    BY <1>3, <1>5, <1>6
  <2>2. hda = lst_pci_devices[hda_index] /\ hda_index \in DOMAIN lst_pci_devices
    BY <1>0, <1>4, <2>1 DEF FirstFound
  <2>3. hda # <<>> /\ Known(Answering(hda.slot, hda.function))
    BY <1>1, <2>1, <2>2 DEF FirstFound, Known
  <2>4. \E p \in Places : Known(p)
    BY <1>1, <2>2, <2>3
  <2> QED
    BY <2>3, <2>4 DEF HdaFound
<1>7. CASE FirstFound = {}
  <2>1. ~\E p \in Places : Known(p)
    <3>1. SUFFICES ASSUME NEW p \in Places, Known(p) PROVE FALSE
      OBVIOUS
    <3>2. PICK k \in DOMAIN lst_pci_devices :
              /\ lst_pci_devices[k].vendor = FunctionAt(p).vendor
              /\ lst_pci_devices[k].device = FunctionAt(p).device
      BY <1>2, <3>1 DEF Known
    <3>3. k \in FirstFound
      BY <1>0, <3>1, <3>2 DEF FirstFound, Known
    <3> QED
      BY <1>7, <3>3
  <2>2. CASE SecondFound # {}
    <3>1. hda_index \in SecondFound /\ hda_index # 0
      BY <1>3, <1>5, <1>7, <2>2
    <3>2. hda = lst_pci_devices[hda_index] /\ hda_index \in DOMAIN lst_pci_devices
      BY <1>0, <1>4, <3>1 DEF SecondFound
    <3>3. hda # <<>> /\ <<hda.vendor, hda.class>> \in SecondPass
      BY <1>1, <3>1, <3>2 DEF SecondFound
    <3> QED
      BY <2>1, <3>3 DEF HdaFound
  <2>3. CASE SecondFound = {}
    <3>1. hda = <<>>
      BY <1>3, <1>4, <1>7, <2>3
    <3>2. ASSUME NEW p \in Places, FunctionAt(p) # NoFunction
          PROVE  <<FunctionAt(p).vendor, FunctionAt(p).class>> \notin SecondPass
      <4>1. PICK k \in DOMAIN lst_pci_devices :
                /\ lst_pci_devices[k].vendor = FunctionAt(p).vendor
                /\ lst_pci_devices[k].class = FunctionAt(p).class
        BY <1>2, <3>2
      <4> QED
        BY <1>0, <2>3, <4>1 DEF SecondFound
    <3> QED
      BY <2>1, <3>1, <3>2 DEF HdaFound
  <2> QED
    BY <2>2, <2>3
<1> QED
  BY <1>6, <1>7

\* pci_scan_devices leaves every register as the firmware set it, except the one
\* it is sizing, lists every function it passes once, with its addresses and sizes,
\* and the loops stay in their bounds, whatever is on the bus; it stops only at a
\* function with a header it does not know or without memory.
THEOREM BusLeftAsFound ==
    PciSpec => [](PciTypeOK /\ BarsRestored /\ AllListed /\ SizesRight /\ StopsRight)
<1>1. PciIInv => PciTypeOK /\ BarsRestored /\ AllListed /\ SizesRight /\ StopsRight
  BY TypesFollow, ListFollows, SizesFollow DEF PciIInv, RegistersInv
<1> QED
  BY PciIInvInit, PciIInvStep, <1>1, PTL DEF PciSpec

\* And sound_init takes the controller it knows if there is one, provided that
\* the functions of a device are of one vendor.
THEOREM DevicesAreListed ==
    ASSUME OneVendor
    PROVE  PciSpec => []DevicesListed
<1>1. PciIInv => DevicesListed
  BY TypesFollow, ListFollows, SizesFollow, HdaFollows
  DEF PciIInv, RegistersInv, DevicesListed
<1> QED
  BY PciIInvInit, PciIInvStep, <1>1, PTL DEF PciSpec
=============================================================================
