----------------------------- MODULE MCDevices -----------------------------
(***************************************************************************)
(* The PCI scan and the sound driver.  A behaviour is one of the scan, of  *)
(* the command rings, of the enumeration of the codecs, or of a stream     *)
(* that is played.                                                         *)
(***************************************************************************)
EXTENDS CommandRing, SoundStreams, Pci

VARIABLES
    part,           \* "pci", "ring", "paths" or "streams"
    machine, paths_at, i, cad, g, hda_afg, pin, frames, path, found_outputs

path_vars == <<machine, paths_at, i, cad, g, hda_afg, pin, frames, path, found_outputs>>
all_vars == <<part, vars, pci_vars, path_vars, streams_vars>>
-----------------------------------------------------------------------------
\* Codecs with up to four widgets: a converter, a mixer or an input, and pins.
\* The nodes have the numbers from 1; a connection goes to a node with a smaller
\* number, or to one that does not exist.
W(n, type, conns) == [node |-> n, type |-> type, conns |-> conns]
Lists(nodes) == {<<>>} \cup {<<a>> : a \in nodes} \cup {<<a, b>> : a, b \in nodes}
Groups ==
    {<<W(1, s, <<>>), W(2, t, c), W(3, u, d), W(4, "pin", e)>> :
        s \in {"out", "in"}, t \in {"in", "mixer", "out"}, u \in {"mixer", "pin"},
        c \in Lists({1}), d \in Lists({1, 2}), e \in Lists({1, 2, 3})}
        \cup {<<W(1, "out", <<>>), W(2, "pin", <<9, 1>>)>>, <<W(1, "pin", <<>>)>>}
Audio(w) == [afg |-> TRUE, widgets |-> w]
Modem == [afg |-> FALSE, widgets |-> <<>>]
\* A second codec behind the one with the audio group
TwoCodecs == [c \in {0, 3} |-> <<Audio(<<W(1, "out", <<>>), W(2, "pin", <<1>>)>>)>>]
\* Two mixers that feed each other, before the converter
Loop == [c \in {0} |-> <<Audio(<<W(1, "out", <<>>), W(2, "mixer", <<1, 3>>),
                                W(3, "mixer", <<1, 2>>), W(4, "pin", <<2>>)>>)>>]
MCMachines ==
    {[c \in {1} |-> <<Audio(w)>>] : w \in Groups}
        \cup {[c \in {0, 2} |-> IF c = 0 THEN <<Modem>>
                                ELSE <<Modem, Audio(w), Audio(<<W(7, "pin", <<>>)>>)>>] :
                  w \in {v \in Groups : Len(v) < 4}}
        \cup {<<>>, [c \in {0} |-> <<Modem>>], TwoCodecs, Loop}

\* Three slots, a register having 64 values: a memory region is of 16 or 32 bytes.
Memory(size) == [kind |-> "memory", size |-> size, flags |-> 0, base |-> 32]
Low64 == [kind |-> "memory", size |-> 16, flags |-> 4, base |-> 48]
High64 == [kind |-> "high", size |-> 1, flags |-> 0, base |-> 0]
NoBar == [kind |-> "none", size |-> 1, flags |-> 0, base |-> 0]
Io == [kind |-> "io", size |-> 4, flags |-> 1, base |-> 8]
Fn(vendor, device, class, header, bars) ==
    [vendor |-> vendor, device |-> device, class |-> class, header |-> header, bars |-> bars]
Known1 == Fn("8086", "2668", "audio", 0, <<Memory(16), NoBar>>)
Other64 == Fn("8086", "9D70", "audio", 0, <<Low64, High64>>)
Other == Fn("8086", "9D70", "audio", 0, <<Memory(16), Io>>)
Bridge == Fn("8086", "2448", "bridge", 1, <<NoBar, NoBar>>)
Display == Fn("1234", "1111", "display", 0, <<Memory(32), Memory(16)>>)
BadHeader == Fn("1234", "2222", "display", 3, <<Memory(16), NoBar>>)
Pair(f0, f1) == [f \in 0 .. 1 |-> IF f = 0 THEN f0 ELSE f1]
Single(f, mirrors) == [mirrors |-> mirrors, functions |-> Pair(f, NoFunction)]
Double(f, g2) == [mirrors |-> FALSE, functions |-> Pair(f, g2)]
Kinds ==
    {Single(NoFunction, FALSE), Single(Known1, FALSE), Single(Known1, TRUE), Single(Other64, FALSE),
     Single(Display, FALSE), Single(Bridge, TRUE), Double(Bridge, Other), Double(Display, Bridge),
     Double(Display, Display), Double(Display, BadHeader)}
MCPciMachines == [0 .. 2 -> Kinds]

\* Room for all functions; or for three, and for the pci_config_t of a fourth.
MCPciRoom ==
    [m \in MCPciMachines |->
        CASE m[0] = Double(Display, Bridge) -> 9 [] m[0] = Double(Bridge, Other) -> 11
          [] OTHER -> 18]
MCFirstPass == {<<"8086", "2668">>}
MCSecondPass == {<<"8086", "audio">>}
NoDevices == [s \in 0 .. 2 |-> Single(NoFunction, FALSE)]

\* The rings have 2, 3 or 4 entries for 2, 16 or 256.
MCEntries == [small |-> 2, medium |-> 3, large |-> 4]
MCAnswer(v) == IF v = "v1" THEN "r1" ELSE "r2"
AllSizes == {"small", "medium", "large"}

\* Two outputs of up to three widgets, of which the second is played, one or none
OfKind(type) == [type : {type}, amp : BOOLEAN, output_capable : {TRUE}]
Routes ==
    {<<p, o>> : p \in OfKind("pin"), o \in OfKind("out")}
        \cup {<<p, m, o>> : p \in OfKind("pin"), m \in OfKind("mixer"), o \in OfKind("out")}
NoOutput == <<[type |-> "pin", amp |-> FALSE, output_capable |-> FALSE],
              [type |-> "out", amp |-> FALSE, output_capable |-> TRUE]>>
MCOutputs == {<<NoOutput, r>> : r \in Routes} \cup {<<NoOutput, NoOutput>>, <<NoOutput>>, <<>>}
-----------------------------------------------------------------------------
Paths == INSTANCE SoundPaths WITH
    Machines <- MCMachines, MAX_CODECS <- 4, MaxFrames <- 6, at <- paths_at, lst_outputs <- found_outputs

ASSUME Paths!SoundPathsAssumption

\* The parts that are not taken start in one of their initial states.
DevicesInit ==
    /\ part \in {"pci", "ring", "paths", "streams"}
    /\ machine \in IF part = "paths" THEN MCMachines ELSE {<<>>}
    /\ pci_machine \in IF part = "pci" THEN PciMachines ELSE {NoDevices}
    /\ caps \in IF part = "ring"
                THEN [corb : SUBSET AllSizes \ {{}}, rirb : SUBSET AllSizes \ {{}}]
                ELSE {[corb |-> AllSizes, rirb |-> AllSizes]}
    /\ IF part = "streams"
       THEN num_out \in 0 .. MaxOut /\ num_in \in 0 .. MaxIn /\ lst_outputs \in Outputs
       ELSE num_out = 0 /\ num_in = 0 /\ lst_outputs = <<>>
    /\ Paths!Begin /\ PciBegin /\ StreamsBegin
    /\ Init
    /\ part # "ring" => CORBWP = 0 /\ CORBRP = 0 /\ RIRBWP = 0

Paths_step == part = "paths" /\ Paths!Next /\ UNCHANGED <<part, vars, pci_vars, streams_vars>>
Scan_step == part = "pci" /\ PciNext /\ UNCHANGED <<part, vars, path_vars, streams_vars>>
InRing == part = "ring" /\ UNCHANGED <<part, pci_vars, path_vars, streams_vars>>
Driver_step == InRing /\ Driver
Fetch_step == InRing /\ Fetch
Respond_step == InRing /\ Respond
Ring_step == InRing /\ Next
Play_step == part = "streams" /\ StreamsNext /\ UNCHANGED <<part, vars, pci_vars, path_vars>>

\* The scan and the driver run without interruption and the controller does its
\* work.
DevicesSpec ==
    /\ DevicesInit /\ [][Paths_step \/ Scan_step \/ Ring_step \/ Play_step]_all_vars
    /\ WF_all_vars(Paths_step) /\ WF_all_vars(Scan_step)
    /\ WF_all_vars(Driver_step) /\ WF_all_vars(Fetch_step) /\ WF_all_vars(Respond_step)
-----------------------------------------------------------------------------
\* hda_setup_connections lists a path through the right group for each pin that
\* has one.
PathsRight == Paths!PathsRight

\* The loops of pci_scan_devices, hda_enumerate_codecs and hda_setup_connections
\* and the recursion of hda_dfs end.
LoopsEnd == (part = "pci" => ScanEnds) /\ (part = "paths" => Paths!Finishes)
=============================================================================
