-------------------------------- MODULE Pci --------------------------------
(***************************************************************************)
(* The scan of the PCI functions and the sizing of their base address      *)
(* registers (pci.c), up to the search of sound_init for its controller    *)
(* (sound.c).  One step is one access to a base address register, the      *)
(* other registers of a function being read at once; they do not change.   *)
(***************************************************************************)
EXTENDS Integers, Sequences, SequencesExt

CONSTANTS
    NumSlots, NumFunctions, NumBars,    \* 256 * 32, 8 and 6 in the code
    VALUES,                 \* of a register: 2^32 in the code
    PciMachines,            \* the machines the scan may meet
    CONFIG_SIZE, NODE_SIZE, \* of a pci_config_t and of a node of the list
    PciRoom,                \* what kernel_WaterMark has left for them, on each machine
    HdaSize,                \* 0x4000
    FirstPass, SecondPass   \* the ids find_custom_first_pass and _second_pass know

PciSlots == 0 .. NumSlots - 1
PciFunctions == 0 .. NumFunctions - 1
Places == PciSlots \X PciFunctions
Bars == 1 .. NumBars
NoFunction == [vendor |-> "FFFF", device |-> "FFFF"]

\* A register decodes a region of a size that its values can be divided into;
\* its flags are below the address, in the four bits that the sizing masks if
\* the region is memory.
Decodes(b) ==
    /\ b.kind # "none" =>
           /\ b.size \in Nat \ {0} /\ VALUES % b.size = 0
           /\ b.flags \in 0 .. b.size - 1 /\ b.base \in 0 .. VALUES - 1
    /\ b.kind = "memory" => b.size % 16 = 0 /\ b.size < VALUES /\ b.flags < 16

\* A machine gives every slot its functions, NoFunction where there is none; function 0
\* is there if another one is.  A slot that mirrors has one function, which
\* answers for all numbers.  The header is header_type & 0x7.
ASSUME PciAssumption ==
    /\ {NumSlots, NumFunctions, NumBars} \subseteq Nat \ {0}
    /\ VALUES \in Nat \ {0} /\ VALUES % 16 = 0
    /\ {CONFIG_SIZE, NODE_SIZE} \subseteq Nat /\ PciRoom \in [PciMachines -> Nat]
    /\ \A m \in PciMachines, s \in PciSlots, f \in PciFunctions :
           LET d == m[s].functions[f]
           IN  d # NoFunction =>
                   /\ d.vendor # "FFFF" /\ d.device # "FFFF"
                   /\ \A b \in Bars : Decodes(d.bars[b])
                   /\ f # 0 => m[s].functions[0] # NoFunction /\ ~m[s].mirrors

VARIABLES
    pci_machine,    \* the machine, which does not change
    bar_registers,  \* the base address registers of its functions
    slot, func, \* where the scan is
    step,       \* what it does next
    bar, orig,  \* of pci_get_memory_size
    config, lst_pci_devices,
    hda         \* pci_hda_config

pci_vars == <<pci_machine, bar_registers, slot, func, step, bar, orig, config, lst_pci_devices, hda>>

\* The function that answers
Answering(s, f) == <<s, IF pci_machine[s].mirrors THEN 0 ELSE f>>
FunctionAt(p) == pci_machine[p[1]].functions[p[2]]
Multi(s) == \E f \in PciFunctions \ {0} : pci_machine[s].functions[f] # NoFunction

\* What a register keeps of a value: the bits from the size up, and its flags
Kept(b, v) ==
    IF b.kind = "none" THEN 0 ELSE (v - (v % b.size)) + b.flags

\* What the firmware has put into the registers
AtRest(p) ==
    [b \in Bars |-> IF FunctionAt(p) = NoFunction THEN 0
                    ELSE Kept(FunctionAt(p).bars[b], FunctionAt(p).bars[b].base)]

PciBegin ==
    /\ bar_registers = [p \in Places |-> AtRest(p)]
    /\ slot = 0 /\ func = 0 /\ step = "probe"
    /\ bar = 1 /\ orig = 0
    /\ config = <<>> /\ lst_pci_devices = <<>> /\ hda = <<>>

PciInit == pci_machine \in PciMachines /\ PciBegin

-----------------------------------------------------------------------------
\* The loops of pci_scan_devices
NextFunction ==
    IF func < NumFunctions - 1 THEN func' = func + 1 /\ step' = "probe" /\ UNCHANGED slot
    ELSE IF slot < NumSlots - 1 THEN func' = 0 /\ slot' = slot + 1 /\ step' = "probe"
    ELSE step' = "search" /\ UNCHANGED <<slot, func>>

\* What the functions listed take of the water mark, which panics when it has no
\* room for one more ("Watermark: Size exceeded!")
Taken == Len(lst_pci_devices) * (CONFIG_SIZE + NODE_SIZE)
Fits(size) == Taken + size <= PciRoom[pci_machine]

NoMemory == step' = "no memory" /\ UNCHANGED <<slot, func, lst_pci_devices>>

\* list_insert_next with NULL, and on to the next function
Insert(c) ==
    \/ /\ Fits(CONFIG_SIZE + NODE_SIZE)
       /\ lst_pci_devices' = <<c>> \o lst_pci_devices /\ NextFunction
    \/ ~Fits(CONFIG_SIZE + NODE_SIZE) /\ NoMemory

\* The vendor is asked of function 0, the device of the function.
Present(s, f) ==
    /\ FunctionAt(Answering(s, 0)).vendor # "FFFF"
    /\ FunctionAt(Answering(s, f)).device # "FFFF"

ReadConfig(s, f) ==
    LET d == FunctionAt(Answering(s, f))
    IN  [slot |-> s, function |-> f,
         vendor |-> FunctionAt(Answering(s, 0)).vendor, device |-> d.device,
         class |-> d.class, header |-> d.header, mf |-> Multi(s),
         bar_address |-> bar_registers[Answering(s, f)],
         bar_sizes |-> [b \in Bars |-> 0]]

\* One round of pci_scan_devices, up to pci_get_memory_size, with its panic at a
\* header of another type
Probe ==
    /\ step = "probe"
    /\ \/ ~Present(slot, func) /\ NextFunction /\ UNCHANGED <<config, bar, lst_pci_devices>>
       \/ Present(slot, func) /\ ~Fits(CONFIG_SIZE) /\ NoMemory /\ UNCHANGED <<config, bar>>
       \/ /\ Present(slot, func) /\ Fits(CONFIG_SIZE)
          /\ LET c == ReadConfig(slot, func)
             IN  \/ /\ c.header = 0
                    /\ config' = c /\ bar' = 1 /\ step' = "orig"
                    /\ UNCHANGED <<slot, func, lst_pci_devices>>
                 \/ c.header \in 1 .. 2 /\ Insert(c) /\ UNCHANGED <<config, bar>>
                 \/ /\ c.header \notin 0 .. 2 /\ step' = "bad header"
                    /\ UNCHANGED <<slot, func, config, bar, lst_pci_devices>>
    /\ UNCHANGED <<pci_machine, bar_registers, orig, hda>>

ConfigAt == Answering(config.slot, config.function)
WriteBar(v) ==
    bar_registers' = [bar_registers EXCEPT ![ConfigAt][bar] = Kept(FunctionAt(ConfigAt).bars[bar], v)]

\* pci_get_memory_size: the register is read, all ones are written, the size is
\* read and the register is written back.
ReadOrig ==
    /\ step = "orig" /\ step' = "ones"
    /\ orig' = bar_registers[ConfigAt][bar]
    /\ UNCHANGED <<pci_machine, bar_registers, slot, func, bar, config, lst_pci_devices, hda>>

WriteOnes ==
    /\ step = "ones" /\ step' = "size"
    /\ WriteBar(VALUES - 1)
    /\ UNCHANGED <<pci_machine, slot, func, bar, orig, config, lst_pci_devices, hda>>

\* size &= 0xFFFFFFF0; size = ~size; size += 1
Negated(v) == (VALUES - (v - (v % 16))) % VALUES

ReadSize ==
    /\ step = "size" /\ step' = "restore"
    /\ config' = [config EXCEPT !.bar_sizes[bar] = Negated(bar_registers[ConfigAt][bar])]
    /\ UNCHANGED <<pci_machine, bar_registers, slot, func, bar, orig, lst_pci_devices, hda>>

\* Mutant: the size is written back.
Written_back_address == config.bar_sizes[bar]
Written_back == orig

\* With the last register the function is inserted.
Restore ==
    /\ step = "restore"
    /\ WriteBar(Written_back)
    /\ IF bar < NumBars
       THEN bar' = bar + 1 /\ step' = "orig" /\ UNCHANGED <<slot, func, lst_pci_devices>>
       ELSE Insert(config) /\ UNCHANGED bar
    /\ UNCHANGED <<pci_machine, orig, config, hda>>

\* pci_find_custom and its like
Find(Match(_)) == SelectInSeq(lst_pci_devices, Match)

hda_index ==
    LET first == Find(LAMBDA c : <<c.vendor, c.device>> \in FirstPass)
    IN  IF first # 0 THEN first ELSE Find(LAMBDA c : <<c.vendor, c.class>> \in SecondPass)

\* sound_init, with its panic and its assertions
Search ==
    /\ step = "search"
    /\ IF hda_index = 0 THEN step' = "panic" /\ UNCHANGED hda
       ELSE LET c == lst_pci_devices[hda_index]
            IN  /\ hda' = c
                /\ step' = IF c.header = 0 /\ ~c.mf /\ c.bar_sizes[1] = HdaSize
                           THEN "found" ELSE "assert"
    /\ UNCHANGED <<pci_machine, bar_registers, slot, func, bar, orig, config, lst_pci_devices>>

PciNext == Probe \/ ReadOrig \/ WriteOnes \/ ReadSize \/ Restore \/ Search

PciSpec == PciInit /\ [][PciNext]_pci_vars /\ WF_pci_vars(PciNext)
-----------------------------------------------------------------------------
Scanned == step \in {"search", "found", "assert", "panic"}
Passed(s, f) == Scanned \/ s < slot \/ (s = slot /\ f < func)
ScanStopped == step \in {"bad header", "no memory"}
Sizing == step \in {"size", "restore"}

\* Every variable has its type, and the scan does not run over its loops.
PciTypeOK ==
    /\ \A p \in Places, b \in Bars : bar_registers[p][b] \in 0 .. VALUES - 1
    /\ slot \in PciSlots /\ func \in PciFunctions /\ bar \in Bars
    /\ Sizing \/ Scanned \/ ScanStopped \/ step \in {"probe", "orig", "ones"}
    /\ Len(lst_pci_devices) <= NumSlots * NumFunctions

\* Whatever the order of the accesses, a device decodes the addresses the
\* firmware gave it, except for the register that is being sized.
BarsRestored ==
    \A p \in Places, b \in Bars :
        \/ bar_registers[p][b] = AtRest(p)[b]
        \/ Sizing /\ p = ConfigAt /\ b = bar

\* The entry of a function
EntriesOf(p) ==
    {k \in DOMAIN lst_pci_devices :
        Answering(lst_pci_devices[k].slot, lst_pci_devices[k].function) = p}

\* The scan finds every function there is of those it is past, also when it stops
\* half-way, with the addresses the firmware gave it; and once, unless it answers
\* for other numbers as well.  It is past none whose header it does not know.
AllListed ==
    \A p \in Places : FunctionAt(p) # NoFunction /\ Passed(p[1], p[2]) =>
        /\ EntriesOf(p) # {}
        /\ ~pci_machine[p[1]].mirrors => \A j, k \in EntriesOf(p) : j = k
        /\ FunctionAt(p).header \in 0 .. 2
        /\ \A k \in EntriesOf(p) :
               /\ lst_pci_devices[k].device = FunctionAt(p).device
               /\ lst_pci_devices[k].bar_address = AtRest(p)

\* The functions listed have the memory they take, and the scan stops only at a
\* function that is there: for one more there is no room, or its header is of a
\* type that the code does not know.
StopsRight ==
    /\ Taken <= PciRoom[pci_machine]
    /\ ScanStopped => Present(slot, func)
    /\ step = "no memory" => ~Fits(CONFIG_SIZE + NODE_SIZE)
    /\ step = "bad header" => FunctionAt(Answering(slot, func)).header \notin 0 .. 2

\* The size listed of a memory register is the one the device decodes.
SizesRight ==
    \A k \in DOMAIN lst_pci_devices :
        LET c == lst_pci_devices[k]
            bars == FunctionAt(Answering(c.slot, c.function)).bars
        IN  c.header = 0 => \A b \in Bars :
                /\ bars[b].kind = "memory" => c.bar_sizes[b] = bars[b].size
                /\ bars[b].kind = "none" => c.bar_sizes[b] = 0

Known(p) == FunctionAt(p) # NoFunction /\ <<FunctionAt(p).vendor, FunctionAt(p).device>> \in FirstPass

\* The driver takes a controller that it knows if the machine has one, and else
\* one of the class.
HdaFound ==
    step \in {"found", "assert", "panic"} =>
        IF \E p \in Places : Known(p)
        THEN hda # <<>> /\ Known(Answering(hda.slot, hda.function))
        ELSE \/ hda # <<>> /\ <<hda.vendor, hda.class>> \in SecondPass
             \/ /\ hda = <<>>
                /\ \A p \in Places : FunctionAt(p) # NoFunction =>
                       <<FunctionAt(p).vendor, FunctionAt(p).class>> \notin SecondPass

\* The list is what is on the bus, and the scan leaves the bus as it was.
\* (HdaFound is of what the driver asks the list for: a function whose vendor
\* is not the one of function 0 would be listed under the wrong one.)
DevicesListed ==
    PciTypeOK /\ BarsRestored /\ AllListed /\ SizesRight /\ StopsRight /\ HdaFound

\* The scan ends: in sound_init, or where it stops.
ScanEnds == <>(ScanStopped \/ step \in {"found", "assert", "panic"})
=============================================================================
