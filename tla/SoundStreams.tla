---------------------------- MODULE SoundStreams ----------------------------
(***************************************************************************)
(* Playing a sound (sound.c): hda_setup_streams makes the buffers of each  *)
(* stream, hda_test_sound opens the path from the converter to the pin,    *)
(* programs a stream's registers and starts it.  The controller is a set   *)
(* of registers that are cleared while a stream is reset.  There is memory *)
(* for the buffers.                                                        *)
(***************************************************************************)
EXTENDS Naturals, Sequences, SequencesExt

CONSTANTS
    Outputs,            \* what hda_setup_connections may have found
    MaxOut, MaxIn       \* how many streams of each kind a controller has at most

\* A path is a sequence of widgets: the kind, where "mixer" stands for every kind
\* hda_test_sound does nothing with, whether there is an amplifier at the output,
\* and whether a pin can be an output.
WidgetOf == [type : {"pin", "mixer", "out"}, amp : BOOLEAN, output_capable : BOOLEAN]

\* hda_dfs ends a path at the first converter (see SoundPaths).
PathOf == {p \in Seq(WidgetOf) : \A k \in 1 .. Len(p) : p[k].type = "out" <=> k = Len(p)}

ASSUME SoundStreamsAssumption ==
    /\ MaxOut \in Nat \ {0} /\ MaxIn \in Nat
    /\ Outputs \subseteq Seq(PathOf)

VARIABLES
    num_out, num_in,    \* hda_num_output_streams, hda_num_input_streams
    lst_outputs,
    play_at,            \* "setup", "amp", "kind", then configure_stream: "tag",
                        \* "stop", "reset", "program", then "fill", "start",
                        \* "playing", "assertion", "page fault" or "null"
    lst_streams,        \* hda_lst_streams
    pages,              \* the frame of each page that was mapped
    memory,             \* what is in each frame
    node,               \* the index of the widget on the path
    unmuted, enabled,   \* the widgets whose amplifier is set, the pins that are on
    converter,          \* the stream the converter listens to
    reg                 \* the stream registers

streams_vars == <<num_out, num_in, lst_outputs, play_at, lst_streams, pages, memory, node,
                  unmuted, enabled, converter, reg>>

Off == [run |-> FALSE, reset |-> FALSE, tag |-> 0, bdl |-> 0, last |-> 0]
\* The k-th page of the stream data and of the buffer descriptor lists
DataPage(k) == <<"data", k>>
BdlPage(k) == <<"bdl", k>>

\* The firmware may have left a stream running.
StreamsBegin ==
    /\ play_at = "setup"
    /\ lst_streams = <<>> /\ pages = <<>> /\ memory = <<>>
    /\ node = 1 /\ unmuted = {} /\ enabled = {} /\ converter = 0
    /\ reg \in [0 .. num_out + num_in - 1 -> {Off, [Off EXCEPT !.run = TRUE, !.tag = 1]}]

StreamsInit ==
    /\ num_out \in 0 .. MaxOut /\ num_in \in 0 .. MaxIn
    /\ lst_outputs \in Outputs
    /\ StreamsBegin

-----------------------------------------------------------------------------
\* One round of hda_setup_streams.  The addresses are advanced before they are
\* stored.
SetupStream ==
    /\ play_at = "setup" /\ num_out >= 1 /\ Len(lst_streams) < num_out
    /\ LET n == Len(lst_streams)
           data == 2 * n + 1
           bdl == 2 * n + 2
       IN  /\ pages' = [p \in DOMAIN pages \cup {DataPage(n), BdlPage(n)} |->
                            IF p = DataPage(n) THEN data ELSE IF p = BdlPage(n) THEN bdl ELSE pages[p]]
           /\ memory' = memory \o <<"other", "other">>
           /\ lst_streams' = <<[number |-> n, data_address |-> DataPage(n + 1), data_phys |-> data,
                                bdl_address |-> BdlPage(n + 1), bdl_phys |-> bdl]>> \o lst_streams
    /\ UNCHANGED <<num_out, num_in, lst_outputs, play_at, node, unmuted, enabled, converter, reg>>

\* hda_test_sound takes the second output of the list, whatever its length.
StartTest ==
    /\ play_at = "setup" /\ Len(lst_streams) = num_out
    /\ play_at' = IF num_out = 0 \/ lst_outputs = <<>> THEN "assertion"
             ELSE IF Len(lst_outputs) = 1 THEN "null"
             ELSE IF lst_outputs[2] = <<>> THEN "assertion" ELSE "amp"
    /\ UNCHANGED <<num_out, num_in, lst_outputs, lst_streams, pages, memory, node, unmuted,
                   enabled, converter, reg>>

route == lst_outputs[2]
\* The stream that is played is the tail of the list, the first that was made.
stream == Last(lst_streams)

\* stream_get_sreg
sreg == stream.number + num_in

\* Mutant: the streams are numbered from 0, which no converter listens to.
tag_zero == stream.number
tag == stream.number + 1

SetReg(r) == reg' = [reg EXCEPT ![sreg] = r]

Advance ==
    IF node = Len(route) THEN play_at' = "start" /\ UNCHANGED node
    ELSE play_at' = "amp" /\ node' = node + 1

VisitAmp ==
    /\ play_at = "amp" /\ play_at' = "kind"
    /\ unmuted' = IF route[node].amp THEN unmuted \cup {node} ELSE unmuted
    /\ UNCHANGED <<num_out, num_in, lst_outputs, lst_streams, pages, memory, node, enabled,
                   converter, reg>>

VisitKind ==
    /\ play_at = "kind"
    /\ \/ /\ route[node].type = "pin"
          /\ IF route[node].output_capable
             THEN enabled' = enabled \cup {node} /\ Advance
             ELSE play_at' = "assertion" /\ UNCHANGED <<enabled, node>>
          /\ UNCHANGED converter
       \/ /\ route[node].type = "out"
          /\ converter' = tag /\ play_at' = "tag"
          /\ UNCHANGED <<enabled, node>>
       \/ /\ route[node].type = "mixer"
          /\ Advance /\ UNCHANGED <<enabled, converter>>
    /\ UNCHANGED <<num_out, num_in, lst_outputs, lst_streams, pages, memory, unmuted, reg>>

ResetRegister(r) == [Off EXCEPT !.run = r.run]

\* Mutant: the stream is not stopped.
Stopped_not(r) == r
Stopped(r) == [r EXCEPT !.run = FALSE]

\* configure_stream: the number, the stop, the reset, and the registers that a
\* stopped stream keeps
Configure ==
    /\ \/ /\ play_at = "tag" /\ play_at' = "stop"
          /\ SetReg([reg[sreg] EXCEPT !.tag = tag, !.reset = TRUE])
       \/ /\ play_at = "stop" /\ play_at' = "reset"
          /\ SetReg(Stopped(reg[sreg]))
       \/ /\ play_at = "reset" /\ play_at' = "program"
          /\ SetReg(ResetRegister(reg[sreg]))
       \/ /\ play_at = "program" /\ play_at' = "fill"
          /\ SetReg([reg[sreg] EXCEPT !.tag = tag, !.bdl = stream.bdl_phys])
    /\ UNCHANGED <<num_out, num_in, lst_outputs, lst_streams, pages, memory, node, unmuted,
                   enabled, converter>>

\* The descriptors and the music are written at the stream's addresses.
Fill ==
    /\ play_at = "fill"
    /\ IF {stream.bdl_address, stream.data_address} \subseteq DOMAIN pages
       THEN /\ memory' = [memory EXCEPT ![pages[stream.bdl_address]] = <<stream.data_phys>>,
                                        ![pages[stream.data_address]] = "music"]
            /\ SetReg([reg[sreg] EXCEPT !.last = 1])
            /\ Advance
       ELSE play_at' = "page fault" /\ UNCHANGED <<memory, reg, node>>
    /\ UNCHANGED <<num_out, num_in, lst_outputs, lst_streams, pages, unmuted, enabled, converter>>

\* stream_enable
Start ==
    /\ play_at = "start" /\ play_at' = "playing"
    /\ SetReg([reg[sreg] EXCEPT !.run = TRUE])
    /\ UNCHANGED <<num_out, num_in, lst_outputs, lst_streams, pages, memory, node, unmuted,
                   enabled, converter>>

StreamsNext == SetupStream \/ StartTest \/ VisitAmp \/ VisitKind \/ Configure \/ Fill \/ Start

StreamsSpec == StreamsInit /\ [][StreamsNext]_streams_vars
-----------------------------------------------------------------------------
\* Every variable has its type; each frame belongs to one page, and the streams'
\* numbers are the order in which they were made.
StreamsTypeOK ==
    /\ play_at \in {"setup", "amp", "kind", "tag", "stop", "reset", "program", "fill", "start",
               "playing", "assertion", "page fault", "null"}
    /\ IsInjective(pages) /\ Range(pages) = 1 .. Len(memory)
    /\ \A k \in 1 .. Len(lst_streams) : lst_streams[k].number = Len(lst_streams) - k
    /\ DOMAIN reg = 0 .. num_out + num_in - 1
    /\ play_at \in {"tag", "stop", "reset", "program", "fill"} => sreg >= num_in

\* When the sound plays, the way is open: every amplifier on it is set, its pin
\* is on, and the converter listens to the output stream that is running, which
\* is not stream 0.
RouteOpen ==
    StreamsTypeOK /\ (play_at = "playing" =>
        /\ \A k \in 1 .. Len(route) :
            /\ route[k].amp => k \in unmuted
            /\ route[k].type = "pin" => k \in enabled
        /\ converter # 0
        /\ \E r \in num_in .. num_in + num_out - 1 : reg[r].run /\ reg[r].tag = converter)

\* The buffer of a stream is set only while the stream is stopped and out of
\* reset, and it keeps it until it runs.
ProgrammedStopped ==
    [][\A r \in DOMAIN reg :
        /\ reg'[r].bdl # reg[r].bdl => ~reg[r].run /\ ~reg[r].reset
        /\ play_at' = "playing" /\ r = sreg => reg[r].bdl # 0]_streams_vars
=============================================================================
