----------------------------- MODULE SoundPaths -----------------------------
(***************************************************************************)
(* How the sound driver (sound.c) finds its way through a codec:           *)
(* hda_enumerate_codecs reads the widgets of the first audio function      *)
(* group, and hda_setup_connections searches, from every pin complex, a    *)
(* path to an output converter.  The recursion of hda_dfs is a stack of    *)
(* frames.  A verb is one step: CommandRing shows that poll_command is a   *)
(* remote call.                                                            *)
(***************************************************************************)
EXTENDS Naturals, Sequences, SequencesExt

CONSTANTS
    Machines,           \* the codecs a machine may have, by their address
    MAX_CODECS,         \* 8
    MaxFrames           \* calls of hda_dfs that fit on the kernel's stack

\* A codec is a sequence of function groups, a group whether it is for audio and
\* a sequence of widgets.  A widget's connections are nodes.
Widget == [node : Nat, type : {"out", "in", "mixer", "pin"}, conns : Seq(Nat)]
Codec == Seq([afg : BOOLEAN, widgets : Seq(Widget)])

SoundPathsAssumption ==
    /\ MAX_CODECS \in Nat \ {0} /\ MaxFrames \in Nat \ {0}
    /\ \A m \in Machines : DOMAIN m \subseteq 0 .. MAX_CODECS - 1

VARIABLES
    machine,
    at,                 \* "codecs", "groups", "widgets", "pins", "dfs", "found",
                        \* "failed" (hda_dfs returns 1 or 0), "done",
                        \* "no answer", "assertion" or "overflow"
    i, cad, g,          \* the loop variables of hda_enumerate_codecs
    hda_afg,            \* its codec and its widgets
    pin,                \* the loop variable of hda_setup_connections
    frames,             \* the calls of hda_dfs: a widget and the connections left
    path,
    lst_outputs

vars == <<machine, at, i, cad, g, hda_afg, pin, frames, path, lst_outputs>>

Begin ==
    /\ at = "codecs" /\ i = 0 /\ cad = 0 /\ g = 1
    /\ hda_afg = [codec |-> 0, widgets |-> <<>>]    \* static memory is 0
    /\ pin = 1 /\ frames = <<>> /\ path = <<>> /\ lst_outputs = <<>>

Init == machine \in Machines /\ Begin

-----------------------------------------------------------------------------
\* One round of the outer loop.  codecs_available has a bit for codec i, but the
\* verbs are for cad; poll_command waits forever for a codec that is not there.
NextCodec ==
    /\ at = "codecs"
    /\ IF i >= MAX_CODECS THEN at' = "pins" /\ UNCHANGED <<i, cad, g>>
       ELSE IF i \notin DOMAIN machine
       THEN i' = i + 1 /\ cad' = cad + 1 /\ UNCHANGED <<at, g>>
       ELSE /\ at' = IF cad \in DOMAIN machine THEN "groups" ELSE "no answer"
            /\ g' = 1 /\ UNCHANGED <<i, cad>>
    /\ UNCHANGED <<machine, hda_afg, pin, frames, path, lst_outputs>>

\* Where the loop over the groups goes on when the audio group was found
LeaveAt == Len(machine[cad]) + 1

\* One round of the inner loop
NextGroup ==
    /\ at = "groups"
    /\ IF g > Len(machine[cad])
       THEN at' = "codecs" /\ i' = i + 1 /\ cad' = cad + 1 /\ UNCHANGED <<g, hda_afg>>
       ELSE IF machine[cad][g].afg
       THEN at' = "widgets" /\ hda_afg' = [codec |-> cad, widgets |-> <<>>] /\ UNCHANGED <<i, cad, g>>
       ELSE g' = g + 1 /\ UNCHANGED <<at, i, cad, hda_afg>>
    /\ UNCHANGED <<machine, pin, frames, path, lst_outputs>>

\* The list read_audio_widget makes of a connection list: each entry is inserted
\* at the head.
lst_conn(widget) == Reverse(widget.conns)

\* read_audio_widget for the next widget.  When they are all there the address
\* becomes 8, which was to end both loops.
ReadWidget ==
    /\ at = "widgets"
    /\ LET widgets == machine[hda_afg.codec][g].widgets
           n == Len(hda_afg.widgets)
       IN  IF n < Len(widgets)
           THEN /\ hda_afg' = [hda_afg EXCEPT !.widgets =
                                  Append(@, [widgets[n + 1] EXCEPT !.conns = lst_conn(widgets[n + 1])])]
                /\ UNCHANGED <<at, i, cad, g>>
           ELSE IF LeaveAt > Len(machine[cad])
           THEN at' = "codecs" /\ i' = i + 1 /\ cad' = MAX_CODECS + 1 /\ UNCHANGED <<g, hda_afg>>
           ELSE at' = "groups" /\ g' = LeaveAt /\ UNCHANGED <<i, cad, hda_afg>>
    /\ UNCHANGED <<machine, pin, frames, path, lst_outputs>>

Widgets == hda_afg.widgets
\* find_widget
found(node) == {k \in 1 .. Len(Widgets) : Widgets[k].node = node}

\* The call of hda_dfs for a widget
Call(w, calls) ==
    IF w.type = "out"
    THEN path' = <<w.node>> \o path /\ at' = "found" /\ frames' = calls
    ELSE IF w.conns = <<>>
    THEN at' = "failed" /\ frames' = calls /\ UNCHANGED path
    ELSE IF Len(calls) = MaxFrames
    THEN at' = "overflow" /\ UNCHANGED <<frames, path>>
    ELSE at' = "dfs" /\ frames' = Append(calls, [aw |-> w, left |-> w.conns]) /\ UNCHANGED path

\* hda_setup_connections starts a search from a pin complex.
NextPin ==
    /\ at = "pins"
    /\ IF pin > Len(Widgets) THEN at' = "done" /\ UNCHANGED <<pin, frames, path>>
       ELSE IF Widgets[pin].type # "pin"
       THEN pin' = pin + 1 /\ UNCHANGED <<at, frames, path>>
       ELSE Call(Widgets[pin], <<>>) /\ UNCHANGED pin
    /\ UNCHANGED <<machine, i, cad, g, hda_afg, lst_outputs>>

\* hda_dfs calls itself for the next connection, which must be a widget of the
\* group.
Recurse ==
    /\ at = "dfs"
    /\ LET node == Head(Last(frames).left) IN
        IF found(node) = {} THEN at' = "assertion" /\ UNCHANGED <<frames, path>>
        ELSE Call(Widgets[CHOOSE k \in found(node) : \A l \in found(node) : k <= l], frames)
    /\ UNCHANGED <<machine, i, cad, g, hda_afg, pin, lst_outputs>>

\* Mutant: the loop does not advance.
Left_same(left) == left
Left(left) == Tail(left)

\* A call returned 0: the caller goes on, or returns 0 itself.
ReturnFailed ==
    /\ at = "failed"
    /\ IF frames = <<>> THEN at' = "pins" /\ pin' = pin + 1 /\ UNCHANGED frames
       ELSE LET left == Left(Last(frames).left) IN
            IF left = <<>>
            THEN frames' = Front(frames) /\ UNCHANGED <<at, pin>>
            ELSE /\ frames' = [frames EXCEPT ![Len(frames)].left = left]
                 /\ at' = "dfs" /\ UNCHANGED pin
    /\ UNCHANGED <<machine, i, cad, g, hda_afg, path, lst_outputs>>

\* Mutant: a widget is added behind the others.
Added_behind(node) == Append(path, node)
Added(node) == <<node>> \o path

\* list_init(&path, ...) before a search
new_path == <<>>

\* A call returned 1: the caller adds itself to the path; in the end the path is
\* one of the outputs.
ReturnFound ==
    /\ at = "found"
    /\ IF frames # <<>>
       THEN /\ path' = Added(Last(frames).aw.node) /\ frames' = Front(frames)
            /\ UNCHANGED <<at, pin, lst_outputs>>
       ELSE /\ lst_outputs' = <<path>> \o lst_outputs
            /\ path' = new_path /\ pin' = pin + 1 /\ at' = "pins" /\ UNCHANGED frames
    /\ UNCHANGED <<machine, i, cad, g, hda_afg>>

Next ==
    NextCodec \/ NextGroup \/ ReadWidget \/ NextPin \/ Recurse \/ ReturnFailed \/ ReturnFound

Spec == Init /\ [][Next]_vars /\ WF_vars(Next)
-----------------------------------------------------------------------------
\* Every variable has its type, and a path is being made only below a pin.
TypeOK ==
    /\ at \in {"codecs", "groups", "widgets", "pins", "dfs", "found", "failed", "done",
               "no answer", "assertion", "overflow"}
    /\ i \in 0 .. MAX_CODECS /\ cad \in 0 .. 2 * MAX_CODECS
    /\ Len(frames) <= MaxFrames
    /\ frames # <<>> => frames[1].aw = Widgets[pin] /\ \A f \in Range(frames) : f.left # <<>>
    /\ at # "found" => path = <<>>

Connected(a, b) ==
    \E v, w \in Range(Widgets) : v.node = a /\ w.node = b /\ b \in Range(v.conns)
OfType(node, type) == \E w \in Range(Widgets) : w.node = node /\ w.type = type

\* An output leads from a pin over connected widgets to a converter, and passes no
\* other converter.
PathsConnect ==
    \A p \in Range(lst_outputs) :
        /\ OfType(p[1], "pin")
        /\ \A k \in 1 .. Len(p) : OfType(p[k], "out") <=> k = Len(p)
        /\ \A k \in 1 .. Len(p) - 1 : Connected(p[k], p[k + 1])

\* The nodes from which a converter can be reached in n steps
Leading ==
    LET leads[n \in 0 .. Len(Widgets)] ==
            IF n = 0 THEN {w.node : w \in {v \in Range(Widgets) : v.type = "out"}}
            ELSE leads[n - 1] \cup
                     {w.node : w \in {v \in Range(Widgets) : Range(v.conns) \cap leads[n - 1] # {}}}
    IN leads[Len(Widgets)]

\* Every pin from which there is a way to a converter gets one output, and no
\* other pin does.
EveryPinRouted ==
    at = "done" =>
        [k \in 1 .. Len(lst_outputs) |-> lst_outputs[k][1]] =
            Reverse(SelectSeq([k \in 1 .. Len(Widgets) |-> Widgets[k].node],
                              LAMBDA n : OfType(n, "pin") /\ n \in Leading))

\* The group is the first audio group of the first codec that has one.
FirstGroup ==
    at = "pins" =>
        \/ Widgets = <<>>
        \/ /\ \A c \in DOMAIN machine : c < hda_afg.codec =>
                  \A h \in DOMAIN machine[c] : ~machine[c][h].afg
           /\ \E h \in DOMAIN machine[hda_afg.codec] :
                  /\ machine[hda_afg.codec][h].afg
                  /\ \A f \in 1 .. h - 1 : ~machine[hda_afg.codec][f].afg
                  /\ [k \in 1 .. Len(Widgets) |-> Widgets[k].node] =
                         [k \in DOMAIN machine[hda_afg.codec][h].widgets |->
                              machine[hda_afg.codec][h].widgets[k].node]

\* A widget of the group reaches itself.
Cyclic ==
    LET next(nodes) == UNION {Range(w.conns) : w \in {v \in Range(Widgets) : v.node \in nodes}}
    IN  \E w \in Range(Widgets) :
            LET reached[n \in 0 .. Len(Widgets)] ==
                    IF n = 0 THEN next({w.node}) ELSE reached[n - 1] \cup next(reached[n - 1])
            IN  w.node \in reached[Len(Widgets)]

\* The two ways to hang have their causes: the recursion runs out of stack only
\* in a cycle of connections, and a codec that is not there is asked only if one
\* comes after the codec with the audio group.
HangsExplained ==
    /\ at = "overflow" => Cyclic
    /\ at = "no answer" =>
           \E c, d \in DOMAIN machine : c < d /\ \E h \in DOMAIN machine[c] : machine[c][h].afg

\* The outputs are paths through the right group, one for each pin that has one.
PathsRight == TypeOK /\ PathsConnect /\ EveryPinRouted /\ FirstGroup /\ HangsExplained

\* The enumeration and the search end, or hang in one of these two ways.
Finishes == <>(at \in {"done", "assertion", "no answer", "overflow"})
=============================================================================
