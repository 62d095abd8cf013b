---------------------------- MODULE CommandRing ----------------------------
(***************************************************************************)
(* The sound driver's two ring buffers (sound.c): the CORB, in which it    *)
(* sends verbs to the codec, and the RIRB, in which the responses arrive.  *)
(* The controller fetches and answers concurrently with the driver.        *)
(***************************************************************************)
EXTENDS Naturals, Sequences

CONSTANTS
    Verbs, Answer(_),       \* what the codec answers to a verb
    NONE,
    Entries                 \* the entries a ring has by its capability bits

ASSUME CommandRingAssumption ==
    /\ DOMAIN Entries = {"small", "medium", "large"}
    /\ \A c \in DOMAIN Entries : Entries[c] \in Nat \ {0, 1} /\ Entries[c] <= Entries["large"]
    /\ NONE \notin Verbs

VARIABLES
    caps,                   \* the sizes each ring supports (CORBSIZE, RIRBSIZE)
    corb, CORBWP, CORBRP, corb_entries, corb_run,
    rirb, RIRBWP, rirb_entries, rirb_run,
    RIRBSTS,                \* a response has not been acknowledged
    inside,                 \* the verbs the codec has fetched and not answered
    read_ptr,               \* hda_rirb.read_ptr
    at,                     \* where the driver is
    verb, corb_wp, response \* the locals of poll_command

registers == <<caps, corb_entries, rirb_entries, corb_run, rirb_run>>
ring == <<corb, CORBWP, CORBRP, rirb, RIRBWP, RIRBSTS, inside>>
vars == <<registers, ring, read_ptr, at, verb, corb_wp, response>>

Slots == 0 .. Entries["large"] - 1

\* After hda_reset_controller: the rings are stopped and no response is waiting.
\* Where the pointers are is not relied on.
Init ==
    /\ caps \in [corb : SUBSET DOMAIN Entries \ {{}}, rirb : SUBSET DOMAIN Entries \ {{}}]
    /\ corb_entries = Entries["small"] /\ rirb_entries = Entries["small"]
    /\ corb_run = FALSE /\ rirb_run = FALSE
    /\ corb = [s \in Slots |-> NONE] /\ rirb = [s \in Slots |-> NONE]
    /\ CORBWP \in {0, 1} /\ CORBRP \in {0, 1} /\ RIRBWP \in {0, 1}
    /\ RIRBSTS = FALSE
    /\ inside = <<>>
    /\ read_ptr = 0
    /\ at = "setup corb"
    /\ verb = NONE /\ corb_wp = 0 /\ response = NONE

-----------------------------------------------------------------------------
\* The larger sizes are preferred; the smallest is taken without a look at its
\* bit.
chosen(supported) ==
    IF "large" \in supported THEN Entries["large"]
    ELSE IF "medium" \in supported THEN Entries["medium"]
    ELSE Entries["small"]

\* hda_setup_corb
SetupCorb ==
    /\ at = "setup corb" /\ at' = "setup rirb"
    /\ corb_entries' = chosen(caps.corb)
    /\ CORBRP' = 0 /\ CORBWP' = 0
    /\ UNCHANGED <<caps, rirb_entries, corb_run, rirb_run, corb, rirb, RIRBWP, RIRBSTS,
                   inside, read_ptr, verb, corb_wp, response>>

\* Mutant: the write pointer of the responses is not reset.
reset_rirb_wp_not == RIRBWP
reset_rirb_wp == 0

\* hda_setup_rirb
SetupRirb ==
    /\ at = "setup rirb" /\ at' = "enable"
    /\ rirb_entries' = chosen(caps.rirb)
    /\ read_ptr' = 0 /\ RIRBWP' = reset_rirb_wp
    /\ UNCHANGED <<caps, corb_entries, corb_run, rirb_run, corb, CORBWP, CORBRP, rirb, RIRBSTS,
                   inside, verb, corb_wp, response>>

\* hda_enable_corb_dma and hda_enable_rirb_dma, at the start of the enumeration
EnableDma ==
    /\ at = "enable" /\ at' = "idle"
    /\ corb_run' = TRUE /\ rirb_run' = TRUE
    /\ UNCHANGED <<caps, corb_entries, rirb_entries, ring, read_ptr, verb, corb_wp, response>>

ring_buffer_size(readptr, writeptr, size) ==
    IF readptr > writeptr THEN readptr - writeptr ELSE size - (writeptr - readptr)

\* The driver's next index in a ring
after(ptr, n) == (ptr + 1) % n

\* poll_command is called, and corb_send_command reads the pointers until there
\* is space.
StartSend(v) ==
    /\ at = "idle"
    /\ ring_buffer_size(CORBRP, CORBWP, corb_entries) >= 1
    /\ verb' = v /\ response' = NONE
    /\ corb_wp' = after(CORBWP, corb_entries)
    /\ at' = "write entry"
    /\ UNCHANGED <<registers, ring, read_ptr>>

\* Mutant: the write pointer is advanced before the command is there.
Written_late(e, p) == IF e = "entry" THEN p = "write pointer" ELSE p = "write entry"
\* Which of the two writes is made at a place
Written(e, p) == IF e = "entry" THEN p = "write entry" ELSE p = "write pointer"

\* corb_send_command stores the command and then advances CORBWP.
Send ==
    /\ at \in {"write entry", "write pointer"}
    /\ corb' = IF Written("entry", at) THEN [corb EXCEPT ![corb_wp] = verb] ELSE corb
    /\ CORBWP' = IF Written("pointer", at) THEN corb_wp ELSE CORBWP
    /\ at' = IF at = "write entry" THEN "write pointer" ELSE "poll"
    /\ UNCHANGED <<registers, CORBRP, rirb, RIRBWP, RIRBSTS, inside, read_ptr, verb, corb_wp,
                   response>>

rirb_has_responses == rirb_entries - ring_buffer_size(read_ptr, RIRBWP, rirb_entries) > 0

Poll ==
    /\ at = "poll" /\ rirb_has_responses
    /\ at' = "read"
    /\ UNCHANGED <<registers, ring, read_ptr, verb, corb_wp, response>>

\* rirb_read_response
Read ==
    /\ at = "read" /\ at' = "idle"
    /\ RIRBSTS' = FALSE
    /\ read_ptr' = after(read_ptr, rirb_entries)
    /\ response' = rirb[read_ptr']
    /\ verb' = NONE
    /\ UNCHANGED <<registers, corb, CORBWP, CORBRP, rirb, RIRBWP, inside, corb_wp>>

\* The controller fetches a command.
Fetch ==
    /\ corb_run /\ CORBRP # CORBWP
    /\ CORBRP' = (CORBRP + 1) % corb_entries
    /\ inside' = Append(inside, corb[CORBRP'])
    /\ UNCHANGED <<registers, corb, CORBWP, rirb, RIRBWP, RIRBSTS, read_ptr, at, verb, corb_wp,
                   response>>

\* The controller delivers a response and raises the flag.  With RINTCNT = 1 it
\* delivers no other until the flag is cleared.
Respond ==
    /\ rirb_run /\ inside # <<>> /\ ~RIRBSTS
    /\ RIRBWP' = (RIRBWP + 1) % rirb_entries
    /\ rirb' = [rirb EXCEPT ![RIRBWP'] = IF Head(inside) = NONE THEN NONE ELSE Answer(Head(inside))]
    /\ RIRBSTS' = TRUE
    /\ inside' = Tail(inside)
    /\ UNCHANGED <<registers, corb, CORBWP, CORBRP, read_ptr, at, verb, corb_wp, response>>

Setup == SetupCorb \/ SetupRirb \/ EnableDma
Driver == Setup \/ Send \/ Poll \/ Read
Codec == Fetch \/ Respond
Next == Driver \/ Codec \/ \E v \in Verbs : StartSend(v)

\* The driver runs without interruption and the controller does its work.
Spec == Init /\ [][Next]_vars /\ WF_vars(Driver) /\ WF_vars(Fetch) /\ WF_vars(Respond)
-----------------------------------------------------------------------------
\* Every variable has its type, and the pointers stay inside their rings.
TypeOK ==
    /\ {corb_entries, rirb_entries} \subseteq {Entries[c] : c \in DOMAIN Entries}
    /\ corb \in [Slots -> Verbs \cup {NONE}]
    /\ at \in {"idle", "write entry", "write pointer", "poll", "read"} =>
           /\ {CORBWP, CORBRP, corb_wp} \subseteq 0 .. corb_entries - 1
           /\ {RIRBWP, read_ptr} \subseteq 0 .. rirb_entries - 1
    /\ verb \in Verbs \cup {NONE}

\* A command is not overwritten, and not fetched before it is complete: what the
\* codec has, or will fetch next, is the verb of the call.
CommandsIntact ==
    /\ \A k \in 1 .. Len(inside) : inside[k] = verb
    /\ at = "poll" /\ CORBRP # CORBWP => corb[CORBWP] = verb /\ (CORBRP + 1) % corb_entries = CORBWP

\* The driver sees a response exactly when the codec has delivered one it has
\* not read.
SeesResponses ==
    at = "poll" => (rirb_has_responses <=> CORBRP = CORBWP /\ inside = <<>>)

\* What the driver and the codec write, the other finds.
RingsIntact == TypeOK /\ CommandsIntact /\ SeesResponses

\* Each call returns the response to its own verb, and it returns.
Abstract == INSTANCE RemoteCall WITH pending <- verb
IsRemoteCall == Abstract!Spec
=============================================================================
