------------------------------ MODULE MrpStart ------------------------------
(***************************************************************************)
(* Loading and unloading the MRP driver: mrp_init and cleanup_module of     *)
(* drivers/char/ps2mrp-psnet.c, request_irq and free_irq of the kernel, and *)
(* the power driver's timer, which resets the interface of the first board. *)
(*                                                                         *)
(* The module runs in a process that is not preempted.  Interrupts come at  *)
(* any point of it: the power timer, and a line's handlers.                 *)
(***************************************************************************)
EXTENDS Integers, Sequences, SequencesExt

CONSTANTS
    MRP_UNIT_MAX,  \* units are 0 .. MRP_UNIT_MAX - 1
    Lines,         \* interrupt lines
    Offset         \* the base registers whose address is not a page's

Units == 0 .. MRP_UNIT_MAX - 1
Bases == {"base0", "base2", "regs"}
Optional == {"base4"}   \* a unit does without this mapping
Bufs == {"sendbuf", "recvbuf"}
PowUnit == 0       \* the board powctrl_init has found

ASSUME ConstAssumption ==
    MRP_UNIT_MAX \in Nat \ {0} /\ Lines # {} /\ Offset \subseteq Bases

VARIABLES
    flags,     \* MRPF_DETECT and MRPF_VALID of each unit
    ptr,       \* the unit's pointers that are not null
    irq,       \* the line of each board
    chain,     \* irq_action: [dev, fast, share] in the order of calling
    maps, mem, \* mappings and buffers the kernel holds for the driver
    major,     \* mrp_major is positive
    pif,       \* idk50 bits 30 ("rst") and 5 ("off"), idk4c bit 6 ("on")
    temp,      \* the word a statement has loaded and not yet stored
    enable,    \* powctrl_timer_enable
    pc, unit   \* where the module is, and with which unit

pifs == <<pif, temp>>
kernel == <<chain, maps, mem>>
vars == <<flags, ptr, irq, kernel, major, pifs, enable, pc, unit>>

Other == -1                          \* the dev_id of some other driver
Action == [dev : Units \cup {Other}, fast : BOOLEAN, share : BOOLEAN]
Foreign == {<<>>} \cup {<<[dev |-> Other, fast |-> f, share |-> s]>> : f, s \in BOOLEAN}
Up == [rst |-> FALSE, off |-> FALSE, on |-> TRUE]
Words == [rst : BOOLEAN, off : BOOLEAN, on : BOOLEAN]

Init ==
    /\ flags = [u \in Units |-> {}] /\ ptr = [u \in Units |-> {}]
    /\ irq \in [Units -> Lines] /\ chain \in [Lines -> Foreign]
    /\ maps = {} /\ mem = {} /\ major = FALSE
    /\ pif = [u \in Units |-> [rst |-> FALSE, off |-> TRUE, on |-> FALSE]]
    /\ temp = Up /\ enable \in BOOLEAN
    /\ pc = "unloaded" /\ unit = 0

Goto(l) == pc' = l
\* The next turn of a loop over the units, or what follows it.
NextUnit(l, after) ==
    IF unit + 1 < MRP_UNIT_MAX THEN unit' = unit + 1 /\ pc' = l
                               ELSE unit' = 0 /\ pc' = after

----------------------------------------------------------------------------
(* mrp_init, first loop.                                                    *)

\* The module's data are cleared with every load.
Load ==
    /\ pc = "unloaded" /\ maps = {}   \* bound: no load after a leak
    /\ flags' = [u \in Units |-> {}] /\ ptr' = [u \in Units |-> {}]
    /\ major' = FALSE /\ unit' = 0 /\ Goto("probe")
    /\ UNCHANGED <<irq, kernel, pifs, enable>>

\* pcibios_find_device has no further board.
NoBoard ==
    /\ pc = "probe" /\ unit' = 0 /\ Goto("register")
    /\ UNCHANGED <<flags, ptr, irq, kernel, major, pifs, enable>>

\* A board: some of the mappings are made, in this order, and kept in any case.
Probe ==
    /\ pc = "probe"
    /\ \E got \in {{}, {"base0"}, {"base0", "base2"}, Bases, Bases \cup Optional}, ok \in BOOLEAN :
         /\ ok => Bases \subseteq got
         /\ ptr' = [ptr EXCEPT ![unit] = got]
         /\ maps' = maps \cup ({unit} \X got)
         /\ flags' = [flags EXCEPT ![unit] = IF ok THEN {"DETECT"} ELSE {}]
    /\ NextUnit("probe", "register")
    /\ UNCHANGED <<irq, chain, mem, major, pifs, enable>>

Register ==
    /\ pc = "register"
    /\ \/ /\ \E u \in Units : "DETECT" \in flags[u]
          /\ major' = TRUE /\ Goto("alloc")
       \/ major' = FALSE /\ Goto("loaded")  \* no board, or no number left
    /\ UNCHANGED <<flags, ptr, irq, kernel, pifs, enable, unit>>

----------------------------------------------------------------------------
(* Second loop: buffers, the interrupt, the interface.                      *)

SkipUnit ==
    /\ pc = "alloc" /\ "DETECT" \notin flags[unit]
    /\ NextUnit("alloc", "loaded")
    /\ UNCHANGED <<flags, ptr, irq, kernel, major, pifs, enable>>

Alloc ==
    /\ pc = "alloc" /\ "DETECT" \in flags[unit]
    /\ \E got \in {{}, {"sendbuf"}, Bufs} :
         /\ ptr' = [ptr EXCEPT ![unit] = @ \cup got]
         /\ mem' = mem \cup ({unit} \X got)
         /\ IF got = Bufs THEN Goto("irq1") /\ UNCHANGED unit
                          ELSE NextUnit("alloc", "loaded")
    /\ UNCHANGED <<flags, irq, chain, maps, major, pifs, enable>>

\* setup_x86_irq: both share, and both run with interrupts in the same way.
Agrees(old, new) == old.share /\ new.share /\ old.fast = new.fast
CanAdd(line, new) == IF chain[line] = <<>> THEN TRUE ELSE Agrees(Head(chain[line]), new)

\* request_irq for the unit; ok is a return of 0.
request_irq(fast, ok) ==
    LET new == [dev |-> unit, fast |-> fast, share |-> TRUE] IN
    /\ ok => CanAdd(irq[unit], new)
    /\ chain' = IF ok THEN [chain EXCEPT ![irq[unit]] = Append(@, new)] ELSE chain

\* It may also fail for want of memory.  mrp_init tries again when it succeeded.
RequestFast ==
    /\ pc = "irq1"
    /\ \/ request_irq(TRUE, TRUE) /\ Goto("irq2")
       \/ request_irq(TRUE, FALSE) /\ Goto("reset1")
    /\ UNCHANGED <<flags, ptr, irq, maps, mem, major, pifs, enable, unit>>

\* Faulty variant of RequestSlow: the lines' types are not compared, and the
\* unit is left behind with two handlers.
RequestSlowAny ==
    /\ pc = "irq2"
    /\ chain' = [chain EXCEPT ![irq[unit]] = Append(@, [dev |-> unit, fast |-> FALSE, share |-> TRUE])]
    /\ NextUnit("alloc", "loaded")
    /\ UNCHANGED <<flags, ptr, irq, maps, mem, major, pifs, enable>>

RequestSlow ==
    /\ pc = "irq2"
    /\ \E ok \in BOOLEAN :
         /\ request_irq(FALSE, ok)
         /\ IF ok THEN NextUnit("alloc", "loaded") ELSE Goto("reset1") /\ UNCHANGED unit
    /\ UNCHANGED <<flags, ptr, irq, maps, mem, major, pifs, enable>>

\* One statement on idk50 or idk4c: a load at l and a store before m, with
\* interrupts possible between them.
LoadWord(l, m) ==
    /\ pc = l /\ temp' = pif[unit] /\ Goto(m)
    /\ UNCHANGED <<flags, ptr, irq, kernel, major, pif, enable, unit>>
StoreWord(l, m, w) ==
    /\ pc = l /\ Goto(m)
    /\ pif' = [pif EXCEPT ![unit] = w]
    /\ UNCHANGED <<flags, ptr, irq, kernel, major, temp, enable, unit>>
\* idk50 and idk4c are words of their own.
Idk50(f, v) == [pif[unit] EXCEPT !.rst = temp.rst, !.off = temp.off, ![f] = v]
Idk4c(v) == [pif[unit] EXCEPT !.on = v]

\* Faulty variant of Reset: the interface is not taken out of reset again.
ResetStuck ==
    \/ LoadWord("reset1", "reset2") \/ StoreWord("reset2", "reset3", Idk50("off", FALSE))
    \/ LoadWord("reset3", "reset4") \/ StoreWord("reset4", "reset7", Idk50("rst", TRUE))
    \/ LoadWord("reset7", "reset8") \/ StoreWord("reset8", "valid", Idk4c(TRUE))

\* Clear bit 5, raise the reset bit, wait, drop it, set the enable bit.
Reset ==
    \/ LoadWord("reset1", "reset2") \/ StoreWord("reset2", "reset3", Idk50("off", FALSE))
    \/ LoadWord("reset3", "reset4") \/ StoreWord("reset4", "reset5", Idk50("rst", TRUE))
    \/ LoadWord("reset5", "reset6") \/ StoreWord("reset6", "reset7", Idk50("rst", FALSE))
    \/ LoadWord("reset7", "reset8") \/ StoreWord("reset8", "valid", Idk4c(TRUE))

SetValid ==
    /\ pc = "valid"
    /\ flags' = [flags EXCEPT ![unit] = @ \cup {"VALID"}]
    /\ NextUnit("alloc", "loaded")
    /\ UNCHANGED <<ptr, irq, kernel, major, pifs, enable>>

----------------------------------------------------------------------------
(* cleanup_module, and the power driver's timer.                            *)

\* Without a major number nothing is undone.
Unload ==
    /\ pc = "loaded" /\ unit' = 0
    /\ IF major THEN Goto("unit") ELSE Goto("unloaded")
    /\ UNCHANGED <<flags, ptr, irq, kernel, major, pifs, enable>>

UnitDown ==
    \/ /\ pc = "unit"
       /\ IF "VALID" \in flags[unit] THEN Goto("off1") ELSE Goto("free")
       /\ UNCHANGED <<flags, ptr, irq, kernel, major, pifs, enable, unit>>
    \/ LoadWord("off1", "off2") \/ StoreWord("off2", "off3", Idk50("off", TRUE))
    \/ LoadWord("off3", "off4") \/ StoreWord("off4", "freeirq", Idk4c(FALSE))

\* free_irq takes the first handler with the unit as its dev_id off the line.
free_irq ==
    /\ pc = "freeirq"
    /\ LET ours == {i \in DOMAIN chain[irq[unit]] : chain[irq[unit]][i].dev = unit} IN
         chain' = IF ours = {} THEN chain
                  ELSE [chain EXCEPT ![irq[unit]] =
                          RemoveAt(@, CHOOSE i \in ours : \A j \in ours : i <= j)]
    /\ Goto("free")
    /\ UNCHANGED <<flags, ptr, irq, maps, mem, major, pifs, enable, unit>>

\* Faulty variant of Free: only a valid unit's memory is given back.
FreeValid ==
    /\ pc = "free"
    /\ IF "VALID" \in flags[unit]
         THEN /\ mem' = mem \ ({unit} \X Bufs)
              /\ maps' = maps \ ({unit} \X (Bases \ Offset))
         ELSE UNCHANGED <<mem, maps>>
    /\ ptr' = [ptr EXCEPT ![unit] = {}]
    /\ NextUnit("unit", "unloaded")
    /\ UNCHANGED <<flags, irq, chain, major, pifs, enable>>

\* kfree and vfree of what the pointers say; vfree refuses an address within a
\* page, which mrp_remap has made of a base that does not begin one, and
\* base4 is forgotten.
Free ==
    /\ pc = "free"
    /\ mem' = mem \ ({unit} \X (ptr[unit] \cap Bufs))
    /\ maps' = maps \ ({unit} \X ((ptr[unit] \cap Bases) \ Offset))
    /\ ptr' = [ptr EXCEPT ![unit] = {}]
    /\ NextUnit("unit", "unloaded")
    /\ UNCHANGED <<flags, irq, chain, major, pifs, enable>>

\* powctrl_observe_status with the timer enabled: a complete reset.
PowTimer ==
    /\ enable
    /\ pif' = [pif EXCEPT ![PowUnit] = Up]
    /\ UNCHANGED <<flags, ptr, irq, kernel, major, temp, enable, pc, unit>>

\* POWCTRL_IOCTIMER of another process, while the module is not running.
IocTimer ==
    /\ pc \in {"loaded", "unloaded"}
    /\ enable' = ~enable
    /\ pif' = [pif EXCEPT ![PowUnit] = Up]
    /\ UNCHANGED <<flags, ptr, irq, kernel, major, temp, pc, unit>>

----------------------------------------------------------------------------
Next ==
    \/ Load \/ NoBoard \/ Probe \/ Register
    \/ SkipUnit \/ Alloc \/ RequestFast \/ RequestSlow \/ Reset \/ SetValid
    \/ Unload \/ UnitDown \/ free_irq \/ Free
    \/ PowTimer \/ IocTimer

Spec == Init /\ [][Next]_vars

----------------------------------------------------------------------------
Handles(l, u) == \E i \in DOMAIN chain[l] : chain[l][i].dev = u

\* The units, the irq chains and the registers of the interface keep their types.
TypeOK ==
    /\ flags \in [Units -> SUBSET {"DETECT", "VALID"}]
    /\ ptr \in [Units -> SUBSET (Bases \cup Optional \cup Bufs)]
    /\ irq \in [Units -> Lines] /\ chain \in [Lines -> Seq(Action)]
    /\ maps \subseteq Units \X (Bases \cup Optional) /\ mem \subseteq Units \X Bufs
    /\ major \in BOOLEAN /\ pif \in [Units -> Words] /\ temp \in Words
    /\ enable \in BOOLEAN /\ unit \in Units

\* mrp_interrupt may run whenever it is on a line, a shared one above all: the
\* registers and both buffers of its unit are there then, from request_irq in
\* mrp_init to free_irq in cleanup_module, and never after the unload.
HandlerReady ==
    TypeOK /\ \A l \in Lines, u \in Units : Handles(l, u) =>
        /\ Bases \cup Bufs \subseteq ptr[u]
        /\ {u} \X Bases \subseteq maps /\ {u} \X Bufs \subseteq mem
        /\ pc # "unloaded"

\* cleanup_module gives back what mrp_init has taken, of units whose setup
\* failed half way too.  What vfree refuses and every base4 is lost, and all
\* the first loop mapped if there was no major number.
UnloadFrees ==
    pc = "unloaded" => mem = {} /\ (major => \A x \in maps : x[2] \in Offset \cup Optional)

\* The two drivers on one interface: whatever the power timer does between
\* the loads and the stores of mrp_init, a valid unit is out of reset and on
\* when the load is over, and an unloaded unit the timer does not reset is off.
PifSettled ==
    /\ pc \in {"alloc", "loaded"} =>
         \A u \in Units : "VALID" \in flags[u] => pif[u] = Up
    /\ pc = "unloaded" =>
         \A u \in Units : "VALID" \in flags[u] /\ u # PowUnit => pif[u].off /\ ~pif[u].on

=============================================================================
