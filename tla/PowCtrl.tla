------------------------------ MODULE PowCtrl ------------------------------
(***************************************************************************)
(* Power control of the SBC: drivers/char/ps2powctrl.c and the parts of    *)
(* kernel/sys.c that shut the machine down through it.                     *)
(*                                                                         *)
(* The 16-bit register f1c carries the power button's request (an input),  *)
(* the driver's shutdown request, the acknowledge bit that keeps the board *)
(* from cutting the power, and the LED's two bits.  Every change of f1c is *)
(* a load and a store.  One system call runs at a time, since the kernel   *)
(* does not preempt it (copy_from_user may sleep, but between a complete   *)
(* powctrl_reset_pif and the call's first store, which is as if the call   *)
(* began after the sleep); the timer function powctrl_observe_status runs  *)
(* between any two of its steps, and is not interrupted by it.             *)
(***************************************************************************)
EXTENDS Integers

VARIABLES
    req,      \* f1c bit 10, POWEROFF_REQ: the button, driven by the board
    shut,     \* f1c bit 2, SHUTDOWN_REQ
    ack,      \* f1c bit 3, POWEROFF_ACK: set, it holds the power on
    led,      \* f1c bits 0 and 1
    temp,     \* the copy of f1c a system call is changing
    pif,      \* idk50 bits 30 ("rst") and 5 ("off"), idk4c bit 6 ("on")
    bid,      \* the board is one that has the acknowledge bit (bid = 0x4126)
    enable,   \* powctrl_timer_enable
    blink,    \* powctrl_blink
    blkcnt,   \* powctrl_blkcnt
    color,    \* powctrl_color
    armed,    \* powctrl_timer is pending
    cad,      \* C_A_D
    call,     \* the system call in progress, [op, v]
    pc,       \* where it is
    ret,      \* where it goes on after powctrl_reset_pif
    killed,   \* sys_kill(-1, SIGKILL) has been issued
    power     \* "on", or "cut" by the board

regs  == <<req, shut, ack, led, pif>>
timer == <<enable, blink, blkcnt, color, armed>>
fixed == <<bid, power>>
vars  == <<req, shut, ack, led, temp, pif, bid, enable, blink, blkcnt, color,
           armed, cad, call, pc, ret, killed, power>>

----------------------------------------------------------------------------
Colors == 0..3
TLED_OFF == 3
BLINK_OFF == 0          \* LED_BLINK_OFF
BLINK_HIGH == 1         \* LED_BLINK_WAIT_HIGH

\* What a load of f1c sees of the bits the driver writes.
F1c == [shut |-> shut, ack |-> ack, led |-> led]

\* A store of f1c: the button's bit is an input and keeps its value.
SetF1c(t) == shut' = t.shut /\ ack' = t.ack /\ led' = t.led

Calls == {"none", "poweroff", "powstat", "timer", "color", "blink", "halt",
          "restart", "setcad", "clearcad"}
Pcs == {"idle", "body", "pif1", "pif2", "blinkset", "led1", "led2", "req1",
        "req2", "kill", "ack1", "ack2", "exited", "reset"}

\* The state powctrl_init leaves when it has found the board.
Init ==
    /\ bid \in BOOLEAN
    /\ req \in BOOLEAN /\ shut = FALSE /\ ack = bid
    /\ led = 0 /\ color = 0
    /\ pif = [rst |-> FALSE, off |-> FALSE, on |-> TRUE]
    /\ enable = TRUE /\ blink = BLINK_OFF /\ blkcnt = 0 /\ armed = TRUE
    /\ cad = TRUE
    /\ call = [op |-> "none", v |-> 0] /\ pc = "idle" /\ ret = "idle"
    /\ temp = F1c
    /\ killed = FALSE /\ power = "on"

----------------------------------------------------------------------------
(* The board.                                                               *)

Button == /\ power = "on" /\ ~req
          /\ req' = TRUE
          /\ UNCHANGED <<shut, ack, led, temp, pif, timer, fixed, cad, call, pc,
                         ret, killed>>

\* The power goes once it is asked for and the acknowledge bit is clear.
PowerCut == /\ power = "on" /\ ~ack /\ (req \/ shut)
            /\ power' = "cut"
            /\ UNCHANGED <<regs, temp, timer, bid, cad, call, pc, ret, killed>>

----------------------------------------------------------------------------
(* The timer function.                                                      *)

PifReset == [rst |-> FALSE, off |-> FALSE, on |-> TRUE]

\* powctrl_turn_tled
TurnLed == IF led # color THEN color ELSE TLED_OFF

\* Faulty variants of Observe: the blink count is compared with > instead of >=;
\* a tick with the timer disabled does not arm it again.
ObserveTooLate ==
    /\ power = "on" /\ armed /\ enable
    /\ pif' = PifReset
    /\ IF blink # BLINK_OFF /\ blkcnt > blink
         THEN led' = TurnLed /\ blkcnt' = 0
         ELSE led' = led /\ blkcnt' = IF blink = BLINK_OFF THEN 0 ELSE blkcnt + 1
    /\ armed' = ~req
    /\ UNCHANGED <<req, shut, ack, temp, enable, blink, color, fixed, cad, call,
                   pc, ret, killed>>

ObserveOnlyEnabled ==
    /\ power = "on" /\ armed /\ ~enable
    /\ armed' = FALSE
    /\ UNCHANGED <<regs, temp, enable, blink, blkcnt, color, fixed, cad, call,
                   pc, ret, killed>>

\* powctrl_observe_status: once it has seen the button's request it does not
\* arm the timer again.
Observe ==
    /\ power = "on" /\ armed
    /\ \/ /\ enable
          /\ pif' = PifReset
          /\ IF blink # BLINK_OFF /\ blkcnt >= blink
               THEN led' = TurnLed /\ blkcnt' = 0
               ELSE led' = led /\ blkcnt' = IF blink = BLINK_OFF THEN 0 ELSE blkcnt + 1
          /\ armed' = ~req
       \/ /\ ~enable
          /\ UNCHANGED <<pif, led, blkcnt, armed>>
    /\ UNCHANGED <<req, shut, ack, temp, enable, blink, color, fixed, cad, call,
                   pc, ret, killed>>

----------------------------------------------------------------------------
(* The system calls: powctrl_ioctl and sys_reboot.                          *)

\* A step of the call at label l that goes to label m and changes, of the
\* driver's and the board's state, what the action says.
Step(l, m) == power = "on" /\ pc = l /\ pc' = m

\* powctrl_ioctl starts with powctrl_reset_pif if the timer is enabled;
\* halting does so in any case.
Enter(op, v) ==
    LET first == IF op = "halt" \/ (op \notin {"restart", "setcad", "clearcad"} /\ enable)
                   THEN "pif1" ELSE "body"
    IN  /\ Step("idle", first)
        /\ call' = [op |-> op, v |-> v]
        /\ ret' = "body"
        /\ UNCHANGED <<regs, temp, timer, fixed, cad, killed>>

EnterCall ==
    \/ \E op \in {"poweroff", "powstat", "halt", "restart", "setcad", "clearcad"} :
           Enter(op, 0)
    \/ \E v \in {0, 1} : Enter("timer", v)
    \/ \E op \in {"color", "blink"}, v \in Colors : Enter(op, v)

\* powctrl_reset_pif: raise the reset bit, wait, drop it, enable.
Pif1 == /\ Step("pif1", "pif2")
        /\ pif' = [pif EXCEPT !.rst = TRUE, !.off = FALSE]
        /\ UNCHANGED <<req, shut, ack, led, temp, timer, fixed, cad, call, ret, killed>>

\* Faulty variant of Pif2: the reset bit is not dropped.
Pif2Stuck == /\ Step("pif2", ret)
             /\ pif' = [pif EXCEPT !.on = TRUE]
             /\ UNCHANGED <<req, shut, ack, led, temp, timer, fixed, cad, call, ret,
                            killed>>

Pif2 == /\ Step("pif2", ret)
        /\ pif' = [pif EXCEPT !.rst = FALSE, !.on = TRUE]
        /\ UNCHANGED <<req, shut, ack, led, temp, timer, fixed, cad, call, ret, killed>>

\* POWEROFF, and a halt, ask for the shutdown; POWSTAT only reads; restart
\* goes on to drop the acknowledge bit.
Dispatch ==
    /\ \/ call.op \in {"poweroff", "halt"} /\ Step("body", "req1")
       \/ call.op = "powstat" /\ Step("body", "idle")
       \/ call.op = "restart" /\ Step("body", "ack1")
    /\ UNCHANGED <<regs, temp, timer, fixed, cad, call, ret, killed>>

SetCad == /\ call.op \in {"setcad", "clearcad"} /\ Step("body", "idle")
          /\ cad' = (call.op = "setcad")
          /\ UNCHANGED <<regs, temp, timer, fixed, call, ret, killed>>

\* TIMER: set the mode, reset the interface once more, return.
Timer == /\ call.op = "timer" /\ Step("body", "pif1")
         /\ enable' = (call.v # 0)
         /\ ret' = "idle"
         /\ UNCHANGED <<regs, temp, blink, blkcnt, color, armed, fixed, cad, call,
                        killed>>

\* TLED_COLOR: stop blinking, then show the colour.
Color == /\ call.op = "color" /\ Step("body", "led1")
         /\ blink' = BLINK_OFF /\ blkcnt' = 0 /\ color' = call.v
         /\ UNCHANGED <<regs, temp, enable, armed, fixed, cad, call, ret, killed>>

\* TLED_BLINK: whatever the value, blinking starts.
Blink == /\ call.op = "blink" /\ Step("body", "blinkset")
         /\ blink' = BLINK_HIGH
         /\ UNCHANGED <<regs, temp, enable, blkcnt, color, armed, fixed, cad, call,
                        ret, killed>>

\* Faulty variant of BlinkColor: the new colour is not shown.
BlinkColorLater == /\ Step("blinkset", "idle")
                   /\ blkcnt' = 0 /\ color' = call.v
                   /\ UNCHANGED <<regs, temp, enable, blink, armed, fixed, cad, call,
                                  ret, killed>>

BlinkColor == /\ Step("blinkset", "led1")
              /\ blkcnt' = 0 /\ color' = call.v
              /\ UNCHANGED <<regs, temp, enable, blink, armed, fixed, cad, call, ret,
                             killed>>

\* The load of f1c in powctrl_set_color, _poweroff_request and _poweroff_ack.
Load(l, m) == /\ Step(l, m)
              /\ temp' = F1c
              /\ UNCHANGED <<regs, timer, fixed, cad, call, ret, killed>>

\* Faulty variant of LedStore: the other bits of f1c are written as zeroes.
LedStoreAll == /\ Step("led2", "idle")
               /\ SetF1c([shut |-> FALSE, ack |-> FALSE, led |-> color])
               /\ UNCHANGED <<req, pif, temp, timer, fixed, cad, call, ret, killed>>

\* powctrl_set_color
LedLoad  == Load("led1", "led2")
LedStore == /\ Step("led2", "idle")
            /\ SetF1c([temp EXCEPT !.led = color])
            /\ UNCHANGED <<req, pif, temp, timer, fixed, cad, call, ret, killed>>

\* Faulty variant of ReqStore: a halt releases the power before it kills.
ReqStoreNoKill == /\ Step("req2", IF call.op = "halt" THEN "ack1" ELSE "idle")
                  /\ SetF1c([temp EXCEPT !.shut = TRUE])
                  /\ enable' = TRUE
                  /\ UNCHANGED <<req, pif, temp, blink, blkcnt, color, armed, fixed,
                                 cad, call, ret, killed>>

\* powctrl_poweroff_request
ReqLoad  == Load("req1", "req2")
ReqStore == /\ Step("req2", IF call.op = "halt" THEN "kill" ELSE "idle")
            /\ SetF1c([temp EXCEPT !.shut = TRUE])
            /\ enable' = TRUE
            /\ UNCHANGED <<req, pif, temp, blink, blkcnt, color, armed, fixed, cad,
                           call, ret, killed>>

\* sys_kill(-1, SIGKILL)
Kill == /\ Step("kill", "ack1")
        /\ killed' = TRUE
        /\ UNCHANGED <<regs, temp, timer, fixed, cad, call, ret>>

End == IF call.op = "halt" THEN "exited" ELSE "reset"

\* Faulty variant of AckStore: the sense of the acknowledge bit is inverted.
AckStoreSet == /\ Step("ack2", End)
               /\ SetF1c([temp EXCEPT !.ack = TRUE])
               /\ UNCHANGED <<req, pif, temp, timer, fixed, cad, call, ret, killed>>

\* powctrl_system_poweroff: the acknowledge bit is cleared, on a board that
\* has it; then do_exit or hard_reset_now.
AckLoad  == bid /\ Load("ack1", "ack2")
AckNone  == /\ ~bid /\ Step("ack1", End)
            /\ UNCHANGED <<regs, temp, timer, fixed, cad, call, ret, killed>>
AckStore == /\ Step("ack2", End)
            /\ SetF1c([temp EXCEPT !.ack = FALSE])
            /\ UNCHANGED <<req, pif, temp, timer, fixed, cad, call, ret, killed>>

\* ctrl_alt_del, from the keyboard interrupt: a hard reset at once, or a signal
\* to init.
CtrlAltDel == /\ cad /\ power = "on" /\ pc # "reset"
              /\ pc' = "reset"
              /\ UNCHANGED <<regs, temp, timer, fixed, cad, call, ret, killed>>

\* hard_reset_now ends every kernel activity.
Running == pc # "reset"

Syscall ==
    \/ EnterCall \/ Pif1 \/ Pif2 \/ Dispatch \/ SetCad \/ Timer \/ Color \/ Blink
    \/ BlinkColor \/ LedLoad \/ LedStore \/ ReqLoad \/ ReqStore \/ Kill
    \/ AckLoad \/ AckNone \/ AckStore

Next == Button \/ PowerCut \/ (Running /\ Observe) \/ Syscall \/ CtrlAltDel

Spec == Init /\ [][Next]_vars

\* A system call runs on to its end: nothing in it sleeps.  The board obeys.
Fairness == WF_vars(pc # "idle" /\ Syscall) /\ WF_vars(PowerCut)

FairSpec == Spec /\ Fairness

----------------------------------------------------------------------------
\* The register bits, the timer's variables and the call in progress keep their
\* types; the blink count never passes the limit it is compared with.
TypeOK ==
    /\ req \in BOOLEAN /\ shut \in BOOLEAN /\ ack \in BOOLEAN /\ led \in Colors
    /\ temp \in [shut : BOOLEAN, ack : BOOLEAN, led : Colors]
    /\ pif \in [rst : BOOLEAN, off : BOOLEAN, on : BOOLEAN]
    /\ bid \in BOOLEAN /\ enable \in BOOLEAN /\ armed \in BOOLEAN /\ cad \in BOOLEAN
    /\ blink \in {BLINK_OFF, BLINK_HIGH} /\ blkcnt \in 0..BLINK_HIGH
    /\ color \in Colors
    /\ call \in [op : Calls, v : Colors]
    /\ pc \in Pcs /\ ret \in {"idle", "body"}
    /\ killed \in BOOLEAN /\ power \in {"on", "cut"}

\* The power is never cut under running processes: on a board with the
\* acknowledge bit the button and POWCTRL_IOCPOWEROFF have to wait until a halt
\* has killed every process, or a restart has given the machine up, whatever
\* the LED code and the timer write to the same register meanwhile.
SafePowerOff == power = "cut" /\ bid => killed \/ call.op = "restart"

\* A shutdown request, and the release of the power by a halt, are never undone
\* by a store of an older copy of f1c.
RequestSticks == [][(shut => shut') /\ (killed /\ ~ack => ~ack')]_vars

\* With blinking off the LED shows powctrl_color whenever no call is setting it:
\* no tick of the timer and no late store leaves it dark.
SteadyLed ==
    blink = BLINK_OFF /\ pc \notin {"led1", "led2", "reset"} => led = color

\* While it blinks, the LED is off or shows the colour last asked for.
BlinkingLed ==
    pc \notin {"led1", "led2", "reset"} => led \in {color, TLED_OFF}

\* Outside powctrl_set_color the LED is right, blinking or not, whatever the
\* timer and the power-off code store into the register it lives in.
LedRight == SteadyLed /\ BlinkingLed

\* The interface's reset bit is never left raised, although the timer may run a
\* whole powctrl_reset_pif inside a system call's.
PifReleased == pc \notin {"pif2", "reset"} => pif = PifReset

\* The observer stops only when the button has been pressed.
ObserverAlive == ~armed => req

\* A halt ends with the power off, if the keyboard does not reset the machine.
HaltPowersOff ==
    (call.op = "halt" /\ pc = "req1") ~> (power = "cut" \/ pc = "reset")
=============================================================================
