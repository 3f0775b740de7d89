--------------------------- MODULE PowCtrlProofs ---------------------------
(***************************************************************************)
(* Theorems about power control: the power is not cut under running        *)
(* processes, no store of f1c undoes a request, and the LED and the        *)
(* interface's reset bit survive every interleaving of the timer function  *)
(* with a system call.                                                     *)
(***************************************************************************)
EXTENDS PowCtrl, TLAPS

\* The copy of f1c a call is about to store agrees with the register on the bits
\* the timer function leaves alone, and its LED bits show the colour or dark.
Copies ==
    /\ pc \in {"led2", "req2", "ack2"} => temp.shut = shut /\ temp.ack = ack
    /\ pc \in {"req2", "ack2"} =>
         /\ temp.led \in {color, TLED_OFF}
         /\ blink = BLINK_OFF => temp.led = color

\* The acknowledge bit of a board that has it is clear only after the kill, or
\* once a restart has nothing left to run.
AckHeld ==
    /\ bid /\ ~ack => killed \/ (call.op = "restart" /\ pc = "reset")
    /\ pc \in {"ack1", "ack2"} => killed \/ call.op = "restart"
    /\ pc \in {"ack1", "ack2"} => call.op \in {"halt", "restart"}
    /\ pc = "kill" => call.op = "halt"

\* Bit 5 of idk50 stays down.
PifOff == pif.off = FALSE

Inv == TypeOK /\ Copies /\ AckHeld /\ PifOff /\ SafePowerOff /\ SteadyLed
       /\ BlinkingLed /\ PifReleased /\ ObserverAlive

----------------------------------------------------------------------------
\* Type correctness is preserved by every step.
LEMMA TypeStep == TypeOK /\ [Next]_vars => TypeOK'
<1> SUFFICES ASSUME TypeOK, [Next]_vars PROVE TypeOK'
  OBVIOUS
<1>1. CASE UNCHANGED vars
  BY <1>1 DEF vars, TypeOK
<1>2. CASE Button
  BY <1>2 DEF Button, timer, fixed, TypeOK
<1>3. CASE PowerCut
  BY <1>3 DEF PowerCut, regs, timer, TypeOK
<1>4. CASE CtrlAltDel
  BY <1>4 DEF CtrlAltDel, regs, timer, fixed, TypeOK, Pcs
<1>5. CASE Observe
  <2>1. led' \in Colors /\ blkcnt' \in 0..BLINK_HIGH
    <3>1. led' \in {led, color, TLED_OFF}
      BY <1>5 DEF Observe, TurnLed
    <3>2. \/ blkcnt' \in {0, blkcnt}
          \/ blkcnt' = blkcnt + 1 /\ blink # BLINK_OFF /\ ~(blkcnt >= blink)
      BY <1>5 DEF Observe
    <3>3. blkcnt' \in 0..BLINK_HIGH
      BY <3>2 DEF BLINK_OFF, BLINK_HIGH, TypeOK
    <3> QED BY <3>1, <3>3 DEF TLED_OFF, Colors, TypeOK
  <2>2. pif' \in [rst : BOOLEAN, off : BOOLEAN, on : BOOLEAN]
    <3>1. pif' = PifReset \/ pif' = pif
      BY <1>5 DEF Observe
    <3>2. PifReset \in [rst : BOOLEAN, off : BOOLEAN, on : BOOLEAN]
      BY DEF PifReset
    <3> QED BY <3>1, <3>2 DEF TypeOK
  <2>3. armed' \in BOOLEAN
    BY <1>5 DEF Observe, TypeOK
  <2> QED BY <1>5, <2>1, <2>2, <2>3 DEF Observe, fixed, TypeOK
<1>6. CASE EnterCall
  <2>1. call' \in [op : Calls, v : Colors] /\ pc' \in Pcs /\ ret' = "body"
    BY <1>6 DEF EnterCall, Enter, Step, Calls, Colors, Pcs
  <2> QED BY <1>6, <2>1 DEF EnterCall, Enter, regs, timer, fixed, TypeOK
<1>7. CASE Pif1 \/ Pif2
  <2>1. pif' \in [rst : BOOLEAN, off : BOOLEAN, on : BOOLEAN]
    BY <1>7 DEF Pif1, Pif2, TypeOK
  <2>2. pc' \in Pcs
    BY <1>7 DEF Pif1, Pif2, Step, Pcs, TypeOK
  <2> QED BY <1>7, <2>1, <2>2 DEF Pif1, Pif2, timer, fixed, TypeOK
<1>8. CASE Dispatch
  BY <1>8 DEF Dispatch, Step, regs, timer, fixed, Pcs, TypeOK
<1>9. CASE SetCad
  BY <1>9 DEF SetCad, Step, regs, timer, fixed, Pcs, TypeOK
<1>10. CASE Timer
  BY <1>10 DEF Timer, Step, regs, fixed, Pcs, TypeOK
<1>11. CASE Color \/ Blink \/ BlinkColor
  <2>1. /\ blink' \in {BLINK_OFF, BLINK_HIGH} /\ blkcnt' \in 0..BLINK_HIGH
        /\ color' \in Colors /\ pc' \in Pcs
    BY <1>11 DEF Color, Blink, BlinkColor, Step, BLINK_OFF, BLINK_HIGH, Pcs, TypeOK
  <2> QED BY <1>11, <2>1 DEF Color, Blink, BlinkColor, regs, fixed, TypeOK
<1>12. CASE LedLoad \/ ReqLoad \/ AckLoad
  <2>1. temp' \in [shut : BOOLEAN, ack : BOOLEAN, led : Colors] /\ pc' \in Pcs
    BY <1>12 DEF LedLoad, ReqLoad, AckLoad, Load, F1c, Step, Pcs, TypeOK
  <2> QED BY <1>12, <2>1 DEF LedLoad, ReqLoad, AckLoad, Load, regs, timer, fixed,
                             TypeOK
<1>13. CASE LedStore \/ ReqStore \/ AckStore
  <2>1. shut' \in BOOLEAN /\ ack' \in BOOLEAN /\ led' \in Colors
    BY <1>13 DEF LedStore, ReqStore, AckStore, SetF1c, TypeOK
  <2>2. pc' \in Pcs
    BY <1>13 DEF LedStore, ReqStore, AckStore, End, Step, Pcs
  <2>3. enable' \in BOOLEAN
    BY <1>13 DEF LedStore, ReqStore, AckStore, timer, TypeOK
  <2> QED BY <1>13, <2>1, <2>2, <2>3 DEF LedStore, ReqStore, AckStore, timer, fixed,
                                         TypeOK
<1>14. CASE Kill
  BY <1>14 DEF Kill, Step, regs, timer, fixed, Pcs, TypeOK
<1>15. CASE AckNone
  BY <1>15 DEF AckNone, Step, End, regs, timer, fixed, Pcs, TypeOK
<1> QED BY <1>1, <1>2, <1>3, <1>4, <1>5, <1>6, <1>7, <1>8, <1>9, <1>10, <1>11,
           <1>12, <1>13, <1>14, <1>15 DEF Next, Syscall

\* The copy of f1c stays good: preserved by every step.
LEMMA CopiesStep ==
    TypeOK /\ Copies /\ SteadyLed /\ BlinkingLed /\ [Next]_vars => Copies'
<1> SUFFICES ASSUME TypeOK, Copies, SteadyLed, BlinkingLed, [Next]_vars PROVE Copies'
  OBVIOUS
<1>1. CASE UNCHANGED vars
  BY <1>1 DEF vars, Copies
<1>2. CASE Button \/ PowerCut
  BY <1>2 DEF Button, PowerCut, regs, timer, Copies
<1>3. CASE CtrlAltDel
  BY <1>3 DEF CtrlAltDel, Copies
<1>4. CASE Observe
  BY <1>4 DEF Observe, Copies
<1>5. CASE EnterCall
  BY <1>5 DEF EnterCall, Enter, Step, Copies
<1>6. CASE Pif1 \/ Pif2
  BY <1>6 DEF Pif1, Pif2, Step, Copies, TypeOK
<1>7. CASE Dispatch \/ SetCad \/ Timer \/ Color \/ Blink \/ BlinkColor
  BY <1>7 DEF Dispatch, SetCad, Timer, Color, Blink, BlinkColor, Step, Copies
<1>8. CASE LedLoad \/ ReqLoad \/ AckLoad
  BY <1>8 DEF LedLoad, ReqLoad, AckLoad, Load, F1c, Step, regs, timer, Copies,
              SteadyLed, BlinkingLed
<1>9. CASE LedStore \/ ReqStore \/ AckStore \/ Kill \/ AckNone
  BY <1>9 DEF LedStore, ReqStore, AckStore, Kill, AckNone, End, Step, Copies
<1> QED BY <1>1, <1>2, <1>3, <1>4, <1>5, <1>6, <1>7, <1>8, <1>9 DEF Next, Syscall

\* The power is released by a halt or a restart only: preserved by every step.
LEMMA AckHeldStep ==
    TypeOK /\ Copies /\ AckHeld /\ SafePowerOff /\ [Next]_vars
        => AckHeld' /\ SafePowerOff'
<1> SUFFICES ASSUME TypeOK, Copies, AckHeld, SafePowerOff, [Next]_vars
             PROVE  AckHeld' /\ SafePowerOff'
  OBVIOUS
<1>1. CASE UNCHANGED vars
  BY <1>1 DEF vars, AckHeld, SafePowerOff
<1>2. CASE Button \/ PowerCut
  BY <1>2 DEF Button, PowerCut, regs, fixed, AckHeld, SafePowerOff
<1>3. CASE CtrlAltDel
  BY <1>3 DEF CtrlAltDel, regs, fixed, AckHeld, SafePowerOff
<1>4. CASE Observe
  BY <1>4 DEF Observe, fixed, AckHeld, SafePowerOff
<1>5. CASE EnterCall
  BY <1>5 DEF EnterCall, Enter, Step, regs, fixed, AckHeld, SafePowerOff
<1>6. CASE Pif1 \/ Pif2
  BY <1>6 DEF Pif1, Pif2, Step, fixed, AckHeld, SafePowerOff, TypeOK
<1>7. CASE Dispatch \/ SetCad \/ Timer \/ Color \/ Blink \/ BlinkColor
  BY <1>7 DEF Dispatch, SetCad, Timer, Color, Blink, BlinkColor, Step, regs, fixed,
              AckHeld, SafePowerOff
<1>8. CASE LedLoad \/ ReqLoad \/ AckLoad
  BY <1>8 DEF LedLoad, ReqLoad, AckLoad, Load, Step, regs, fixed, AckHeld,
              SafePowerOff
<1>9. CASE LedStore \/ ReqStore
  <2>1. pc \in {"led2", "req2"} /\ ack' = temp.ack
    BY <1>9 DEF LedStore, ReqStore, SetF1c, Step, TypeOK
  <2>2. ack' = ack
    BY <2>1 DEF Copies
  <2> QED BY <1>9, <2>1, <2>2 DEF LedStore, ReqStore, Step, fixed, AckHeld,
                                  SafePowerOff
<1>10. CASE AckStore
  BY <1>10 DEF AckStore, SetF1c, End, Step, fixed, AckHeld, SafePowerOff, TypeOK
<1>11. CASE Kill \/ AckNone
  BY <1>11 DEF Kill, AckNone, End, Step, regs, fixed, AckHeld, SafePowerOff
<1> QED BY <1>1, <1>2, <1>3, <1>4, <1>5, <1>6, <1>7, <1>8, <1>9, <1>10, <1>11
           DEF Next, Syscall

\* The LED shows what it should: preserved by every step.
LEMMA LedStep ==
    TypeOK /\ Copies /\ SteadyLed /\ BlinkingLed /\ [Next]_vars
        => SteadyLed' /\ BlinkingLed'
<1> SUFFICES ASSUME TypeOK, Copies, SteadyLed, BlinkingLed, [Next]_vars
             PROVE  SteadyLed' /\ BlinkingLed'
  OBVIOUS
<1>1. CASE UNCHANGED vars
  BY <1>1 DEF vars, SteadyLed, BlinkingLed
<1>2. CASE Button \/ PowerCut
  BY <1>2 DEF Button, PowerCut, regs, timer, SteadyLed, BlinkingLed
<1>3. CASE CtrlAltDel
  BY <1>3 DEF CtrlAltDel, SteadyLed, BlinkingLed
<1>4. CASE Observe
  <2>1. UNCHANGED <<blink, color, pc>>
    BY <1>4 DEF Observe
  <2>2. led' = led \/ (blink # BLINK_OFF /\ led' \in {color, TLED_OFF})
    BY <1>4 DEF Observe, TurnLed
  <2> QED BY <2>1, <2>2 DEF SteadyLed, BlinkingLed
<1>5. CASE EnterCall
  BY <1>5 DEF EnterCall, Enter, Step, regs, timer, SteadyLed, BlinkingLed
<1>6. CASE Pif1 \/ Pif2
  BY <1>6 DEF Pif1, Pif2, Step, timer, SteadyLed, BlinkingLed
<1>7. CASE Dispatch \/ SetCad \/ Timer
  BY <1>7 DEF Dispatch, SetCad, Timer, Step, regs, timer, SteadyLed, BlinkingLed
<1>8. CASE Color \/ Blink \/ BlinkColor
  BY <1>8 DEF Color, Blink, BlinkColor, Step, regs, BLINK_OFF, BLINK_HIGH, SteadyLed,
              BlinkingLed
<1>9. CASE LedLoad \/ ReqLoad \/ AckLoad
  BY <1>9 DEF LedLoad, ReqLoad, AckLoad, Load, Step, regs, timer, SteadyLed,
              BlinkingLed
<1>10. CASE LedStore
  BY <1>10 DEF LedStore, SetF1c, Step, timer, SteadyLed, BlinkingLed, TypeOK
<1>11. CASE ReqStore \/ AckStore
  <2>1. led' = temp.led /\ UNCHANGED <<blink, color>> /\ pc \in {"req2", "ack2"}
    BY <1>11 DEF ReqStore, AckStore, SetF1c, Step, timer, TypeOK
  <2> QED BY <2>1 DEF Copies, SteadyLed, BlinkingLed
<1>12. CASE Kill \/ AckNone
  BY <1>12 DEF Kill, AckNone, Step, regs, timer, SteadyLed, BlinkingLed
<1> QED BY <1>1, <1>2, <1>3, <1>4, <1>5, <1>6, <1>7, <1>8, <1>9, <1>10, <1>11, <1>12
           DEF Next, Syscall

\* The interface's reset bit comes down again: preserved by every step.
LEMMA PifStep == TypeOK /\ PifOff /\ PifReleased /\ [Next]_vars => PifOff' /\ PifReleased'
<1> SUFFICES ASSUME TypeOK, PifOff, PifReleased, [Next]_vars
             PROVE  PifOff' /\ PifReleased'
  OBVIOUS
<1>1. ASSUME pif' = pif, pc # "pif2", pc' # "pif2" \/ pc = "reset"
      PROVE  PifOff' /\ (pc # "reset" => PifReleased')
  BY <1>1 DEF PifOff, PifReleased
<1>2. CASE UNCHANGED vars
  BY <1>2 DEF vars, PifOff, PifReleased
<1>3. CASE Button \/ PowerCut
  BY <1>3 DEF Button, PowerCut, regs, PifOff, PifReleased
<1>4. CASE CtrlAltDel
  BY <1>4 DEF CtrlAltDel, regs, PifOff, PifReleased
<1>5. CASE Observe
  <2>1. pc' = pc /\ pif' \in {pif, PifReset}
    BY <1>5 DEF Observe
  <2>2. PifReset.off = FALSE
    BY DEF PifReset
  <2> QED BY <2>1, <2>2 DEF PifOff, PifReleased, PifReset
<1>6. CASE Pif1
  BY <1>6 DEF Pif1, Step, PifOff, PifReleased, TypeOK
<1>7. CASE Pif2
  <2>1. pif' = [pif EXCEPT !.rst = FALSE, !.on = TRUE]
    BY <1>7 DEF Pif2
  <2>2. pif' = PifReset
    BY <2>1 DEF PifOff, PifReset, TypeOK
  <2> QED BY <2>2 DEF PifOff, PifReleased, PifReset
<1>8. CASE EnterCall
  BY <1>1, <1>8 DEF EnterCall, Enter, Step, regs
<1>9. CASE Dispatch \/ SetCad \/ Timer \/ Color \/ Blink \/ BlinkColor
  BY <1>1, <1>9 DEF Dispatch, SetCad, Timer, Color, Blink, BlinkColor, Step, regs
<1>10. CASE LedLoad \/ ReqLoad \/ AckLoad
  BY <1>1, <1>10 DEF LedLoad, ReqLoad, AckLoad, Load, Step, regs
<1>11. CASE LedStore \/ ReqStore \/ AckStore \/ Kill \/ AckNone
  BY <1>1, <1>11 DEF LedStore, ReqStore, AckStore, Kill, AckNone, End, Step, regs
<1> QED BY <1>2, <1>3, <1>4, <1>5, <1>6, <1>7, <1>8, <1>9, <1>10, <1>11
           DEF Next, Syscall

\* The observer stops only for the button: preserved by every step.
LEMMA ObserverStep == TypeOK /\ ObserverAlive /\ [Next]_vars => ObserverAlive'
<1> SUFFICES ASSUME TypeOK, ObserverAlive, [Next]_vars PROVE ObserverAlive'
  OBVIOUS
<1>1. CASE UNCHANGED <<req, armed>>
  BY <1>1 DEF ObserverAlive
<1>2. CASE Button
  BY <1>2 DEF Button, ObserverAlive
<1>3. CASE Observe
  BY <1>3 DEF Observe, ObserverAlive
<1>4. CASE Syscall
  BY <1>1, <1>4 DEF Syscall, EnterCall, Enter, Pif1, Pif2, Dispatch, SetCad, Timer,
                    Color, Blink, BlinkColor, LedLoad, ReqLoad, AckLoad, Load,
                    LedStore, ReqStore, AckStore, Kill, AckNone, regs, timer
<1>5. CASE UNCHANGED vars \/ PowerCut \/ CtrlAltDel
  BY <1>1, <1>5 DEF vars, PowerCut, CtrlAltDel, regs, timer
<1> QED BY <1>2, <1>3, <1>4, <1>5 DEF Next

\* A step keeps a shutdown request and a released acknowledge bit.
LEMMA KeepsRequests ==
    TypeOK /\ Copies /\ AckHeld /\ [Next]_vars
        => (shut => shut') /\ (killed /\ ~ack => ~ack')
<1> SUFFICES ASSUME TypeOK, Copies, AckHeld, [Next]_vars
             PROVE  (shut => shut') /\ (killed /\ ~ack => ~ack')
  OBVIOUS
<1>1. CASE UNCHANGED <<shut, ack>>
  BY <1>1
<1>2. CASE LedStore
  <2>1. pc = "led2" /\ shut' = temp.shut /\ ack' = temp.ack
    BY <1>2 DEF LedStore, SetF1c, Step, TypeOK
  <2> QED BY <2>1 DEF Copies
<1>3. CASE ReqStore
  <2>1. pc = "req2" /\ shut' = TRUE /\ ack' = temp.ack
    BY <1>3 DEF ReqStore, SetF1c, Step, TypeOK
  <2> QED BY <2>1 DEF Copies
<1>4. CASE AckStore
  <2>1. pc = "ack2" /\ shut' = temp.shut /\ ack' = FALSE
    BY <1>4 DEF AckStore, SetF1c, Step, TypeOK
  <2> QED BY <2>1 DEF Copies
<1>5. CASE UNCHANGED vars \/ Button \/ PowerCut \/ CtrlAltDel \/ Observe
  BY <1>1, <1>5 DEF vars, Button, PowerCut, CtrlAltDel, Observe, regs
<1>6. CASE Syscall
  BY <1>1, <1>2, <1>3, <1>4, <1>6
     DEF Syscall, EnterCall, Enter, Pif1, Pif2, Dispatch, SetCad, Timer, Color, Blink,
         BlinkColor, LedLoad, ReqLoad, AckLoad, Load, Kill, AckNone, regs
<1> QED BY <1>5, <1>6 DEF Next

----------------------------------------------------------------------------
\* The initial state satisfies the inductive invariant.
LEMMA InitInv == Init => Inv
<1> SUFFICES ASSUME Init PROVE Inv
  OBVIOUS
<1>1. temp = [shut |-> shut, ack |-> ack, led |-> led]
  BY DEF Init, F1c
<1>2. TypeOK
  <2>1. shut \in BOOLEAN /\ ack \in BOOLEAN /\ req \in BOOLEAN
    BY Zenon DEF Init
  <2>2. led \in Colors /\ color \in Colors
    BY DEF Init, Colors
  <2>3. blink \in {BLINK_OFF, BLINK_HIGH} /\ blkcnt \in 0..BLINK_HIGH
    BY DEF Init, BLINK_OFF, BLINK_HIGH
  <2>4. bid \in BOOLEAN /\ enable \in BOOLEAN /\ armed \in BOOLEAN /\ cad \in BOOLEAN
    BY Zenon DEF Init
  <2>5. killed \in BOOLEAN /\ power \in {"on", "cut"} /\ ret \in {"idle", "body"}
    BY Zenon DEF Init
  <2>6. temp \in [shut : BOOLEAN, ack : BOOLEAN, led : Colors]
    BY <1>1, <2>1, <2>2
  <2>7. pif \in [rst : BOOLEAN, off : BOOLEAN, on : BOOLEAN]
    BY DEF Init
  <2>8. call \in [op : Calls, v : Colors] /\ pc \in Pcs
    BY DEF Init, Calls, Colors, Pcs
  <2> QED BY <2>1, <2>2, <2>3, <2>4, <2>5, <2>6, <2>7, <2>8, Zenon DEF TypeOK
<1>3. Copies /\ SteadyLed /\ BlinkingLed /\ ObserverAlive
  BY DEF Init, Copies, SteadyLed, BlinkingLed, ObserverAlive
<1>4. AckHeld /\ SafePowerOff
  BY DEF Init, AckHeld, SafePowerOff
<1>5. PifOff /\ PifReleased
  BY DEF Init, PifOff, PifReleased, PifReset
<1> QED BY <1>2, <1>3, <1>4, <1>5 DEF Inv

\* Every reachable state satisfies the inductive invariant.
LEMMA Invariance == Spec => []Inv
<1>1. Inv /\ [Next]_vars => Inv'
  BY TypeStep, CopiesStep, AckHeldStep, LedStep, PifStep, ObserverStep DEF Inv
<1> QED BY <1>1, InitInv, PTL DEF Spec

\* The registers, the timer's variables and the calls keep their types; the
\* blink count never passes its limit.
THEOREM PowTyping == Spec => []TypeOK
<1>1. Inv => TypeOK
  BY DEF Inv
<1> QED BY <1>1, Invariance, PTL

\* Neither the button nor POWCTRL_IOCPOWEROFF cuts the power under running
\* processes: sys_reboot kills them before it drops the acknowledge bit, and no
\* other store of f1c drops it.
THEOREM PowerSafety == Spec => []SafePowerOff
<1>1. Inv => SafePowerOff
  BY DEF Inv
<1> QED BY <1>1, Invariance, PTL

\* No store of an older copy of f1c takes back a shutdown request or the release
\* of the power.
THEOREM RequestsStick == Spec => RequestSticks
<1>1. Inv /\ [Next]_vars => [(shut => shut') /\ (killed /\ ~ack => ~ack')]_vars
  BY KeepsRequests DEF Inv
<1> QED BY <1>1, Invariance, PTL DEF Spec, RequestSticks

\* Outside powctrl_set_color the LED shows the colour, or blinks with it,
\* although the timer and a power-off request write the register it lives in.
THEOREM LedShows == Spec => []LedRight
<1>1. Inv => LedRight
  BY DEF Inv, LedRight
<1> QED BY <1>1, Invariance, PTL

\* powctrl_reset_pif nested in itself leaves the reset bit down.
THEOREM ResetReleased == Spec => []PifReleased
<1>1. Inv => PifReleased
  BY DEF Inv
<1> QED BY <1>1, Invariance, PTL

\* The observer is armed until the button has been pressed.
THEOREM ObserverRuns == Spec => []ObserverAlive
<1>1. Inv => ObserverAlive
  BY DEF Inv
<1> QED BY <1>1, Invariance, PTL
=============================================================================
