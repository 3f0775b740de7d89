----------------------------- MODULE ByteLocks -----------------------------
(***************************************************************************)
(* What POSIX record locks promise, byte by byte and without lists: a       *)
(* granted request changes exactly the bytes it names, a refused one        *)
(* changes nothing, and nobody is granted a byte that another process       *)
(* holds against it.                                                        *)
(***************************************************************************)
EXTENDS Integers

CONSTANTS Owners, Requests, None

VARIABLES
    held,       \* the locked bytes: records of an owner, a byte and a type
    want        \* want[p]: the request p waits with

Init == held = {} /\ want = [p \in Owners |-> None]

Area(r) == r.start .. r.end

Excludes(s, t) == "F_UNLCK" # t /\ "F_WRLCK" \in {s, t}

Allowed(p, r) ==
    ~ \E h \in held : h.owner # p /\ h.byte \in Area(r) /\ Excludes(h.type, r.type)

\* Only a request that is not allowed waits.
Wait(p, r) ==
    /\ want[p] = None /\ r.wait /\ ~Allowed(p, r)
    /\ want' = [want EXCEPT ![p] = r]
    /\ UNCHANGED held

Grant(p, r) ==
    /\ r.op = "lock" /\ want[p] \in {None, r}
    /\ Allowed(p, r)
    /\ held' = {h \in held : h.owner # p \/ h.byte \notin Area(r)}
               \cup {h \in [owner : {p}, byte : Area(r), type : {r.type}] :
                        h.type # "F_UNLCK"}
    /\ want' = [want EXCEPT ![p] = None]

\* An error; and a read or write that may go ahead, which sets no lock.
Refuse(p) == want' = [want EXCEPT ![p] = None] /\ UNCHANGED held

Close(p) ==
    /\ want[p] = None
    /\ held' = {h \in held : h.owner # p}
    /\ UNCHANGED want

Next ==
    \E p \in Owners :
        \/ Refuse(p)
        \/ Close(p)
        \/ \E r \in Requests : Wait(p, r) \/ Grant(p, r)

Spec == Init /\ [][Next]_<<held, want>>
=============================================================================
