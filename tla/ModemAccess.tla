----------------------------- MODULE ModemAccess -----------------------------
(***************************************************************************)
(* What the mutex around a liquid modem object promises: the object is    *)
(* torn down and rebuilt only while nobody uses it, and it is used only   *)
(* while it exists.  One instance per modem object: the mobile's          *)
(* ofdma_fs_default under sync_mutex, the basestation's ofdma_fg_default  *)
(* under gen_mutex (RadioHardwareConfig.h:401-402).                       *)
(***************************************************************************)
CONSTANTS
    Users,     \* the threads that execute the object
    Allocs,    \* the subcarrier allocations an object can be built from
    NoUser,
    NoModem    \* the object is destroyed and not yet created again

VARIABLES
    user,      \* the thread executing the object, or NoUser
    alloc      \* the allocation of the live object, or NoModem

Acquire(t) ==
    /\ user = NoUser /\ alloc # NoModem
    /\ user' = t
    /\ UNCHANGED alloc

Release ==
    /\ user # NoUser
    /\ user' = NoUser
    /\ UNCHANGED alloc

Teardown ==
    /\ user = NoUser /\ alloc # NoModem
    /\ alloc' = NoModem
    /\ UNCHANGED user

Build ==
    /\ alloc = NoModem
    /\ \E a \in Allocs : alloc' = a
    /\ UNCHANGED user

Init == user = NoUser /\ alloc \in Allocs

Next == (\E t \in Users : Acquire(t)) \/ Release \/ Teardown \/ Build

Spec == Init /\ [][Next]_<<user, alloc>>
====
