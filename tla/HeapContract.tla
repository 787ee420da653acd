---------------------------- MODULE HeapContract ----------------------------
(***************************************************************************)
(* What every allocator of the survey promises its caller, whatever it     *)
(* does inside: a block that is handed out has no user, and only a block   *)
(* in use is given back.  The benchmark relies on nothing else: its        *)
(* containers allocate and deallocate through this interface only          *)
(* (src/test.cpp, benchmark_suite).                                        *)
(*                                                                         *)
(* Users are counted: an allocator that hands a block out a second time    *)
(* takes a step that this specification does not have.                     *)
(***************************************************************************)
EXTENDS Naturals

CONSTANT Block          \* the blocks the allocator can ever hand out

VARIABLE users          \* users[b]: how often b is handed out at the moment

HInit == users = [b \in Block |-> 0]

\* allocate(): some block that nobody is using becomes the caller's.
Malloc(b) ==
    /\ users[b] = 0
    /\ users' = [users EXCEPT ![b] = 1]

\* deallocate(): the application gives a block of its own back.
Free(b) ==
    /\ users[b] = 1
    /\ users' = [users EXCEPT ![b] = 0]

\* realloc() may take a new block and give the old one back in one step.
Move(b, c) ==
    /\ users[b] = 1 /\ users[c] = 0
    /\ users' = [users EXCEPT ![b] = 0, ![c] = 1]

HNext == \E b \in Block : Malloc(b) \/ Free(b) \/ \E c \in Block : Move(b, c)

HSpec == HInit /\ [][HNext]_users
=============================================================================
