----------------------------- MODULE DmaChannels -----------------------------
(***************************************************************************)
(* What the SDMA library promises the drivers that use it, each a process  *)
(* of its own, of the ownership of channels and of the register HOSTOVR: a *)
(* DMA channel has at most one owner, and only its owner arms it (sets its *)
(* bit in HOSTOVR) or disarms it.  No process changes the owner or the bit *)
(* of another one's channel, not even by coming up, going away or dying.   *)
(* Of the other registers a channel depends on nothing is said here.       *)
(***************************************************************************)
CONSTANTS Proc,      \* the processes that use the library
          Chan,      \* the DMA channels
          NoProc     \* the owner of a free channel

VARIABLES owner,     \* the process a channel is reserved for
          armed      \* the channels that are switched on in HOSTOVR

cvars == <<owner, armed>>

Init == owner = [c \in Chan |-> NoProc] /\ armed = {}

Acquire(p, c) == /\ owner[c] = NoProc
                 /\ owner' = [owner EXCEPT ![c] = p] /\ UNCHANGED armed

Arm(p, c) == owner[c] = p /\ armed' = armed \cup {c} /\ UNCHANGED owner

Disarm(p, c) == owner[c] = p /\ armed' = armed \ {c} /\ UNCHANGED owner

Free(p, c) == /\ owner[c] = p
              /\ owner' = [owner EXCEPT ![c] = NoProc] /\ UNCHANGED armed

\* A process dies: its channels are free again, as armed as it left them.
Die(p) == /\ owner' = [c \in Chan |-> IF owner[c] = p THEN NoProc ELSE owner[c]]
          /\ UNCHANGED armed

Next == \E p \in Proc : \/ Die(p)
                        \/ \E c \in Chan : \/ Acquire(p, c) \/ Free(p, c)
                                           \/ Arm(p, c) \/ Disarm(p, c)

Spec == Init /\ [][Next]_cvars
==============================================================================
