---------------------------- MODULE EchoService ----------------------------
(***************************************************************************)
(* What an echo server promises, whatever multiplexing it uses.  A client  *)
(* gets back its own lines, in order, each at most once and nothing else;  *)
(* a line StopLine that arrives alone is consumed without an answer; a     *)
(* client that has not left is cut off only when the service ends, and     *)
(* from then on nobody is answered.                                        *)
(***************************************************************************)
EXTENDS Naturals, Sequences

CONSTANTS Clients, Lines, StopLine

VARIABLES
  place,    \* out: not connected, in: connected, cut: cut off, left: gone
  asked,    \* lines of each client the service has still to deal with
  replies,  \* answers each client has still to collect
  open      \* the service still answers

vars == <<place, asked, replies, open>>

Init ==
  /\ place = [c \in Clients |-> "out"]
  /\ asked = [c \in Clients |-> <<>>]
  /\ replies = [c \in Clients |-> <<>>]
  /\ open = TRUE

Join(c) ==
  /\ place[c] = "out"
  /\ place' = [place EXCEPT ![c] = "in"]
  /\ UNCHANGED <<asked, replies, open>>

Ask(c, l) ==
  /\ place[c] = "in"
  /\ asked' = [asked EXCEPT ![c] = Append(@, l)]
  /\ UNCHANGED <<place, replies, open>>

\* The first k lines of c are dealt with in one go: sent back if c is there
\* to be answered, else lost.
Answer(c, k) ==
  LET batch == SubSeq(asked[c], 1, k)
  IN  /\ open /\ k \in 1 .. Len(asked[c]) /\ batch # <<StopLine>>
      /\ asked' = [asked EXCEPT ![c] = SubSeq(@, k + 1, Len(@))]
      /\ replies' = IF place[c] = "in" THEN [replies EXCEPT ![c] = @ \o batch]
                    ELSE replies
      /\ UNCHANGED <<place, open>>

\* StopLine arrived alone.
HearStop(c) ==
  /\ open /\ asked[c] = <<StopLine>>
  /\ asked' = [asked EXCEPT ![c] = <<>>]
  /\ UNCHANGED <<place, replies, open>>

Collect(c) ==
  /\ place[c] \in {"in", "cut"}
  /\ replies' = [replies EXCEPT ![c] = <<>>]
  /\ UNCHANGED <<place, asked, open>>

Leave(c) ==
  /\ place' = [place EXCEPT ![c] = "left"]
  /\ replies' = [replies EXCEPT ![c] = <<>>]
  /\ UNCHANGED <<asked, open>>

\* The service ends, or goes on ending, for the clients in cs.
End(cs) ==
  /\ open' = FALSE
  /\ place' = [c \in Clients |-> IF c \in cs /\ place[c] = "in" THEN "cut" ELSE place[c]]
  /\ asked' = [c \in Clients |-> IF c \in cs THEN <<>> ELSE asked[c]]
  /\ UNCHANGED replies

Next ==
  \/ \E c \in Clients :
       \/ Join(c)
       \/ \E l \in Lines : Ask(c, l)
       \/ \E k \in 1 .. Len(asked[c]) : Answer(c, k)
       \/ HearStop(c)
       \/ Collect(c)
       \/ Leave(c)
  \/ \E cs \in SUBSET Clients : End(cs)

Spec == Init /\ [][Next]_vars
=============================================================================
