---------------------------- MODULE DatagramPipe ----------------------------
(***************************************************************************)
(* What a datagram may meet on its way through the proxy: it can be lost,  *)
(* but nothing is altered, invented, duplicated or reordered.  Datagrams   *)
(* are numbered as they are accepted, in their headers.                    *)
(***************************************************************************)
EXTENDS Integers, Sequences

CONSTANTS Datagrams,
          First      \* the number before the first one

VARIABLES accepted,  \* the number of the last datagram accepted
          pending,   \* accepted, and neither delivered nor lost
          out        \* delivered so far

Number(d) == d[1].id

Init == accepted = First /\ pending = {} /\ out = << >>

\* A datagram may be lost as soon as it is accepted.
Accept ==
  /\ accepted' = accepted + 1
  /\ \E d \in Datagrams : /\ Number(d) = accepted'
                          /\ pending' \in {pending, pending \cup {d}}
  /\ UNCHANGED out

\* The oldest one is next.
Deliver ==
  /\ \E d \in pending : /\ \A e \in pending \ {d} : Number(d) < Number(e)
                        /\ out' = Append(out, d)
                        /\ pending' = pending \ {d}
  /\ UNCHANGED accepted

Lose == pending' \in SUBSET pending /\ UNCHANGED <<accepted, out>>

Next == Accept \/ Deliver \/ Lose

Spec == Init /\ [][Next]_<<accepted, pending, out>>
=============================================================================
