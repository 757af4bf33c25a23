----------------------------- MODULE ByteStream -----------------------------
(***************************************************************************)
(* What a pseudo-TCP connection promises to the two programs that use it:  *)
(* each reads the bytes that the other one wrote, all of them in order and *)
(* each of them once.  The bytes a side writes are numbered from 1.        *)
(***************************************************************************)
EXTENDS Naturals, Sequences

CONSTANTS Side,     \* the two ends
          Peer(_)   \* the other end

VARIABLES
    written,  \* written[e]: how many bytes e has written
    received  \* received[e]: the bytes e has read

Init ==
    /\ written = [e \in Side |-> 0]
    /\ received = [e \in Side |-> << >>]

Write(e) ==
    /\ written'[e] \in Nat /\ written'[e] > written[e]
    /\ written' = [written EXCEPT ![e] = written'[e]]
    /\ UNCHANGED received

\* The next bytes of what the peer has written.
Read(e) ==
    /\ \E n \in Len(received[e])..written[Peer(e)] :
         received' = [received EXCEPT ![e] = [i \in 1..n |-> i]]
    /\ UNCHANGED written

Next == \E e \in Side : Write(e) \/ Read(e)

Spec == Init /\ [][Next]_<<written, received>>
=============================================================================
