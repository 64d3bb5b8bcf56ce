------------------------------ MODULE BytePipe ------------------------------
(***************************************************************************)
(* What a relay session promises of the two byte streams it carries,       *)
(* whatever the connections under it do: the VM sees the local             *)
(* application's bytes in order and none twice, and the local application  *)
(* sees the VM's bytes in order, none twice and none missing, until the    *)
(* session is over.  (The promise towards the VM has no "none missing":    *)
(* see NoHole of RelaySession.)                                            *)
(***************************************************************************)
EXTENDS Naturals, Sequences

VARIABLES up, down, open

Ascending(s) == \A i \in 1..Len(s) - 1 : s[i] < s[i + 1]

Unbroken(s) == \A i \in 1..Len(s) : s[i] = i

Extends(s, t) == Len(s) <= Len(t) /\ SubSeq(t, 1, Len(s)) = s

Init == up = <<>> /\ down = <<>> /\ open = TRUE

\* Bytes already on their way may still reach the VM after the end.
ToVM == Extends(up, up') /\ Ascending(up') /\ UNCHANGED <<down, open>>

ToLocal ==
    /\ open
    /\ Extends(down, down') /\ Unbroken(down')
    /\ open' \in BOOLEAN
    /\ UNCHANGED up

Close == open /\ open' = FALSE /\ UNCHANGED <<up, down>>

Next == ToVM \/ ToLocal \/ Close

Spec == Init /\ [][Next]_<<up, down, open>>
=============================================================================
