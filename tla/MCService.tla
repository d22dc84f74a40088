------------------------------ MODULE MCService ------------------------------
(* Service.tla for TLC: callers are interchangeable, and products are.     *)
EXTENDS Service, TLC

\* States that differ only in what no step and no property looks at are one:
\* what is left of a call that returned, the key of a reader that has only to
\* open its path, the histories of the stamps, and how the mishaps divide.
CallOf(c) ==
    IF pc[c] = "idle" THEN <<"idle">>
    ELSE <<pc[c], key[c], ctxDone[c], ch[c], outcome[c], there[c]>>

LookUpOf(c) == IF rpc[c] = "open" THEN <<"open">> ELSE <<rpc[c], rkey[c], now[c]>>

MCView ==
    <<[c \in Callers |-> <<CallOf(c), LookUpOf(c)>>], flight, sem,
      file, temp, clock, wpc, wkey, epc, todo, snap, total, unlisted,
      serving, closed, crashes + stuck, crashes * MaxBuilds + stuck - junk>>

MCSymmetry == Permutations(Callers) \cup Permutations(Keys)

=============================================================================
